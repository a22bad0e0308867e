\* Two lists over three points, and a unit that answers, refuses, falls silent or answers zeros.
SPECIFICATION FairSpec
CONSTANTS
    wide = wide  narrow = narrow  apart = apart
    w1 = w1  w2 = w2  n1 = n1  o1 = o1  None = None
    Points = {wide, narrow, apart}
    Registers = {w1, w2, n1, o1}
    Spans <- SpansOf
    Space <- SpaceOf
    Lists <- HostLists
    MaxRegisters = 3
    Rules <- SomeRules
    Holdings <- SomeHoldings
    Absences <- SomeAbsences
INVARIANTS TypeOK EveryPointAnswered ReadAgainOnTime
PROPERTIES MissingIsLacking KeptWithin Converges
