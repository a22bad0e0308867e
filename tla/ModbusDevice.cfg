\* Reads of several points beside writes of bits and of their register.
SPECIFICATION Spec
CONSTANTS
    t1 = t1  t2 = t2  t3 = t3  unit = unit
    Tasks = {t1, t2}
    Units = {unit}
    UnitOf <- OneUnit
    Jobs <- DataJobs
    Registers = {0}
    Bits = {0, 1}
    BitWritings = {"rmw", "mask"}
    Reconnect <- ForAWhile
    After = 1
    BusyTries = 2
    AbsentSets <- AnyAbsent
    Codes = {"busy", "uncoded", "gateway_failed"}
    LinkFailures = {}
    MaySettle = FALSE
    Limit <- MCLimit
    Nobody = Nobody
INVARIANTS TypeOK BitsKept ReportedAsDone EachItsOwn AsksOnlyWhatIsRead
