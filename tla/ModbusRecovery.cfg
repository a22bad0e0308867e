\* Three tasks that go on asking a device until, at some point, nothing disturbs them any more.
SPECIFICATION FairSpec
CONSTANTS
    t1 = t1  t2 = t2  t3 = t3  unit = unit
    Tasks = {t1, t2, t3}
    Units = {unit}
    UnitOf <- OneUnit
    Jobs <- PollingJobs
    Registers = {0}
    Bits = {0, 1}
    BitWritings = {"rmw"}
    Reconnect <- Always
    After = 2
    BusyTries = 2
    AbsentSets <- NoneAbsent
    Codes = {"busy"}
    LinkFailures = {"closed", "dead"}
    MaySettle = TRUE
    Limit <- MCLimit
    Nobody = Nobody

PROPERTIES Recovers EveryCallReturns
