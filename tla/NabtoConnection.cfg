\* A read and a write, one of them cancellable, and a unit that restarts, moves and refuses.
SPECIFICATION FairSpec
CONSTANTS
    t1 = t1  t2 = t2  read = read  write = write  None = None
    Tasks = {t1, t2}
    Commands = {read, write}
    Jobs <- JobsOf
    Reads = {read}
    Cancellable = {t1}
    Retries = 1
    SequenceMax = 2
    Hosts = {"right"}
    HasId = TRUE
    Reconnects = {"always", "never"}
INVARIANTS TypeOK AnswersItsOwn
PROPERTIES HeldBack EveryCallReturns Recovers
