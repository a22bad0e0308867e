\* The host cancels a call that waits for the lock.
\* A queue with nothing more asked of it has nothing to do: it may stop.
SPECIFICATION FairSpec
CONSTANTS
    c1 = c1  c2 = c2  c3 = c3
    temperature = temperature  relay = relay
    Keys <- OneKey
    Settings <- OneKey
    Pulsed <- NoKeys
    Calls <- TwoCalls
    Cancellable <- TwoCalls
    Lists <- NoLists
    MaxSends = 2
    NoWrite = NoWrite
PROPERTY OvertakenReturns
CHECK_DEADLOCK FALSE
