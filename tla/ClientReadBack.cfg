\* Two calls on a command that is read back and that a scan reads too.
\* A client that nobody calls has nothing to do: it may stop.
SPECIFICATION ClientFairSpec
CONSTANTS
    c1 = c1  c2 = c2
    temperature = temperature  relay = relay
    Keys <- OnlyRelay
    Settings <- NoKeys
    Pulsed <- NoKeys
    Calls <- TwoCalls
    Cancellable <- NoCalls
    Lists <- NoLists
    MaxSends = 1
    NoWrite = NoWrite
    Readable <- OnlyRelay
    CheckKeys <- OnlyRelay
    MaxFailures = 1
    None = None
    Failed = Failed
PROPERTY ReadBackComes
CHECK_DEADLOCK FALSE
