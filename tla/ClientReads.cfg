\* Two calls, which may be cancelled, on a setting and a command, while both are read.
\* A client that nobody calls has nothing to do: it may stop.
SPECIFICATION ClientSpec
CONSTANTS
    c1 = c1  c2 = c2
    temperature = temperature  relay = relay
    Keys <- TwoKeys
    Settings <- OneKey
    Pulsed <- NoKeys
    Calls <- TwoCalls
    Cancellable <- TwoCalls
    Lists <- NoLists
    MaxSends = 1
    NoWrite = NoWrite
    Readable <- TwoKeys
    CheckKeys <- NoKeys
    MaxFailures = 1
    None = None
    Failed = Failed
SYMMETRY AnyCall
INVARIANTS ClientTypeOK ShownOrAsked
PROPERTIES NeverUndone
CHECK_DEADLOCK FALSE
