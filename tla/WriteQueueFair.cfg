\* Two calls on a setting and a pulsed command, or the sequence of both: the calls overtake
\* one another on the setting, and on the command two pulses and their returns to idle queue
\* up. Nobody cancels a call; disconnect() may cancel the pulses.
\* A queue with nothing more asked of it has nothing to do: it may stop.
SPECIFICATION FairSpec
CONSTANTS
    c1 = c1  c2 = c2  c3 = c3
    temperature = temperature  relay = relay
    Keys <- TwoKeys
    Settings <- OneKey
    Pulsed <- OnlyRelay
    Calls <- TwoCalls
    Cancellable <- NoCalls
    Lists <- OneList
    MaxSends = 2
    NoWrite = NoWrite
INVARIANTS TypeOK HeldIsTaken
PROPERTIES EveryWriteEnds PulseReturns
CHECK_DEADLOCK FALSE
