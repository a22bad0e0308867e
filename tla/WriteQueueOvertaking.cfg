\* Three calls on a setting and a command, and a sequence that writes the setting twice, all of them
\* cancellable: enough for a setting that overtakes one that overtook another.
\* A queue with nothing more asked of it has nothing to do: it may stop.
SPECIFICATION Spec
CONSTANTS
    c1 = c1  c2 = c2  c3 = c3
    temperature = temperature  relay = relay
    Keys <- TwoKeys
    Settings <- OneKey
    Pulsed <- NoKeys
    Calls <- ThreeCalls
    Cancellable <- ThreeCalls
    Lists <- TwiceList
    MaxSends = 2
    NoWrite = NoWrite
SYMMETRY AnyCall
INVARIANTS OneAtATime Accounting
PROPERTIES OvertakenNotResent OrphanedByCancelOnly GivesService
CHECK_DEADLOCK FALSE
