---------------------------- MODULE ClientReads ----------------------------
(***************************************************************************)
(* A client that polls while it writes (_client.py: _pass,                 *)
(* _read_and_publish, _publish, _taken, the reads of _run_checks), on top  *)
(* of its WriteQueue.  The device answers a read key by key, while writes  *)
(* go on; what the client shows for a key is given, like everywhere in     *)
(* WriteQueue, by the write whose value it is.                             *)
(***************************************************************************)
EXTENDS WriteQueue

CONSTANTS
    Readable,     \* the keys that can be read too
    CheckKeys,    \* those a scan read, which its check reads again
    MaxFailures,  \* the most reads of a key that fail
    None,         \* no answer yet
    Failed        \* an answer without a value: none in time, or an error

ClientReadsAssumption ==
    /\ Readable \subseteq Keys
    /\ CheckKeys \subseteq Readable
    /\ MaxFailures \in Nat
    /\ None \notin Writes \union {NoWrite, Failed}
    /\ Failed \notin Writes \union {NoWrite}

ASSUME ClientReadsAssumption

VARIABLES
    values,    \* _values: whose value the client shows for each key
    due,       \* the keys the scheduler says are due
    soon,      \* the keys whose read is asked for, and not due yet
    reading,   \* where the pass is: it reads what is due, and then what a scan read
    asked,     \* the keys of the read under way
    marks,     \* where the writes stood when it began
    answers,   \* what the device answered so far
    failures   \* how many reads of each key failed

readVars == <<reading, asked, marks, answers>>
clientVars == <<vars, values, due, soon, readVars, failures>>

ClientInit ==
    /\ Init
    /\ values = [k \in Keys |-> NoWrite]
    /\ due = {}
    /\ soon = {}
    /\ reading = "nothing"
    /\ asked = {}
    /\ marks = Marks
    /\ answers = [k \in Keys |-> None]
    /\ failures = [k \in Keys |-> 0]

-----------------------------------------------------------------------------
\* Mutant: the read-back is left to the poll rate.
TakenOnly(k) ==
    /\ values' = [values EXCEPT ![k] = IF k \in Settings \intersect Readable
                                       THEN held'[k] ELSE values[k]]
    /\ UNCHANGED soon

\* _taken(): the setting the device took is shown at once, and it is read back.
Taken(k) ==
    /\ values' = [values EXCEPT ![k] = IF k \in Settings \intersect Readable
                                       THEN held'[k] ELSE values[k]]
    /\ soon' = soon \union ({k} \intersect Readable)

\* A step of the write queue, which tells the client what the device took.
QueueStep ==
    /\ Next
    /\ \/ \E k \in Keys : held'[k] # held[k] /\ Taken(k)
       \/ held' = held /\ UNCHANGED <<values, soon>>
    /\ UNCHANGED <<due, readVars, failures>>

\* A read asked for earlier is due now: a read-back, or a retry of what failed.
BecomesDue(k) ==
    /\ k \in soon
    /\ due' = due \union {k}
    /\ soon' = soon \ {k}
    /\ UNCHANGED <<vars, values, readVars, failures>>

\* The poll rate has come round, or the host calls refresh().
Refresh(k) ==
    /\ k \in Readable \ due
    /\ due' = due \union {k}
    /\ UNCHANGED <<vars, values, soon, readVars, failures>>

-----------------------------------------------------------------------------
Ask(what, ks) ==
    /\ reading' = what
    /\ asked' = ks
    /\ marks' = Marks
    /\ answers' = [k \in Keys |-> None]
    /\ UNCHANGED <<vars, values, due, soon, failures>>

\* What a pass reads first: what is due and not being written.
Undisturbed == {k \in due : ~Disturbed(k, Marks)}

PassReads ==
    /\ reading \in {"nothing", "published"}
    /\ Undisturbed # {}
    /\ Ask("due", Undisturbed)

\* Then, or with nothing due at once, the pass reads again what a scan read, to find
\* out whether the unit has changed.
CheckReads ==
    /\ \/ reading = "published"
       \/ reading = "nothing" /\ Undisturbed = {}
    /\ CheckKeys # {}
    /\ Ask("check", CheckKeys)

\* The device reads the register, some time before the whole read is answered.
DeviceReads(k) ==
    /\ k \in asked /\ answers[k] = None
    /\ answers' = [answers EXCEPT ![k] = register[k]]
    /\ UNCHANGED <<vars, values, due, soon, reading, asked, marks, failures>>

ReadFails(k) ==
    /\ k \in asked /\ answers[k] = None
    /\ failures[k] < MaxFailures
    /\ failures' = [failures EXCEPT ![k] = @ + 1]
    /\ answers' = [answers EXCEPT ![k] = Failed]
    /\ UNCHANGED <<vars, values, due, soon, reading, asked, marks>>

Answered == \A k \in asked : answers[k] # None

\* Mutant: only a write under way now disturbs what was read.
PublishNow ==
    LET told == {k \in asked : writing[k] = 0}
        failed == {k \in told : answers[k] = Failed} IN
    /\ Answered /\ reading = "due"
    /\ values' = [k \in Keys |-> IF k \in told \ failed THEN answers[k] ELSE values[k]]
    /\ due' = due \ told
    /\ soon' = soon \union failed
    /\ reading' = "published" /\ asked' = {}
    /\ UNCHANGED <<vars, marks, answers, failures>>

\* Mutant: what a write disturbed is not shown, and no longer due either.
PublishForgets ==
    LET told == {k \in asked : ~Disturbed(k, marks)}
        failed == {k \in told : answers[k] = Failed} IN
    /\ Answered /\ reading = "due"
    /\ values' = [k \in Keys |-> IF k \in told \ failed THEN answers[k] ELSE values[k]]
    /\ due' = due \ asked
    /\ soon' = soon \union failed
    /\ reading' = "published" /\ asked' = {}
    /\ UNCHANGED <<vars, marks, answers, failures>>

\* Mutant: a failed read replaces the value that was shown.
PublishFailures ==
    LET told == {k \in asked : ~Disturbed(k, marks)} IN
    /\ Answered /\ reading = "due"
    /\ values' = [k \in Keys |-> IF k \in told THEN answers[k] ELSE values[k]]
    /\ due' = due \ told
    /\ reading' = "published" /\ asked' = {}
    /\ UNCHANGED <<vars, soon, marks, answers, failures>>

\* _publish(): what a write disturbed meanwhile is left as it is, still due; what
\* failed keeps its value, and is read again.
Publish ==
    LET told == {k \in asked : ~Disturbed(k, marks)}
        failed == {k \in told : answers[k] = Failed} IN
    /\ Answered /\ reading = "due"
    /\ values' = [k \in Keys |-> IF k \in told \ failed THEN answers[k] ELSE values[k]]
    /\ due' = due \ told
    /\ soon' = soon \union failed
    /\ reading' = "published" /\ asked' = {}
    /\ UNCHANGED <<vars, marks, answers, failures>>

\* A check that finds nothing changed ends there.
CheckEnds ==
    /\ Answered /\ reading = "check"
    /\ reading' = "nothing" /\ asked' = {}
    /\ UNCHANGED <<vars, values, due, soon, marks, answers, failures>>

-----------------------------------------------------------------------------
Reads ==
    \/ PassReads \/ CheckReads \/ Publish \/ CheckEnds
    \/ \E k \in Keys : DeviceReads(k) \/ ReadFails(k)

ClientNext ==
    \/ QueueStep
    \/ Reads
    \/ \E k \in Keys : BecomesDue(k) \/ Refresh(k)

ClientSpec == ClientInit /\ [][ClientNext]_clientVars

\* The host keeps polling, the device answers or the request times out, time passes.
ClientFairness ==
    /\ \A w \in Writes :
        /\ WF_clientVars(QueueStep /\ Acquire(w))
        /\ WF_clientVars(QueueStep /\ Answer(w))
        /\ WF_clientVars(QueueStep /\ Resume(w))
        /\ WF_clientVars(QueueStep /\ Follow(w))
        /\ WF_clientVars(QueueStep /\ PulseOver(w))
    /\ \A k \in Keys :
        /\ WF_clientVars(BecomesDue(k))
        /\ WF_clientVars(DeviceReads(k) \/ ReadFails(k))
    /\ WF_clientVars(Publish)
    /\ WF_clientVars(CheckEnds)
    /\ WF_clientVars(PassReads)

ClientFairSpec == ClientSpec /\ ClientFairness
-----------------------------------------------------------------------------
(***************************************************************************)
(* Properties                                                              *)
(***************************************************************************)
ClientTypeOK ==
    /\ values \in [Keys -> Writes \union {NoWrite}]
    /\ due \subseteq Readable
    /\ soon \subseteq Readable
    /\ reading \in {"nothing", "due", "published", "check"}
    /\ asked \subseteq Readable
    /\ marks \in [Keys -> Nat]
    /\ answers \in [Keys -> Writes \union {NoWrite, None, Failed}]
    /\ failures \in [Keys -> 0 .. MaxFailures]

Age(w) == IF w = NoWrite THEN 0 ELSE order[w]

\* What the client shows never goes back to an older write's value: a read begun
\* before a write does not undo it, however late it is answered (_publish()).
NeverUndone ==
    [][\A k \in Keys : Age(values[k]) <= Age(values[k])']_clientVars

\* What the client shows for a key is what the device holds, or a read of the key is
\* asked for, whatever reads and writes it dropped or lost in between. A write the
\* device took without saying so is found by the poll rate only.
ShownOrAsked ==
    \A k \in Readable :
        \/ values[k] = register[k]
        \/ held[k] # register[k]
        \/ k \in due \union soon

\* The read-back comes: a command the device took is shown in the end, unless
\* another write to the key begins or the device has taken one it did not acknowledge.
ReadBackComes ==
    \A k \in Readable :
        held[k] # NoWrite /\ held[k] = register[k] ~>
            values[k] = register[k] \/ held[k] # register[k]
=============================================================================
