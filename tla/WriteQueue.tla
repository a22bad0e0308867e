----------------------------- MODULE WriteQueue -----------------------------
(***************************************************************************)
(* The writes to one device (src/src/modbus_event_connect/_writes.py).     *)
(*                                                                         *)
(* Every call of write() and write_sequence(), and every task that writes  *)
(* a pulse's idle value back, is a write with a place in its code (pc).    *)
(* asyncio runs one of them at a time, from one await to the next, and     *)
(* that is the grain of the actions: the lock, a sending, the pause before *)
(* a sending again, and another write's answer are what a write waits for. *)
(* The value a write carries is the write itself, so that the state of the *)
(* device says whose value it holds.                                       *)
(***************************************************************************)
EXTENDS Integers, Sequences, FiniteSets, SequencesExt

CONSTANTS
    Keys,         \* the points of the model that can be written
    Settings,     \* those whose write_kind is STATE; the others are COMMANDs
    Pulsed,       \* the commands with a pulse, which return to idle after their time
    Calls,        \* the calls the host makes of write() and write_sequence()
    Cancellable,  \* the calls whose task the host may cancel
    Lists,        \* the keys, in order, that a write_sequence() may be asked to write
    MaxSends,     \* the most sendings of one value before retry_for has passed
    NoWrite       \* stands for None

Writes == Calls \X {"call", "idle"}

\* The write that returns to idle what the call `c` pulsed.
IdleWrite(w) == <<w[1], "idle">>

\* The call whose pulse `w` ends.
Pulser(w) == <<w[1], "call">>

IsCall(w) == w[2] = "call"

WriteQueueAssumption ==
    /\ IsFiniteSet(Calls)
    /\ Settings \subseteq Keys
    /\ Pulsed \subseteq Keys \ Settings   \* only a COMMAND can pulse (tests/test_point.py:339)
    /\ Cancellable \subseteq Calls
    /\ Lists \subseteq Seq(Keys) \ {<< >>}
    /\ MaxSends \in Nat \ {0}
    /\ NoWrite \notin Writes

ASSUME WriteQueueAssumption

VARIABLES
    pc,          \* where each write is
    kind,        \* "write" for a write of one value, "sequence" for write_sequence()
    keys,        \* the keys it writes, in order
    at,          \* which of them it is at
    sends,       \* how often it has sent the value it is at
    order,       \* history: its place among the writes begun, 0 before that
    outcome,     \* what the call returned or raised
    cancelled,   \* the writes whose task was cancelled and has not noticed yet
    superseded,  \* _Write.superseded
    result,      \* _Write.result
    followers,   \* _Write.followers, each by the write whose result it is
    latest,      \* _latest_setting
    holder,      \* the write that holds _lock
    waiters,     \* the writes waiting for _lock, first come first served
    inFlight,    \* _in_flight
    writing,     \* _writing
    changes,     \* _changes
    pending,     \* what pending() was last told
    landed,      \* how many of a write's values the device has taken
    register,    \* whose value the device holds for each key
    held         \* whose value written() was last told for each key

callVars == <<kind, keys, order>>
progressVars == <<at, sends>>
futureVars == <<superseded, result, followers, latest>>
lockVars == <<holder, waiters>>
countVars == <<inFlight, writing, changes, pending>>
deviceVars == <<landed, register>>
vars == <<pc, outcome, cancelled, held, callVars, progressVars, futureVars,
          lockVars, countVars, deviceVars>>

-----------------------------------------------------------------------------
Places == {"unused", "asleep", "waiting", "sending", "pausing", "following", "done"}

\* Begun and not ended: between _begin() and _end().
Underway == {"waiting", "sending", "pausing", "following"}

\* Holding the lock, with the device being written or asked again soon.
Holding == {"sending", "pausing"}

Unfinished == {w \in Writes : pc[w] \in Underway}

Key(w) == keys[w][at[w]]

IsSetting(w) == kind[w] = "write" /\ Key(w) \in Settings

\* The tasks of _pulses: cancel_pulses() takes those it cancels out at once.
Pulses == {w \in Writes : ~IsCall(w) /\ pc[w] \in Underway \union {"asleep"}} \ cancelled

Occurrences(ks, k) == Cardinality({i \in DOMAIN ks : ks[i] = k})

\* marks() and disturbed(), for the client that reads between writes.
Marks == changes

Disturbed(k, since) == writing[k] > 0 \/ changes[k] # since[k]

Init ==
    /\ pc = [w \in Writes |-> "unused"]
    /\ kind = [w \in Writes |-> "write"]
    /\ keys = [w \in Writes |-> << >>]
    /\ at = [w \in Writes |-> 1]
    /\ sends = [w \in Writes |-> 0]
    /\ order = [w \in Writes |-> 0]
    /\ outcome = [w \in Writes |-> "none"]
    /\ cancelled = {}
    /\ superseded = [w \in Writes |-> FALSE]
    /\ result = [w \in Writes |-> "none"]
    /\ followers = [w \in Writes |-> {}]
    /\ latest = [k \in Keys |-> NoWrite]
    /\ holder = NoWrite
    /\ waiters = << >>
    /\ inFlight = 0
    /\ writing = [k \in Keys |-> 0]
    /\ changes = [k \in Keys |-> 0]
    /\ pending = FALSE
    /\ landed = [w \in Writes |-> 0]
    /\ register = [k \in Keys |-> NoWrite]
    /\ held = [k \in Keys |-> NoWrite]

-----------------------------------------------------------------------------
\* _begin(): told before anything is awaited.
Begin(ks) ==
    /\ writing' = [k \in Keys |-> writing[k] + Occurrences(ks, k)]
    /\ changes' = [k \in Keys |-> changes[k] + Occurrences(ks, k)]
    /\ inFlight' = inFlight + 1
    /\ pending' = (pending \/ inFlight' = 1)

\* Mutant: only the first key of a sequence is ended.
EndFirst(ks) ==
    /\ writing' = [writing EXCEPT ![ks[1]] = @ - 1]
    /\ changes' = [changes EXCEPT ![ks[1]] = @ + 1]
    /\ inFlight' = inFlight - 1
    /\ pending' = (pending /\ inFlight' # 0)

\* _end()
End(ks) ==
    /\ writing' = [k \in Keys |-> writing[k] - Occurrences(ks, k)]
    /\ changes' = [k \in Keys |-> changes[k] + Occurrences(ks, k)]
    /\ inFlight' = inFlight - 1
    /\ pending' = (pending /\ inFlight' # 0)

\* Mutant: the lock is not waited for.
EnterLockBarging(w) ==
    /\ holder' = w
    /\ pc' = [pc EXCEPT ![w] = "sending"]
    /\ sends' = [sends EXCEPT ![w] = 1]
    /\ UNCHANGED waiters

\* `async with self._lock`, up to where it first waits: for the lock or the device.
\* A free lock is taken at once when all that wait for it are cancelled; a waiter
\* woken before it was cancelled still stands in the way.
EnterLock(w) ==
    \/ /\ holder = NoWrite
       /\ \A i \in DOMAIN waiters : waiters[i] \in cancelled
       /\ holder' = w
       /\ pc' = [pc EXCEPT ![w] = "sending"]
       /\ sends' = [sends EXCEPT ![w] = 1]
       /\ UNCHANGED waiters
    \/ /\ holder # NoWrite \/ waiters # << >>
       /\ waiters' = Append(waiters, w)
       /\ pc' = [pc EXCEPT ![w] = "waiting"]
       /\ UNCHANGED <<holder, sends>>

\* Mutant: the newer setting takes over one result, and not those taken over before.
SupersedeOne(w, k) ==
    LET earlier == {v \in Writes : latest[k] = v /\ ~superseded[v]} IN
    /\ latest' = [latest EXCEPT ![k] = w]
    /\ superseded' = [v \in Writes |-> superseded[v] \/ v \in earlier]
    /\ followers' = [v \in Writes |-> IF v = w THEN earlier
                                      ELSE IF v \in earlier THEN {} ELSE followers[v]]

\* A newer setting of `k` takes over the result of the one before it, and of
\* those that one had taken over.
Supersede(w, k) ==
    LET earlier == {v \in Writes : latest[k] = v /\ ~superseded[v]} IN
    /\ latest' = [latest EXCEPT ![k] = w]
    /\ superseded' = [v \in Writes |-> superseded[v] \/ v \in earlier]
    /\ followers' = [v \in Writes |->
                        IF v = w THEN earlier \union UNION {followers[e] : e \in earlier}
                        ELSE IF v \in earlier THEN {} ELSE followers[v]]

\* _enqueue() of one value, up to its first wait.
Enqueue(w, k) ==
    /\ kind' = [kind EXCEPT ![w] = "write"]
    /\ keys' = [keys EXCEPT ![w] = <<k>>]
    /\ order' = [order EXCEPT ![w] = Cardinality({v \in Writes : order[v] # 0}) + 1]
    /\ \/ k \in Settings /\ Supersede(w, k)
       \/ k \notin Settings /\ UNCHANGED <<superseded, followers, latest>>
    /\ Begin(<<k>>)
    /\ EnterLock(w)
    /\ UNCHANGED <<at, outcome, result, held, deviceVars>>

\* The host calls write(): `value` is checked already.
Write(w, k) ==
    /\ IsCall(w)
    /\ pc[w] = "unused"
    /\ Enqueue(w, k)
    /\ UNCHANGED cancelled

\* The host calls write_sequence(), whose settings overtake and are overtaken by none.
WriteSequence(w, ks) ==
    /\ IsCall(w)
    /\ pc[w] = "unused"
    /\ kind' = [kind EXCEPT ![w] = "sequence"]
    /\ keys' = [keys EXCEPT ![w] = ks]
    /\ order' = [order EXCEPT ![w] = Cardinality({v \in Writes : order[v] # 0}) + 1]
    /\ Begin(ks)
    /\ EnterLock(w)
    /\ UNCHANGED <<at, outcome, cancelled, held, futureVars, deviceVars>>

-----------------------------------------------------------------------------
\* Mutant: any waiter may get the lock.
AcquireUnfair(w) ==
    /\ pc[w] = "waiting"
    /\ w \notin cancelled
    /\ holder = NoWrite
    /\ \E i \in DOMAIN waiters : waiters[i] = w /\ waiters' = RemoveAt(waiters, i)
    /\ \/ /\ superseded[w]
          /\ pc' = [pc EXCEPT ![w] = "following"]
          /\ UNCHANGED <<holder, sends>>
       \/ /\ ~superseded[w]
          /\ holder' = w
          /\ pc' = [pc EXCEPT ![w] = "sending"]
          /\ sends' = [sends EXCEPT ![w] = 1]
    /\ UNCHANGED <<outcome, cancelled, held, callVars, at, futureVars, countVars,
                   deviceVars>>

\* The first waiter gets the free lock. One overtaken meanwhile lets go of it
\* without sending, and waits for its result instead.
Acquire(w) ==
    /\ pc[w] = "waiting"
    /\ w \notin cancelled
    /\ holder = NoWrite
    /\ waiters # << >> /\ Head(waiters) = w
    /\ waiters' = Tail(waiters)
    /\ \/ /\ superseded[w]
          /\ pc' = [pc EXCEPT ![w] = "following"]
          /\ UNCHANGED <<holder, sends>>
       \/ /\ ~superseded[w]
          /\ holder' = w
          /\ pc' = [pc EXCEPT ![w] = "sending"]
          /\ sends' = [sends EXCEPT ![w] = 1]
    /\ UNCHANGED <<outcome, cancelled, held, callVars, at, futureVars, countVars,
                   deviceVars>>

\* The device takes the value that was sent; the answer comes later, or never. A sending
\* that was given up is assumed not to reach the device any more: nothing in the queue
\* would keep it from landing after a newer write.
DeviceTakes(w) ==
    /\ pc[w] = "sending"
    /\ landed[w] < at[w]
    /\ landed' = [landed EXCEPT ![w] = at[w]]
    /\ register' = [register EXCEPT ![Key(w)] = w]
    /\ UNCHANGED <<pc, outcome, cancelled, held, callVars, progressVars, futureVars,
                   lockVars, countVars>>

\* The way out of a write: its followers get `r`, the future nobody set is
\* cancelled, and the write stops being the latest setting and being under way.
Leave(w, o, told, r) ==
    /\ outcome' = [outcome EXCEPT ![w] = o]
    /\ result' = [v \in Writes |->
                    IF result[v] # "none" THEN result[v]
                    ELSE IF v \in told THEN r
                    ELSE IF v = w THEN "cancelled" ELSE "none"]
    /\ latest' = [k \in Keys |-> IF latest[k] = w THEN NoWrite ELSE latest[k]]
    /\ End(keys[w])
    /\ UNCHANGED <<superseded, followers, callVars, at, sends>>

\* The device's answer ends the write, which lets go of the lock.
LeaveLock(w, o) ==
    /\ Leave(w, o, followers[w], o)
    /\ holder' = NoWrite
    /\ UNCHANGED <<waiters, deviceVars>>

Answerable(w) == pc[w] = "sending" /\ w \notin cancelled

\* Accepted, with more to send of this sequence.
AcceptedNext(w) ==
    /\ Answerable(w)
    /\ landed[w] = at[w]
    /\ at[w] < Len(keys[w])
    /\ held' = [held EXCEPT ![Key(w)] = w]
    /\ at' = [at EXCEPT ![w] = at[w] + 1]
    /\ sends' = [sends EXCEPT ![w] = 1]
    /\ UNCHANGED <<pc, outcome, cancelled, callVars, futureVars, lockVars, countVars,
                   deviceVars>>

\* A pulse starts with the acceptance of a write of its own, not of a sequence's.
StartsPulse(w) == kind[w] = "write" /\ IsCall(w) /\ Key(w) \in Pulsed

\* Mutant: the client is not told what was written.
AcceptedUntold(w) ==
    /\ Answerable(w)
    /\ landed[w] = at[w]
    /\ at[w] = Len(keys[w])
    /\ pc' = [v \in Writes |-> IF v = w THEN "done"
                               ELSE IF v = IdleWrite(w) /\ StartsPulse(w) THEN "asleep"
                               ELSE pc[v]]
    /\ LeaveLock(w, "ok")
    /\ UNCHANGED <<cancelled, held>>

\* Accepted: the last value, or the only one.
Accepted(w) ==
    /\ Answerable(w)
    /\ landed[w] = at[w]
    /\ at[w] = Len(keys[w])
    /\ held' = [held EXCEPT ![Key(w)] = w]
    /\ pc' = [v \in Writes |-> IF v = w THEN "done"
                               ELSE IF v = IdleWrite(w) /\ StartsPulse(w) THEN "asleep"
                               ELSE pc[v]]
    /\ LeaveLock(w, "ok")
    /\ UNCHANGED cancelled

\* Mutant: what the device answered is returned, rather than False.
RefusedRaw(w) ==
    /\ Answerable(w)
    /\ pc' = [pc EXCEPT ![w] = "done"]
    /\ LeaveLock(w, "BUSY")
    /\ UNCHANGED <<cancelled, held>>

\* Refused, unanswered (the device may have taken it all the same), or BUSY
\* still after retry_for: the write returns False. A sequence stops here.
Refused(w) ==
    /\ Answerable(w)
    /\ pc' = [pc EXCEPT ![w] = "done"]
    /\ LeaveLock(w, "refused")
    /\ UNCHANGED <<cancelled, held>>

\* BUSY before retry_for has passed: it waits retry_pause, holding the lock.
Busy(w) ==
    /\ Answerable(w)
    /\ landed[w] < at[w]
    /\ sends[w] < MaxSends
    /\ pc' = [pc EXCEPT ![w] = "pausing"]
    /\ UNCHANGED <<outcome, cancelled, held, callVars, progressVars, futureVars, lockVars,
                   countVars, deviceVars>>

\* Mutant: nobody looks whether the setting was overtaken meanwhile.
ResumeStubborn(w) ==
    /\ pc[w] = "pausing"
    /\ w \notin cancelled
    /\ pc' = [pc EXCEPT ![w] = "sending"]
    /\ sends' = [sends EXCEPT ![w] = sends[w] + 1]
    /\ UNCHANGED <<outcome, cancelled, held, callVars, at, futureVars, lockVars, countVars,
                   deviceVars>>

\* Mutant: the newer setting's outcome is waited for inside the lock.
ResumeInside(w) ==
    /\ pc[w] = "pausing"
    /\ w \notin cancelled
    /\ \/ /\ superseded[w]
          /\ pc' = [pc EXCEPT ![w] = "following"]
          /\ UNCHANGED sends
       \/ /\ ~superseded[w]
          /\ pc' = [pc EXCEPT ![w] = "sending"]
          /\ sends' = [sends EXCEPT ![w] = sends[w] + 1]
    /\ UNCHANGED <<outcome, cancelled, held, callVars, at, futureVars, lockVars, countVars,
                   deviceVars>>

\* The pause is over. A setting overtaken by now is not sent again.
Resume(w) ==
    /\ pc[w] = "pausing"
    /\ w \notin cancelled
    /\ \/ /\ superseded[w]
          /\ pc' = [pc EXCEPT ![w] = "following"]
          /\ holder' = NoWrite
          /\ UNCHANGED sends
       \/ /\ ~superseded[w]
          /\ pc' = [pc EXCEPT ![w] = "sending"]
          /\ sends' = [sends EXCEPT ![w] = sends[w] + 1]
          /\ UNCHANGED holder
    /\ UNCHANGED <<outcome, cancelled, held, callVars, at, futureVars, waiters, countVars,
                   deviceVars>>

\* An overtaken write returns, or raises, what the newer one's end gave it.
Follow(w) ==
    /\ pc[w] = "following"
    /\ w \notin cancelled
    /\ result[w] # "none"
    /\ pc' = [pc EXCEPT ![w] = "done"]
    /\ Leave(w, result[w], {}, "none")
    /\ UNCHANGED <<cancelled, held, lockVars, deviceVars>>

-----------------------------------------------------------------------------
\* device.write() raises: those that follow the write raise the same.
Raises(w) ==
    /\ Answerable(w)
    /\ pc' = [pc EXCEPT ![w] = "done"]
    /\ LeaveLock(w, "error")
    /\ UNCHANGED <<cancelled, held>>

\* The host cancels the task that called write() or write_sequence().
Cancel(w) ==
    /\ IsCall(w)
    /\ w[1] \in Cancellable
    /\ pc[w] \in Underway
    /\ w \notin cancelled
    /\ cancelled' = cancelled \union {w}
    /\ UNCHANGED <<pc, outcome, held, callVars, progressVars, futureVars, lockVars,
                   countVars, deviceVars>>

\* cancel_pulses(), by the client's disconnect().
CancelPulses ==
    /\ Pulses # {}
    /\ cancelled' = cancelled \union Pulses
    /\ UNCHANGED <<pc, outcome, held, callVars, progressVars, futureVars, lockVars,
                   countVars, deviceVars>>

\* CancelledError is raised where the task waits. Only a write being sent passes
\* it to its followers: one that still waits for the lock is outside that `try`.
CancelledWaiting(w) ==
    /\ w \in cancelled
    /\ pc[w] = "waiting"
    /\ \E i \in DOMAIN waiters : waiters[i] = w /\ waiters' = RemoveAt(waiters, i)
    /\ cancelled' = cancelled \ {w}
    /\ pc' = [pc EXCEPT ![w] = "done"]
    /\ Leave(w, "cancelled", {}, "none")
    /\ UNCHANGED <<held, holder, deviceVars>>

CancelledHolding(w) ==
    /\ w \in cancelled
    /\ pc[w] \in Holding
    /\ cancelled' = cancelled \ {w}
    /\ pc' = [pc EXCEPT ![w] = "done"]
    /\ LeaveLock(w, "cancelled")
    /\ UNCHANGED held

CancelledFollowing(w) ==
    /\ w \in cancelled
    /\ pc[w] = "following"
    /\ cancelled' = cancelled \ {w}
    /\ pc' = [pc EXCEPT ![w] = "done"]
    /\ Leave(w, "cancelled", {}, "none")
    /\ UNCHANGED <<held, lockVars, deviceVars>>

CancelledAsleep(w) ==
    /\ w \in cancelled
    /\ pc[w] = "asleep"
    /\ cancelled' = cancelled \ {w}
    /\ pc' = [pc EXCEPT ![w] = "done"]
    /\ outcome' = [outcome EXCEPT ![w] = "cancelled"]
    /\ UNCHANGED <<held, callVars, progressVars, futureVars, lockVars, countVars, deviceVars>>

\* Mutant: the idle value is dropped when another write is under way.
PulseOverDropped(w) ==
    /\ ~IsCall(w)
    /\ pc[w] = "asleep"
    /\ w \notin cancelled
    /\ \/ /\ inFlight = 0
          /\ \E k \in Keys : keys[Pulser(w)] = <<k>> /\ Enqueue(w, k)
       \/ /\ inFlight > 0
          /\ pc' = [pc EXCEPT ![w] = "done"]
          /\ UNCHANGED <<outcome, held, callVars, progressVars, futureVars, lockVars,
                         countVars, deviceVars>>
    /\ UNCHANGED cancelled

\* The pulse's time is over: its idle value is queued like any other write.
PulseOver(w) ==
    /\ ~IsCall(w)
    /\ pc[w] = "asleep"
    /\ w \notin cancelled
    /\ \E k \in Keys : keys[Pulser(w)] = <<k>> /\ Enqueue(w, k)
    /\ UNCHANGED cancelled

-----------------------------------------------------------------------------
HostCalls(w) ==
    \/ \E k \in Keys : Write(w, k)
    \/ \E ks \in Lists : WriteSequence(w, ks)
    \/ Cancel(w)

\* What the event loop and the device owe a write.
Answer(w) == AcceptedNext(w) \/ Accepted(w) \/ Refused(w) \/ Busy(w) \/ Raises(w)

CancelledRaised(w) ==
    CancelledWaiting(w) \/ CancelledHolding(w) \/ CancelledFollowing(w) \/ CancelledAsleep(w)

Next ==
    \/ \E w \in Writes :
        \/ HostCalls(w) \/ Acquire(w) \/ DeviceTakes(w) \/ Answer(w)
        \/ Resume(w) \/ Follow(w) \/ CancelledRaised(w) \/ PulseOver(w)
    \/ CancelPulses

Spec == Init /\ [][Next]_vars

\* The event loop runs what is ready, sleeps end, and a device either answers
\* or the request to it times out. Nothing makes a host call or cancel anything.
Fairness ==
    \A w \in Writes :
        /\ WF_vars(Acquire(w))
        /\ WF_vars(Answer(w))
        /\ WF_vars(Resume(w))
        /\ WF_vars(Follow(w))
        /\ WF_vars(CancelledRaised(w))
        /\ WF_vars(PulseOver(w))

FairSpec == Spec /\ Fairness
-----------------------------------------------------------------------------
(***************************************************************************)
(* Properties                                                              *)
(***************************************************************************)
Results == {"none", "ok", "refused", "error", "cancelled"}

\* Every variable has its type: the two counters of a key and that of the queue
\* may be any integer here, what they count is stated by Accounting.
TypeOK ==
    /\ pc \in [Writes -> Places]
    /\ kind \in [Writes -> {"write", "sequence"}]
    /\ keys \in [Writes -> Seq(Keys)]
    /\ at \in [Writes -> Nat \ {0}]
    /\ sends \in [Writes -> Nat]
    /\ order \in [Writes -> Nat]
    /\ outcome \in [Writes -> Results]
    /\ cancelled \subseteq Writes
    /\ superseded \in [Writes -> BOOLEAN]
    /\ result \in [Writes -> Results]
    /\ followers \in [Writes -> SUBSET Writes]
    /\ latest \in [Keys -> Writes \union {NoWrite}]
    /\ holder \in Writes \union {NoWrite}
    /\ waiters \in Seq(Writes)
    /\ inFlight \in Int
    /\ writing \in [Keys -> Int]
    /\ changes \in [Keys -> Int]
    /\ pending \in BOOLEAN
    /\ landed \in [Writes -> Nat]
    /\ register \in [Keys -> Writes \union {NoWrite}]
    /\ held \in [Keys -> Writes \union {NoWrite}]

\* At most one write is with the device, from its first sending to the answer
\* that ends it, pauses included: the one that holds the lock.
OneAtATime == \A w \in Writes : pc[w] \in Holding <=> holder = w

\* WRITE_PENDING was last told TRUE exactly while some write is under way, and
\* _writing counts, key by key, the writes under way: whatever was refused,
\* overtaken, raised or cancelled in between (_begin() and _end()).
CountedInFlight ==
    /\ inFlight = Cardinality(Unfinished)
    /\ pending <=> Unfinished # {}

\* The places at which the writes under way write `k`.
WritingPlaces(k) == UNION {{w} \X {i \in DOMAIN keys[w] : keys[w][i] = k} : w \in Unfinished}

CountedByKey == \A k \in Keys : writing[k] = Cardinality(WritingPlaces(k))

Accounting == CountedInFlight /\ CountedByKey

\* An overtaken setting that no write under way will tell how it ended: unless the
\* device still answers its own last sending, it waits for ever.
Orphaned(w) ==
    /\ pc[w] \in Underway
    /\ superseded[w]
    /\ result[w] = "none"
    /\ \A v \in Writes : pc[v] \in Underway \ {"following"} => w \notin followers[v]

\* However settings overtake one another, and whatever the device answers or raises,
\* an overtaken setting is told how the newer one ended (_enqueue()). It is left
\* without only by the cancellation of a write that still waits for the lock.
OrphanedByCancelOnly ==
    [][\A w \in Writes : ~Orphaned(w) /\ Orphaned(w)' =>
            \E v \in cancelled : pc[v] = "waiting" /\ pc'[v] = "done"]_vars

\* What the client holds for a key nothing is writing is what the device holds,
\* unless the device took a write that was never answered OK: written() is called
\* in the order the device took the values (_send(), write_sequence()).
HeldIsTaken ==
    \A k \in Keys : writing[k] = 0 =>
        register[k] = held[k] \/ outcome[register[k]] # "ok"

\* A setting is not sent again once a newer one has overtaken it (_until_taken(),
\* _enqueue()); the sending under way when it is overtaken is not called back.
OvertakenNotResent ==
    [][\A w \in Writes : superseded[w] => sends'[w] = sends[w]]_vars

\* Every write that is begun ends, whoever overtakes whom and whatever the device
\* answers, unless a write was cancelled: none waits inside the lock for the one that
\* needs it (_enqueue()).
EveryWriteEnds ==
    \A w \in Writes :
        pc[w] \in Underway ~> pc[w] = "done" \/ \E v \in Writes : outcome[v] = "cancelled"

\* What the documentation says (_writes.py, WriteQueue): a setting overtaken by a
\* newer one "returns the newer one's outcome" - so it returns.
OvertakenReturns == \A w \in Writes : pc[w] = "following" ~> pc[w] = "done"

\* A pulsed command does not stay on: each pulse, also one of several of the same command,
\* is followed by an idle value of its own, which the device takes - unless the device was
\* sent it and refuses it or raises, or disconnect() cancels it (_start_pulse()). That it is
\* taken after the pulse is part of GivesService.
PulseReturns ==
    \A w \in Writes :
        pc[w] = "asleep" ~>
            \/ landed[w] = 1
            \/ outcome[w] \in {"refused", "error"} /\ sends[w] > 0
            \/ outcome[w] = "cancelled"

-----------------------------------------------------------------------------
\* What the queue promises, without how: see WriteService.
Service == INSTANCE WriteService WITH
    setting <- [w \in Writes |-> keys[w] # << >> /\ IsSetting(w)]

\* The queue gives what WriteService promises: values reach the device in the order
\* their writes were begun, whatever is overtaken, refused or cancelled, and a
\* write returns True only once the device has its value or a newer setting's.
GivesService == Service!Spec
=============================================================================
