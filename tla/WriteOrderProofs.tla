-------------------------- MODULE WriteOrderProofs --------------------------
(***************************************************************************)
(* The write queue keeps what WriteService promises, for any number of     *)
(* calls, keys and sequences: what reaches the device, in which order, and *)
(* what is returned of it.                                                 *)
(***************************************************************************)
EXTENDS WriteQueueProofs, SequenceTheorems

Newer(v, w) == Service!Newer(v, w)

Begun == Service!Begun

\* Still to be sent, or being sent: in line, and nobody has cancelled it.
Live(w) == pc[w] \in Holding \/ (pc[w] = "waiting" /\ w \notin cancelled)

\* How far each write is: begun or not, with or without an outcome, and how many of
\* its values the device has.
ProgressInv ==
    \A w \in Writes :
        /\ pc[w] \in {"unused", "asleep"} => order[w] = 0
        /\ pc[w] \in Underway => order[w] # 0
        /\ pc[w] # "done" => outcome[w] = "none"
        /\ order[w] = 0 => keys[w] = << >> /\ landed[w] = 0 /\ at[w] = 1
        /\ order[w] # 0 => at[w] <= Len(keys[w])
        /\ order[w] # 0 /\ kind[w] = "write" => Len(keys[w]) = 1
        /\ landed[w] \in {at[w] - 1, at[w]}
        /\ pc[w] \in {"waiting", "pausing"} => landed[w] < at[w]

\* The writes wait in the order they were begun, and while one is in line the device
\* has nothing of those begun after it.
LineInv ==
    /\ \A w \in Writes : order[w] <= Cardinality(Begun)
    /\ \A i \in DOMAIN waiters : pc[waiters[i]] = "waiting"
    /\ \A w \in Writes : pc[w] = "waiting" => \E i \in DOMAIN waiters : waiters[i] = w
    /\ \A i, j \in DOMAIN waiters : i < j => order[waiters[i]] < order[waiters[j]]
    /\ \A v, w \in Writes :
            Live(w) /\ order[v] > order[w] => landed[v] = 0 /\ pc[v] \notin Holding

\* A result is passed on from a newer setting of the same key only.
FollowInv ==
    /\ \A k \in Keys : \A w \in Writes :
            latest[k] = w => kind[w] = "write" /\ keys[w] = <<k>> /\ k \in Settings
    /\ \A w \in Writes :
            superseded[w] => kind[w] = "write" /\ order[w] # 0 /\ followers[w] = {}
    /\ \A v, w \in Writes : v \in followers[w] => Newer(w, v)
    /\ \A w \in Writes :
            result[w] = "ok" => \E v \in Writes : Newer(v, w) /\ Service!Taken(v)

\* What the device holds for a key and the client does not know of is the value being
\* sent, or that of a write that ended without an OK.
KnownInv ==
    /\ \A w \in Writes :
            pc[w] \in Holding /\ landed[w] = at[w] => register[Key(w)] = w
    /\ \A k \in Keys :
            \/ register[k] = held[k]
            \/ \E w \in Writes :
                  /\ register[k] = w
                  /\ \/ pc[w] \in Holding /\ landed[w] = at[w] /\ Key(w) = k
                     \/ pc[w] = "done" /\ outcome[w] # "ok"

-----------------------------------------------------------------------------
(***************************************************************************)
(* What the steps of the queue have in common.                             *)
(***************************************************************************)

\* A write of `ks` is begun: it takes over the setting before it, if both are settings,
\* and gets in line or, with nobody else there, the lock.
Joins(w, kd, ks) ==
    /\ pc[w] \in {"unused", "asleep"}
    /\ ks \in Seq(Keys) \ {<< >>} /\ kd \in {"write", "sequence"} /\ (kd = "write" => Len(ks) = 1)
    /\ kind' = [kind EXCEPT ![w] = kd]
    /\ keys' = [keys EXCEPT ![w] = ks]
    /\ order' = [order EXCEPT ![w] = Cardinality(Begun) + 1]
    /\ \/ UNCHANGED <<superseded, followers, latest>>
       \/ kd = "write" /\ \E k \in Settings : ks = <<k>> /\ Supersede(w, k)
    /\ EnterLock(w)
    /\ UNCHANGED <<at, outcome, result, held, landed, register, cancelled>>

\* A write under way ends with `o`, and those in `told` with `r`.
Finishes(w, o, told, r) ==
    /\ pc[w] \in Underway /\ pc'[w] = "done"
    /\ \A v \in Writes \ {w} :
            pc'[v] = pc[v] \/ (pc[v] = "unused" /\ pc'[v] = "asleep")
    /\ o # "none" /\ (o = "ok" => landed[w] = Len(keys[w]) \/ result[w] = "ok")
    /\ Leave(w, o, told, r)
    /\ cancelled \ {w} \subseteq cancelled'
    /\ pc[w] = "waiting" => w \in cancelled
    /\ \/ /\ told = followers[w] /\ r = o
          /\ pc[w] \in Holding
          /\ r = "ok" => landed[w] = Len(keys[w])
       \/ /\ told = {} /\ pc[w] \notin Holding
    /\ \/ waiters' = waiters /\ pc[w] # "waiting"
       \/ \E i \in DOMAIN waiters : waiters[i] = w /\ waiters' = RemoveAt(waiters, i)
    /\ \/ held' = held /\ o # "ok"
       \/ held' = held /\ pc[w] \notin Holding
       \/ held' = [held EXCEPT ![Key(w)] = w] /\ pc[w] \in Holding /\ landed[w] = at[w]
    /\ UNCHANGED <<landed, register>>

\* Nothing changes but that tasks are asked to stop.
Rests ==
    /\ cancelled \subseteq cancelled'
    /\ UNCHANGED <<pc, kind, keys, order, at, sends, outcome, superseded, result, followers,
                   latest, holder, waiters, landed, register, held>>

LEMMA JoinsIs ==
    ASSUME TypeOK, NEW w \in Writes
    PROVE  /\ \A k \in Keys : Write(w, k) => Joins(w, "write", <<k>>)
           /\ \A ks \in Lists : WriteSequence(w, ks) => Joins(w, "sequence", ks)
           /\ PulseOver(w) => \E k \in Keys : Joins(w, "write", <<k>>)
<1>1. ASSUME NEW k \in Keys, Enqueue(w, k), pc[w] \in {"unused", "asleep"},
             UNCHANGED cancelled
      PROVE  Joins(w, "write", <<k>>)
  <2>1. <<k>> \in Seq(Keys) \ {<< >>} /\ Len(<<k>>) = 1
    OBVIOUS
  <2>2. UNCHANGED <<at, outcome, result, held, landed, register, cancelled>>
    BY <1>1 DEF Enqueue, deviceVars
  <2>3. \/ UNCHANGED <<superseded, followers, latest>>
        \/ \E j \in Settings : <<k>> = <<j>> /\ Supersede(w, j)
    BY <1>1 DEF Enqueue
  <2>4. /\ kind' = [kind EXCEPT ![w] = "write"]
        /\ keys' = [keys EXCEPT ![w] = <<k>>]
        /\ order' = [order EXCEPT ![w] = Cardinality(Begun) + 1]
        /\ EnterLock(w)
    BY <1>1 DEF Enqueue, Begun, Service!Begun
  <2> QED
    BY <1>1, <2>1, <2>2, <2>3, <2>4 DEF Joins
<1>2. ASSUME NEW ks \in Lists, WriteSequence(w, ks) PROVE Joins(w, "sequence", ks)
  <2>1. ks \in Seq(Keys) \ {<< >>}
    BY WriteQueueAssumption DEF WriteQueueAssumption
  <2>2. UNCHANGED <<at, outcome, result, held, landed, register, cancelled>>
    BY <1>2 DEF WriteSequence, deviceVars, futureVars
  <2>3. UNCHANGED <<superseded, followers, latest>>
    BY <1>2 DEF WriteSequence, futureVars
  <2>4. /\ kind' = [kind EXCEPT ![w] = "sequence"]
        /\ keys' = [keys EXCEPT ![w] = ks]
        /\ order' = [order EXCEPT ![w] = Cardinality(Begun) + 1]
        /\ EnterLock(w) /\ pc[w] = "unused"
    BY <1>2 DEF WriteSequence, Begun, Service!Begun
  <2> QED
    BY <2>1, <2>2, <2>3, <2>4 DEF Joins
<1>3. ASSUME NEW k \in Keys, Write(w, k) PROVE Joins(w, "write", <<k>>)
  BY <1>1, <1>3 DEF Write
<1>4. ASSUME PulseOver(w) PROVE \E k \in Keys : Joins(w, "write", <<k>>)
  BY <1>1, <1>4 DEF PulseOver
<1> QED
  BY <1>2, <1>3, <1>4

LEMMA FinishesIs ==
    ASSUME TypeOK, ProgressInv, IdleAfterCall, NEW w \in Writes
    PROVE  /\ Accepted(w) => Finishes(w, "ok", followers[w], "ok")
           /\ Refused(w) => Finishes(w, "refused", followers[w], "refused")
           /\ Raises(w) => Finishes(w, "error", followers[w], "error")
           /\ CancelledHolding(w) => Finishes(w, "cancelled", followers[w], "cancelled")
           /\ Follow(w) => Finishes(w, result[w], {}, "none")
           /\ CancelledWaiting(w) \/ CancelledFollowing(w) =>
                Finishes(w, "cancelled", {}, "none")
<1> USE DEF Underway, Holding, lockVars, deviceVars
<1>0. pc \in [Writes -> Places]
  BY DEF TypeOK
<1>1. ASSUME Accepted(w) PROVE Finishes(w, "ok", followers[w], "ok")
  <2>1. /\ pc[w] = "sending" /\ landed[w] = at[w] /\ at[w] = Len(keys[w])
        /\ pc'[w] = "done"
        /\ held' = [held EXCEPT ![Key(w)] = w]
        /\ Leave(w, "ok", followers[w], "ok")
        /\ waiters' = waiters /\ landed' = landed /\ register' = register
        /\ cancelled' = cancelled
    BY <1>1 DEF Accepted, Answerable, LeaveLock
  <2>2. ASSUME NEW v \in Writes \ {w}
        PROVE  pc'[v] = pc[v] \/ (pc[v] = "unused" /\ pc'[v] = "asleep")
    BY <1>1, <2>1 DEF Accepted, StartsPulse, IdleAfterCall
  <2> QED
    BY <2>1, <2>2 DEF Finishes
<1>2. ASSUME NEW o \in {"refused", "error", "cancelled"}, LeaveLock(w, o),
             pc[w] \in Holding, pc' = [pc EXCEPT ![w] = "done"], held' = held,
             cancelled \ {w} \subseteq cancelled'
      PROVE  Finishes(w, o, followers[w], o)
  <2>1. /\ Leave(w, o, followers[w], o)
        /\ waiters' = waiters /\ landed' = landed /\ register' = register
    BY <1>2 DEF LeaveLock
  <2> QED
    BY <1>0, <1>2, <2>1 DEF Finishes
<1>3. Refused(w) => Finishes(w, "refused", followers[w], "refused")
  BY <1>2 DEF Refused, Answerable
<1>4. Raises(w) => Finishes(w, "error", followers[w], "error")
  BY <1>2 DEF Raises, Answerable
<1>5. CancelledHolding(w) => Finishes(w, "cancelled", followers[w], "cancelled")
  BY <1>2 DEF CancelledHolding
<1>6. Follow(w) => Finishes(w, result[w], {}, "none")
  BY <1>0 DEF Follow, Finishes
<1>7. CancelledFollowing(w) => Finishes(w, "cancelled", {}, "none")
  BY <1>0 DEF CancelledFollowing, Finishes
<1>8. CancelledWaiting(w) => Finishes(w, "cancelled", {}, "none")
  BY <1>0 DEF CancelledWaiting, Finishes
<1> QED
  BY <1>1, <1>3, <1>4, <1>5, <1>6, <1>7, <1>8

\* Every step is one of these.
LEMMA StepKinds ==
    ASSUME TypeOK, ProgressInv, IdleAfterCall, [Next]_vars
    PROVE  \/ \E w \in Writes : \E kd, ks : Joins(w, kd, ks)
           \/ \E w \in Writes : \E o, told, r : Finishes(w, o, told, r)
           \/ \E w \in Writes :
                \/ Acquire(w) \/ DeviceTakes(w) \/ AcceptedNext(w) \/ Busy(w)
                \/ Resume(w) \/ CancelledAsleep(w)
           \/ Rests
<1>1. ASSUME NEW w \in Writes, Cancel(w) PROVE Rests
  BY <1>1 DEF Cancel, Rests, callVars, progressVars, futureVars, lockVars, deviceVars
<1>2. CancelPulses => Rests
  BY DEF CancelPulses, Rests, callVars, progressVars, futureVars, lockVars, deviceVars
<1>3. UNCHANGED vars => Rests
  BY DEF vars, Rests, callVars, progressVars, futureVars, lockVars, deviceVars
<1>4. ASSUME NEW w \in Writes, HostCalls(w) \/ PulseOver(w)
      PROVE  (\E kd, ks : Joins(w, kd, ks)) \/ Rests
  BY <1>1, <1>4, JoinsIs DEF HostCalls
<1>5. ASSUME NEW w \in Writes,
             \/ Accepted(w) \/ Refused(w) \/ Raises(w) \/ Follow(w)
             \/ CancelledWaiting(w) \/ CancelledHolding(w) \/ CancelledFollowing(w)
      PROVE  \E o, told, r : Finishes(w, o, told, r)
  BY <1>5, FinishesIs
<1> QED
  BY <1>2, <1>3, <1>4, <1>5 DEF Next, Answer, CancelledRaised

-----------------------------------------------------------------------------
(***************************************************************************)
(* Each part of the invariant is kept, kind of step by kind of step.       *)
(***************************************************************************)

\* What Joins() leaves as it was, and what it is for the write that joins.
LEMMA JoinsFacts ==
    ASSUME TypeOK, ProgressInv, NEW w \in Writes, NEW kd, NEW ks, Joins(w, kd, ks)
    PROVE  /\ order[w] = 0 /\ order'[w] = Cardinality(Begun) + 1
           /\ Cardinality(Begun) \in Nat
           /\ keys[w] = << >> /\ keys'[w] = ks /\ kind'[w] = kd
           /\ landed[w] = 0 /\ at[w] = 1 /\ outcome[w] = "none"
           /\ pc'[w] \in {"sending", "waiting"}
           /\ \A v \in Writes \ {w} :
                /\ pc'[v] = pc[v] /\ order'[v] = order[v]
                /\ keys'[v] = keys[v] /\ kind'[v] = kind[v]
           /\ UNCHANGED <<at, outcome, result, held, landed, register, cancelled>>
<1>1. Cardinality(Begun) \in Nat
  BY OrderType DEF Begun, Service!Begun
<1>2. /\ pc \in [Writes -> Places] /\ order \in [Writes -> Nat]
      /\ keys \in [Writes -> Seq(Keys)] /\ kind \in [Writes -> {"write", "sequence"}]
  BY DEF TypeOK
<1>3. \/ pc' = [pc EXCEPT ![w] = "sending"]
      \/ pc' = [pc EXCEPT ![w] = "waiting"]
  BY DEF Joins, EnterLock
<1>4. /\ pc[w] \in {"unused", "asleep"}
      /\ kind' = [kind EXCEPT ![w] = kd]
      /\ keys' = [keys EXCEPT ![w] = ks]
      /\ order' = [order EXCEPT ![w] = Cardinality(Begun) + 1]
      /\ UNCHANGED <<at, outcome, result, held, landed, register, cancelled>>
  BY DEF Joins
<1>5. order[w] = 0 /\ keys[w] = << >> /\ landed[w] = 0 /\ at[w] = 1 /\ outcome[w] = "none"
  BY <1>4 DEF ProgressInv
<1> QED
  BY <1>1, <1>2, <1>3, <1>4, <1>5

LEMMA FinishesFacts ==
    ASSUME TypeOK, NEW w \in Writes, NEW o, NEW told, NEW r, Finishes(w, o, told, r)
    PROVE  /\ outcome'[w] = o
           /\ \A v \in Writes \ {w} : outcome'[v] = outcome[v]
           /\ UNCHANGED <<superseded, followers, kind, keys, order, at, sends,
                          landed, register>>
BY DEF Finishes, Leave, callVars, TypeOK

LEMMA StepProgress ==
    ASSUME TypeOK, ProgressInv, IdleAfterCall, [Next]_vars
    PROVE  ProgressInv'
<1> USE DEF Underway
<1>0. /\ pc \in [Writes -> Places] /\ at \in [Writes -> Nat \ {0}]
      /\ landed \in [Writes -> Nat] /\ order \in [Writes -> Nat]
      /\ keys \in [Writes -> Seq(Keys)] /\ kind \in [Writes -> {"write", "sequence"}]
      /\ outcome \in [Writes -> Results]
  BY DEF TypeOK
<1>1. ASSUME NEW w \in Writes, NEW kd, NEW ks, Joins(w, kd, ks) PROVE ProgressInv'
  <2>1. ks # << >> /\ ks \in Seq(Keys) /\ (kd = "write" => Len(ks) = 1)
    BY <1>1 DEF Joins
  <2>2. Len(ks) \in Nat \ {0}
    BY <2>1
  <2> QED
    BY <1>0, <1>1, <2>1, <2>2, JoinsFacts DEF ProgressInv
<1>2. ASSUME NEW w \in Writes, NEW o, NEW told, NEW r, Finishes(w, o, told, r)
      PROVE  ProgressInv'
  <2>1. /\ pc'[w] = "done" /\ pc[w] \in Underway
        /\ \A v \in Writes \ {w} : pc'[v] = pc[v] \/ (pc[v] = "unused" /\ pc'[v] = "asleep")
    BY <1>2 DEF Finishes
  <2> QED
    BY <1>0, <1>2, <2>1, FinishesFacts DEF ProgressInv
<1>3. ASSUME NEW w \in Writes, Acquire(w) \/ Resume(w) PROVE ProgressInv'
  <2>1. /\ pc[w] \in {"waiting", "pausing"}
        /\ pc' = [pc EXCEPT ![w] = "following"] \/ pc' = [pc EXCEPT ![w] = "sending"]
        /\ UNCHANGED <<outcome, kind, keys, order, at, landed>>
    BY <1>3 DEF Acquire, Resume, callVars, deviceVars
  <2> QED
    BY <1>0, <2>1 DEF ProgressInv
<1>4. ASSUME NEW w \in Writes, DeviceTakes(w) PROVE ProgressInv'
  <2>1. /\ pc[w] = "sending" /\ landed[w] < at[w]
        /\ landed' = [landed EXCEPT ![w] = at[w]]
        /\ UNCHANGED <<pc, outcome, kind, keys, order, at>>
    BY <1>4 DEF DeviceTakes, callVars, progressVars
  <2> QED
    BY <1>0, <2>1 DEF ProgressInv
<1>5. ASSUME NEW w \in Writes, AcceptedNext(w) PROVE ProgressInv'
  <2>1. /\ pc[w] = "sending" /\ landed[w] = at[w] /\ at[w] < Len(keys[w])
        /\ at' = [at EXCEPT ![w] = at[w] + 1]
        /\ UNCHANGED <<pc, outcome, kind, keys, order, landed>>
    BY <1>5 DEF AcceptedNext, Answerable, callVars, deviceVars
  <2>2. Len(keys[w]) \in Nat /\ order[w] # 0
    BY <1>0, <2>1 DEF ProgressInv
  <2> QED
    BY <1>0, <2>1, <2>2 DEF ProgressInv
<1>6. ASSUME NEW w \in Writes, Busy(w) PROVE ProgressInv'
  <2>1. /\ pc[w] = "sending" /\ landed[w] < at[w]
        /\ pc' = [pc EXCEPT ![w] = "pausing"]
        /\ UNCHANGED <<outcome, kind, keys, order, at, landed>>
    BY <1>6 DEF Busy, Answerable, callVars, progressVars, deviceVars
  <2> QED
    BY <1>0, <2>1 DEF ProgressInv
<1>7. ASSUME NEW w \in Writes, CancelledAsleep(w) PROVE ProgressInv'
  <2>1. /\ pc[w] = "asleep" /\ pc' = [pc EXCEPT ![w] = "done"]
        /\ outcome' = [outcome EXCEPT ![w] = "cancelled"]
        /\ UNCHANGED <<kind, keys, order, at, landed>>
    BY <1>7 DEF CancelledAsleep, callVars, progressVars, deviceVars
  <2> QED
    BY <1>0, <2>1 DEF ProgressInv
<1>8. Rests => ProgressInv'
  BY DEF Rests, ProgressInv
<1> QED
  BY <1>1, <1>2, <1>3, <1>4, <1>5, <1>6, <1>7, <1>8, StepKinds

\* What is left of the line when one goes is in the same order.
LEMMA RemovedFrom ==
    ASSUME NEW s \in Seq(Writes), NEW i \in DOMAIN s, NEW t, t = RemoveAt(s, i)
    PROVE  /\ Len(t) = Len(s) - 1 /\ DOMAIN t = 1 .. Len(t) /\ DOMAIN s = 1 .. Len(s)
           /\ \A j \in DOMAIN t : t[j] = IF j < i THEN s[j] ELSE s[j + 1]
<1> DEFINE a == SubSeq(s, 1, i - 1)
           b == SubSeq(s, i + 1, Len(s))
<1>1. /\ Len(s) \in Nat /\ DOMAIN s = 1 .. Len(s) /\ i \in 1 .. Len(s)
  OBVIOUS
<1>2. /\ a \in Seq(Writes) /\ Len(a) = i - 1
      /\ \A j \in 1 .. i - 1 : a[j] = s[j]
  BY <1>1
<1>3. /\ b \in Seq(Writes) /\ Len(b) = Len(s) - i
      /\ \A j \in 1 .. Len(s) - i : b[j] = s[i + j]
  BY <1>1
<1>4. t = a \o b
  BY DEF RemoveAt
<1> HIDE DEF a, b
<1>5. /\ t \in Seq(Writes) /\ Len(t) = Len(s) - 1
      /\ \A j \in 1 .. Len(s) - 1 : t[j] = IF j <= Len(a) THEN a[j] ELSE b[j - Len(a)]
  <2>1. /\ t \in Seq(Writes) /\ Len(t) = Len(a) + Len(b)
        /\ \A j \in 1 .. Len(a) + Len(b) :
                t[j] = IF j <= Len(a) THEN a[j] ELSE b[j - Len(a)]
    <3>1. a \in Seq(Writes) /\ b \in Seq(Writes)
      BY <1>2, <1>3
    <3>2. /\ a \o b \in Seq(Writes) /\ Len(a \o b) = Len(a) + Len(b)
          /\ \A j \in 1 .. Len(a) + Len(b) :
                (a \o b)[j] = IF j <= Len(a) THEN a[j] ELSE b[j - Len(a)]
      BY <3>1, ConcatProperties, Zenon
    <3> QED
      BY <1>4, <3>2, Zenon
  <2>2. Len(a) + Len(b) = Len(s) - 1
    BY <1>1, <1>2, <1>3
  <2> QED
    BY <2>1, <2>2
<1>6. DOMAIN t = 1 .. Len(s) - 1
  BY <1>5
<1>7. ASSUME NEW j \in 1 .. Len(s) - 1
      PROVE  t[j] = IF j < i THEN s[j] ELSE s[j + 1]
  <2>1. CASE j < i
    BY <1>1, <1>2, <1>5, <2>1
  <2>2. CASE ~(j < i)
    <3>1. j - (i - 1) \in 1 .. Len(s) - i /\ i + (j - (i - 1)) = j + 1
      BY <1>1, <2>2
    <3>2. t[j] = b[j - (i - 1)]
      BY <1>1, <1>2, <1>5, <2>2
    <3> QED
      BY <1>3, <2>2, <3>1, <3>2
  <2> QED
    BY <2>1, <2>2
<1> QED
  BY <1>1, <1>5, <1>6, <1>7

LEMMA TailIsRemoval ==
    ASSUME NEW s \in Seq(Writes), s # << >>
    PROVE  Tail(s) = RemoveAt(s, 1) /\ 1 \in DOMAIN s /\ Head(s) = s[1]
BY DEF RemoveAt

\* One that goes takes nobody's place, and nobody gets in line.
LEMMA LineShortens ==
    ASSUME TypeOK, LineInv, NEW w \in Writes, NEW i \in DOMAIN waiters,
           waiters[i] = w, waiters' = RemoveAt(waiters, i),
           pc'[w] # "waiting", order' = order,
           \A v \in Writes \ {w} : pc'[v] = "waiting" <=> pc[v] = "waiting"
    PROVE  /\ \A j \in DOMAIN waiters' : pc'[waiters'[j]] = "waiting"
           /\ \A v \in Writes : pc'[v] = "waiting" => \E j \in DOMAIN waiters' : waiters'[j] = v
           /\ \A j, k \in DOMAIN waiters' :
                j < k => order'[waiters'[j]] < order'[waiters'[k]]
<1>0. waiters \in Seq(Writes) /\ order \in [Writes -> Nat]
  BY DEF TypeOK
<1>1. /\ Len(waiters') = Len(waiters) - 1
      /\ DOMAIN waiters' = 1 .. Len(waiters') /\ DOMAIN waiters = 1 .. Len(waiters)
      /\ Len(waiters) \in Nat
      /\ \A j \in DOMAIN waiters' :
            waiters'[j] = IF j < i THEN waiters[j] ELSE waiters[j + 1]
  BY <1>0, RemovedFrom
<1>2. \A j, k \in DOMAIN waiters : j < k => order[waiters[j]] < order[waiters[k]]
  BY DEF LineInv
<1>3. \A j \in DOMAIN waiters : waiters[j] \in Writes
  BY <1>0
<1>4. ASSUME NEW j \in DOMAIN waiters, j # i PROVE waiters[j] # w
  <2>1. order[waiters[j]] \in Nat /\ order[waiters[i]] \in Nat
    BY <1>0, <1>3
  <2>2. j < i \/ i < j
    BY <1>1, <1>4
  <2> QED
    BY <1>2, <2>1, <2>2
<1>5. ASSUME NEW j \in DOMAIN waiters'
      PROVE  \E k \in DOMAIN waiters : k # i /\ waiters'[j] = waiters[k]
  <2>1. CASE j < i
    BY <1>1, <2>1
  <2>2. CASE ~ (j < i)
    <3>1. j + 1 \in DOMAIN waiters /\ j + 1 # i /\ waiters'[j] = waiters[j + 1]
      BY <1>1, <2>2
    <3> QED
      BY <3>1
  <2> QED
    BY <2>1, <2>2
<1>6. \A j \in DOMAIN waiters' : pc'[waiters'[j]] = "waiting"
  BY <1>3, <1>4, <1>5 DEF LineInv
<1>7. ASSUME NEW v \in Writes, pc'[v] = "waiting"
      PROVE  \E j \in DOMAIN waiters' : waiters'[j] = v
  <2>1. v # w /\ pc[v] = "waiting"
    BY <1>7
  <2>2. PICK k \in DOMAIN waiters : waiters[k] = v
    BY <2>1 DEF LineInv
  <2>3. k # i
    BY <2>1, <2>2
  <2>4. CASE k < i
    BY <1>1, <2>2, <2>4
  <2>5. CASE k > i
    <3>1. k - 1 \in DOMAIN waiters' /\ ~(k - 1 < i) /\ (k - 1) + 1 = k
      BY <1>1, <2>5
    <3> QED
      BY <1>1, <2>2, <3>1
  <2> QED
    BY <1>1, <2>3, <2>4, <2>5
<1>8. \A j, k \in DOMAIN waiters' : j < k => order[waiters'[j]] < order[waiters'[k]]
  BY <1>1, <1>2
<1> QED
  BY <1>6, <1>7, <1>8

LEMMA JoinsLine ==
    ASSUME TypeOK, ProgressInv, LineInv, NEW w \in Writes, NEW kd, NEW ks, Joins(w, kd, ks),
           OneAtATime
    PROVE  LineInv'
<1> DEFINE n == Cardinality(Begun)
<1>0. /\ pc \in [Writes -> Places] /\ order \in [Writes -> Nat] /\ waiters \in Seq(Writes)
      /\ n \in Nat
  BY JoinsFacts DEF TypeOK
<1>1. Cardinality(Begun)' = n + 1
  <2>1. order' = [order EXCEPT ![w] = n + 1] /\ order[w] = 0
    BY JoinsFacts DEF Joins
  <2> HIDE DEF n
  <2>2. Begun' = Begun \union {w} /\ w \notin Begun
    BY <1>0, <2>1 DEF Begun, Service!Begun
  <2>3. IsFiniteSet(Begun)
    BY WritesFinite, FS_Subset DEF Begun, Service!Begun
  <2> QED
    BY <2>2, <2>3, FS_AddElement DEF n
<1>2. \A v \in Writes : order[v] <= n
  BY DEF LineInv
<1>3. order'[w] = n + 1 /\ \A v \in Writes \ {w} : order'[v] = order[v] /\ pc'[v] = pc[v]
  BY JoinsFacts
<1> HIDE DEF n
<1>4. \A v \in Writes : order'[v] <= Cardinality(Begun)'
  BY <1>0, <1>1, <1>2, <1>3
<1>5. /\ \A i \in DOMAIN waiters : waiters[i] \in Writes \ {w}
      /\ \A i \in DOMAIN waiters : pc[waiters[i]] = "waiting"
  BY <1>0 DEF LineInv, Joins
<1>6. \A v \in Writes : v # w /\ order'[v] > order'[w] => FALSE
  BY <1>0, <1>2, <1>3
<1>7. pc[w] \notin Holding /\ pc[w] # "waiting" /\ landed'[w] = 0 /\ landed' = landed
      /\ cancelled' = cancelled
  BY JoinsFacts DEF Joins, Holding
<1>8. CASE /\ holder = NoWrite /\ \A i \in DOMAIN waiters : waiters[i] \in cancelled
           /\ pc' = [pc EXCEPT ![w] = "sending"] /\ waiters' = waiters
  <2>1. \A v \in Writes : ~Live(v)
    <3>1. \A v \in Writes : pc[v] \notin Holding
      BY <1>8, WriteQueueAssumption DEF OneAtATime, WriteQueueAssumption
    <3> QED
      BY <1>8, <3>1 DEF Live, LineInv
  <2>2. \A v \in Writes : Live(v)' => v = w
    BY <1>3, <1>7, <2>1 DEF Live
  <2>3. \A v, u \in Writes : Live(u)' /\ order'[v] > order'[u] => FALSE
    BY <1>0, <1>2, <1>3, <2>2
  <2> QED
    BY <1>0, <1>3, <1>4, <1>5, <1>8, <2>3 DEF LineInv
<1>9. CASE /\ pc' = [pc EXCEPT ![w] = "waiting"] /\ waiters' = Append(waiters, w)
  <2>1. /\ Len(waiters') = Len(waiters) + 1 /\ Len(waiters) \in Nat
        /\ DOMAIN waiters' = 1 .. Len(waiters') /\ DOMAIN waiters = 1 .. Len(waiters)
        /\ waiters'[Len(waiters')] = w
        /\ \A i \in DOMAIN waiters : waiters'[i] = waiters[i]
    BY <1>0, <1>9
  <2>2. /\ \A i \in DOMAIN waiters' : pc'[waiters'[i]] = "waiting"
        /\ \A v \in Writes : pc'[v] = "waiting" => \E i \in DOMAIN waiters' : waiters'[i] = v
    <3>1. \A i \in DOMAIN waiters' : i \in DOMAIN waiters \/ i = Len(waiters')
      BY <2>1
    <3>2. Len(waiters') \in DOMAIN waiters' /\ DOMAIN waiters \subseteq DOMAIN waiters'
      BY <2>1
    <3>3. \A v \in Writes : pc[v] = "waiting" => \E i \in DOMAIN waiters : waiters[i] = v
      BY DEF LineInv
    <3> QED
      BY <1>0, <1>3, <1>5, <1>9, <2>1, <3>1, <3>2, <3>3
  <2>3. \A i, j \in DOMAIN waiters' : i < j => order'[waiters'[i]] < order'[waiters'[j]]
    <3>1. \A i, j \in DOMAIN waiters : i < j => order[waiters[i]] < order[waiters[j]]
      BY DEF LineInv
    <3>2. \A i \in DOMAIN waiters : order'[waiters'[i]] = order[waiters[i]]
                                    /\ order[waiters[i]] <= n /\ order[waiters[i]] \in Nat
      BY <1>0, <1>2, <1>3, <1>5, <2>1
    <3>3. ASSUME NEW i \in DOMAIN waiters', NEW j \in DOMAIN waiters', i < j
          PROVE  order'[waiters'[i]] < order'[waiters'[j]]
      <4>1. i \in DOMAIN waiters
        BY <2>1, <3>3
      <4>2. CASE j \in DOMAIN waiters
        BY <3>1, <3>2, <3>3, <4>1, <4>2
      <4>3. CASE j = Len(waiters')
        BY <1>0, <1>3, <2>1, <3>2, <4>1, <4>3
      <4> QED
        BY <2>1, <3>3, <4>2, <4>3
    <3> QED
      BY <3>3
  <2>4. ASSUME NEW v \in Writes, NEW u \in Writes, Live(u)', order'[v] > order'[u]
        PROVE  landed'[v] = 0 /\ pc'[v] \notin Holding
    <3>1. u # w
      BY <1>6, <2>4, <1>0, <1>3
    <3>2. Live(u)
      BY <1>3, <1>7, <2>4, <3>1 DEF Live
    <3>3. CASE v = w
      BY <1>0, <1>7, <1>9, <3>3 DEF Holding
    <3>4. CASE v # w
      BY <1>3, <1>7, <2>4, <3>1, <3>2, <3>4 DEF LineInv
    <3> QED
      BY <3>3, <3>4
  <2> QED
    BY <1>4, <2>2, <2>3, <2>4 DEF LineInv
<1> QED
  BY <1>8, <1>9 DEF Joins, EnterLock

\* The line stays as it is while nobody who was not gets to be in line.
LEMMA LineStays ==
    ASSUME TypeOK, LineInv, order' = order, waiters' = waiters, landed' = landed,
           cancelled \intersect {v \in Writes : pc[v] = "waiting"} \subseteq cancelled',
           \A v \in Writes : pc'[v] = "waiting" <=> pc[v] = "waiting",
           \A v \in Writes : pc'[v] \in Holding => pc[v] \in Holding
    PROVE  LineInv'
<1>1. \A v \in Writes : Live(v)' => Live(v)
  BY DEF Live
<1>2. Begun' = Begun
  BY DEF Begun, Service!Begun
<1>3. \A i \in DOMAIN waiters : waiters[i] \in Writes
  BY DEF TypeOK
<1> QED
  BY <1>1, <1>2, <1>3 DEF LineInv

LEMMA StepLine ==
    ASSUME TypeOK, ProgressInv, LineInv, OneAtATime, IdleAfterCall, [Next]_vars
    PROVE  LineInv'
<1> USE DEF Holding, Underway
<1>0. /\ pc \in [Writes -> Places] /\ order \in [Writes -> Nat]
      /\ landed \in [Writes -> Nat] /\ waiters \in Seq(Writes)
      /\ NoWrite \notin Writes
  BY WriteQueueAssumption DEF TypeOK, WriteQueueAssumption
<1>1. ASSUME NEW w \in Writes, NEW kd, NEW ks, Joins(w, kd, ks) PROVE LineInv'
  BY <1>1, JoinsLine
<1>2. ASSUME NEW w \in Writes, NEW o, NEW told, NEW r, Finishes(w, o, told, r)
      PROVE  LineInv'
  <2>1. /\ pc'[w] = "done" /\ pc[w] \in Underway
        /\ \A v \in Writes \ {w} :
                pc'[v] = pc[v] \/ (pc[v] = "unused" /\ pc'[v] = "asleep")
        /\ cancelled \ {w} \subseteq cancelled'
        /\ order' = order /\ landed' = landed
    BY <1>2, FinishesFacts DEF Finishes
  <2>2. /\ \A v \in Writes \ {w} : pc'[v] = "waiting" <=> pc[v] = "waiting"
        /\ \A v \in Writes : pc'[v] \in Holding => pc[v] \in Holding
    BY <2>1
  <2>3. CASE waiters' = waiters /\ pc[w] # "waiting"
    <3>1. \A v \in Writes : pc'[v] = "waiting" <=> pc[v] = "waiting"
      BY <2>1, <2>2, <2>3
    <3>2. cancelled \intersect {v \in Writes : pc[v] = "waiting"} \subseteq cancelled'
      BY <2>1, <2>3
    <3> QED
      BY <2>1, <2>2, <2>3, <3>1, <3>2, LineStays
  <2>4. CASE \E i \in DOMAIN waiters : waiters[i] = w /\ waiters' = RemoveAt(waiters, i)
    <3>1. /\ \A j \in DOMAIN waiters' : pc'[waiters'[j]] = "waiting"
          /\ \A v \in Writes :
                pc'[v] = "waiting" => \E j \in DOMAIN waiters' : waiters'[j] = v
          /\ \A j, k \in DOMAIN waiters' :
                j < k => order'[waiters'[j]] < order'[waiters'[k]]
      BY <2>1, <2>2, <2>4, LineShortens
    <3>2. \A v \in Writes : Live(v)' => Live(v)
      BY <2>1, <2>2 DEF Live
    <3>3. Begun' = Begun
      BY <2>1 DEF Begun, Service!Begun
    <3> QED
      BY <2>1, <2>2, <3>1, <3>2, <3>3 DEF LineInv
  <2> QED
    BY <1>2, <2>3, <2>4 DEF Finishes
<1>3. ASSUME NEW w \in Writes, Acquire(w) PROVE LineInv'
  <2>1. /\ pc[w] = "waiting" /\ w \notin cancelled /\ holder = NoWrite
        /\ waiters # << >> /\ Head(waiters) = w /\ waiters' = Tail(waiters)
        /\ pc' = [pc EXCEPT ![w] = "following"] \/ pc' = [pc EXCEPT ![w] = "sending"]
        /\ order' = order /\ landed' = landed /\ cancelled' = cancelled
    BY <1>3 DEF Acquire, callVars, deviceVars
  <2>2. 1 \in DOMAIN waiters /\ waiters[1] = w /\ waiters' = RemoveAt(waiters, 1)
    BY <1>0, <2>1, TailIsRemoval
  <2>3. /\ \A v \in Writes \ {w} : pc'[v] = pc[v]
        /\ pc'[w] \in {"following", "sending"}
    BY <1>0, <2>1
  <2>4. /\ \A j \in DOMAIN waiters' : pc'[waiters'[j]] = "waiting"
        /\ \A v \in Writes :
              pc'[v] = "waiting" => \E j \in DOMAIN waiters' : waiters'[j] = v
        /\ \A j, k \in DOMAIN waiters' :
              j < k => order'[waiters'[j]] < order'[waiters'[k]]
    BY <2>1, <2>2, <2>3, LineShortens
  <2>5. \A v \in Writes : Live(v)' => Live(v)
    BY <2>1, <2>3 DEF Live
  <2>6. ASSUME NEW u \in Writes, Live(u)', order[w] > order[u] PROVE FALSE
    <3>1. u # w /\ Live(u) /\ pc[u] \notin Holding
      BY <1>0, <2>1, <2>5, <2>6 DEF OneAtATime
    <3>2. PICK i \in DOMAIN waiters : waiters[i] = u
      BY <3>1 DEF LineInv, Live
    <3>3. i > 1
      BY <1>0, <2>2, <3>1, <3>2
    <3> QED
      BY <1>0, <2>2, <2>6, <3>2, <3>3 DEF LineInv
  <2>7. \A v, u \in Writes :
            Live(u)' /\ order[v] > order[u] => landed[v] = 0 /\ pc'[v] \notin Holding
    BY <2>3, <2>5, <2>6 DEF LineInv
  <2>8. Begun' = Begun
    BY <2>1 DEF Begun, Service!Begun
  <2> QED
    BY <2>1, <2>4, <2>7, <2>8 DEF LineInv
<1>4. ASSUME NEW w \in Writes, DeviceTakes(w) PROVE LineInv'
  <2>1. /\ pc[w] = "sending" /\ landed' = [landed EXCEPT ![w] = at[w]]
        /\ UNCHANGED <<pc, order, cancelled, waiters>>
    BY <1>4 DEF DeviceTakes, callVars, lockVars
  <2>2. /\ Begun' = Begun
        /\ \A v \in Writes : Live(v)' <=> Live(v)
    BY <2>1 DEF Begun, Service!Begun, Live
  <2>3. \A u \in Writes : Live(u) => ~(order[w] > order[u])
    BY <2>1 DEF LineInv
  <2> QED
    BY <1>0, <2>1, <2>2, <2>3 DEF LineInv
<1>5. ASSUME NEW w \in Writes,
             AcceptedNext(w) \/ Busy(w) \/ Resume(w) \/ CancelledAsleep(w)
      PROVE  LineInv'
  <2>1. /\ order' = order /\ landed' = landed /\ waiters' = waiters
        /\ \/ pc' = pc
           \/ pc[w] \in Holding /\ pc'= [pc EXCEPT ![w] = "pausing"]
           \/ pc[w] \in Holding /\ pc'= [pc EXCEPT ![w] = "sending"]
           \/ pc[w] \in Holding /\ pc'= [pc EXCEPT ![w] = "following"]
           \/ pc[w] = "asleep" /\ pc' = [pc EXCEPT ![w] = "done"]
        /\ \/ cancelled' = cancelled
           \/ pc[w] = "asleep" /\ cancelled' = cancelled \ {w}
    BY <1>5 DEF AcceptedNext, Busy, Resume, CancelledAsleep, Answerable, callVars,
                progressVars, lockVars, deviceVars
  <2>2. /\ \A v \in Writes : pc'[v] = "waiting" <=> pc[v] = "waiting"
        /\ \A v \in Writes : pc'[v] \in Holding => pc[v] \in Holding
        /\ cancelled \intersect {v \in Writes : pc[v] = "waiting"} \subseteq cancelled'
    BY <1>0, <2>1
  <2> QED
    BY <2>1, <2>2, LineStays
<1>6. Rests => LineInv'
  BY LineStays DEF Rests
<1> QED
  BY <1>1, <1>2, <1>3, <1>4, <1>5, <1>6, StepKinds

\* A newer write to the key of `w` may stand in for it.
Setting(w) == keys[w] # << >> /\ IsSetting(w)

LEMMA NewerIs ==
    ASSUME NEW v \in Writes, NEW w \in Writes
    PROVE  /\ Newer(v, w) <=>
                Setting(v) /\ Setting(w) /\ keys[v] = keys[w] /\ order[v] > order[w]
           /\ Newer(v, w)' <=>
                Setting(v)' /\ Setting(w)' /\ keys'[v] = keys'[w] /\ order'[v] > order'[w]
BY DEF Newer, Service!Newer, Setting

LEMMA TakenIs ==
    ASSUME NEW w
    PROVE  /\ Service!Taken(w) <=> landed[w] = Len(keys[w])
           /\ Service!Taken(w)' <=> landed'[w] = Len(keys'[w])
BY DEF Service!Taken

\* What a step leaves of every write that is begun already.
Keeps ==
    \A w \in Writes : order[w] # 0 =>
        /\ order'[w] = order[w] /\ keys'[w] = keys[w] /\ kind'[w] = kind[w]
        /\ at'[w] = at[w] \/ kind[w] = "sequence"
        /\ landed[w] = Len(keys[w]) => landed'[w] = landed[w]

LEMMA StepKeeps ==
    ASSUME TypeOK, ProgressInv, IdleAfterCall, [Next]_vars
    PROVE  Keeps
<1>0. /\ at \in [Writes -> Nat \ {0}] /\ landed \in [Writes -> Nat]
      /\ kind \in [Writes -> {"write", "sequence"}] /\ keys \in [Writes -> Seq(Keys)]
      /\ order \in [Writes -> Nat]
  BY DEF TypeOK
<1>1. ASSUME NEW w \in Writes, NEW kd, NEW ks, Joins(w, kd, ks) PROVE Keeps
  BY <1>1, JoinsFacts DEF Keeps
<1>2. ASSUME NEW w \in Writes, NEW o, NEW told, NEW r, Finishes(w, o, told, r) PROVE Keeps
  BY <1>2, FinishesFacts DEF Keeps
<1>3. ASSUME NEW w \in Writes, DeviceTakes(w) PROVE Keeps
  <2>1. /\ landed[w] < at[w] /\ landed' = [landed EXCEPT ![w] = at[w]]
        /\ UNCHANGED <<order, keys, kind, at>>
    BY <1>3 DEF DeviceTakes, callVars, progressVars
  <2>2. order[w] # 0 => landed[w] # Len(keys[w])
    <3>1. Len(keys[w]) \in Nat
      BY <1>0
    <3> QED
      BY <1>0, <2>1, <3>1 DEF ProgressInv
  <2> QED
    BY <1>0, <2>1, <2>2 DEF Keeps
<1>4. ASSUME NEW w \in Writes, AcceptedNext(w) PROVE Keeps
  <2>1. /\ at[w] < Len(keys[w]) /\ at' = [at EXCEPT ![w] = at[w] + 1]
        /\ UNCHANGED <<order, keys, kind, landed>>
    BY <1>4 DEF AcceptedNext, callVars, deviceVars
  <2>2. order[w] # 0 => kind[w] = "sequence"
    <3>1. at[w] \in Nat \ {0}
      BY <1>0
    <3>2. order[w] # 0 /\ kind[w] = "write" => Len(keys[w]) = 1
      BY DEF ProgressInv
    <3>3. kind[w] \in {"write", "sequence"}
      BY <1>0
    <3>4. ~(Len(keys[w]) <= 1)
      BY <2>1, <3>1
    <3> QED
      BY <3>2, <3>3, <3>4
  <2> QED
    BY <1>0, <2>1, <2>2 DEF Keeps
<1>5. ASSUME NEW w \in Writes, Acquire(w) \/ Busy(w) \/ Resume(w) \/ CancelledAsleep(w)
      PROVE  Keeps
  BY <1>5 DEF Acquire, Busy, Resume, CancelledAsleep, callVars, progressVars, deviceVars, Keeps
<1>6. Rests => Keeps
  BY DEF Rests, Keeps
<1> QED
  BY <1>1, <1>2, <1>3, <1>4, <1>5, <1>6, StepKinds

\* A newer setting stays one, and what it has brought to the device stays there.
LEMMA NewerStays ==
    ASSUME TypeOK, ProgressInv, Keeps, NEW v \in Writes, NEW w \in Writes, Newer(v, w)
    PROVE  Newer(v, w)' /\ (Service!Taken(v) => Service!Taken(v)')
<1>1. order[v] # 0 /\ order[w] # 0
  BY NewerIs DEF Setting, ProgressInv
<1>2. kind[v] = "write" /\ kind[w] = "write"
  BY NewerIs DEF Setting, IsSetting
<1>3. /\ order'[v] = order[v] /\ keys'[v] = keys[v] /\ kind'[v] = kind[v] /\ at'[v] = at[v]
      /\ order'[w] = order[w] /\ keys'[w] = keys[w] /\ kind'[w] = kind[w] /\ at'[w] = at[w]
      /\ landed[v] = Len(keys[v]) => landed'[v] = landed[v]
  BY <1>1, <1>2 DEF Keeps
<1>4. (Setting(v)' <=> Setting(v)) /\ (Setting(w)' <=> Setting(w))
  BY <1>3 DEF Setting, IsSetting, Key
<1> QED
  BY <1>3, <1>4, NewerIs, TakenIs

LEMMA SupersedeFollow ==
    ASSUME TypeOK, ProgressInv, LineInv, FollowInv, Keeps, NEW w \in Writes, NEW ks,
           Joins(w, "write", ks), NEW k \in Settings, ks = <<k>>, Supersede(w, k)
    PROVE  FollowInv'
<1> DEFINE earlier == {v \in Writes : latest[k] = v /\ ~superseded[v]}
<1>0. /\ k \in Keys /\ latest \in [Keys -> Writes \union {NoWrite}]
      /\ superseded \in [Writes -> BOOLEAN] /\ followers \in [Writes -> SUBSET Writes]
      /\ order \in [Writes -> Nat]
  BY WriteQueueAssumption DEF TypeOK, WriteQueueAssumption
<1>1. /\ latest' = [latest EXCEPT ![k] = w]
      /\ superseded' = [v \in Writes |-> superseded[v] \/ v \in earlier]
      /\ followers' = [v \in Writes |->
                          IF v = w THEN earlier \union UNION {followers[e] : e \in earlier}
                          ELSE IF v \in earlier THEN {} ELSE followers[v]]
  BY DEF Supersede
<1>2. /\ order[w] = 0 /\ keys[w] = << >> /\ keys'[w] = <<k>> /\ kind'[w] = "write"
      /\ order'[w] = Cardinality(Begun) + 1 /\ Cardinality(Begun) \in Nat
      /\ at'[w] = 1 /\ result' = result
      /\ \A v \in Writes \ {w} :
            order'[v] = order[v] /\ keys'[v] = keys[v] /\ kind'[v] = kind[v]
  BY JoinsFacts
<1>3. Setting(w)' /\ \A v \in Writes \ {w} : order'[w] > order'[v]
  BY <1>0, <1>2 DEF Setting, IsSetting, Key, LineInv
<1>4. ASSUME NEW v \in earlier
      PROVE  /\ v \in Writes \ {w} /\ kind[v] = "write" /\ keys[v] = <<k>> /\ order[v] # 0
             /\ Newer(w, v)'
  <2>1. v \in Writes /\ kind[v] = "write" /\ keys[v] = <<k>>
    BY <1>0 DEF FollowInv
  <2>2. v # w /\ order[v] # 0
    <3>1. <<k>> # << >>
      OBVIOUS
    <3> QED
      BY <1>2, <2>1, <3>1 DEF ProgressInv
  <2>3. at'[v] = 1 /\ keys'[v] = <<k>> /\ kind'[v] = "write"
    <3>1. Len(<<k>>) = 1 /\ at[v] \in Nat \ {0}
      BY <2>1 DEF TypeOK
    <3>2. at[v] <= Len(keys[v])
      BY <2>1, <2>2 DEF ProgressInv
    <3>3. at[v] = 1
      BY <2>1, <3>1, <3>2
    <3> QED
      BY <1>2, <2>1, <2>2, <3>3, JoinsFacts
  <2>4. Setting(v)'
    BY <2>3 DEF Setting, IsSetting, Key
  <2> QED
    BY <1>2, <1>3, <2>1, <2>2, <2>3, <2>4, NewerIs
<1>5. ASSUME NEW e \in earlier, NEW v \in followers[e] PROVE v \in Writes /\ Newer(w, v)'
  <2>1. v \in Writes /\ Newer(e, v)
    BY <1>0, <1>4 DEF FollowInv
  <2>2. Newer(e, v)' /\ Newer(w, e)'
    BY <1>4, <2>1, NewerStays
  <2>3. v # w
    BY <1>2, <2>1, NewerIs, <1>4 DEF Setting
  <2> QED
    BY <1>3, <1>4, <2>1, <2>2, <2>3, NewerIs
<1> HIDE DEF earlier
<1>6. \A j \in Keys : \A v \in Writes :
            latest'[j] = v => kind'[v] = "write" /\ keys'[v] = <<j>> /\ j \in Settings
  <2> SUFFICES ASSUME NEW j \in Keys, NEW v \in Writes, latest'[j] = v
               PROVE  kind'[v] = "write" /\ keys'[v] = <<j>> /\ j \in Settings
    OBVIOUS
  <2>1. CASE j = k
    BY <1>0, <1>1, <1>2, <2>1
  <2>2. CASE j # k
    <3>1. kind[v] = "write" /\ keys[v] = <<j>> /\ j \in Settings
      BY <1>0, <1>1, <2>2 DEF FollowInv
    <3> QED
      BY <1>2, <3>1
  <2> QED
    BY <2>1, <2>2
<1>7. ASSUME NEW v \in Writes, superseded'[v]
      PROVE  kind'[v] = "write" /\ order'[v] # 0 /\ followers'[v] = {}
  <2>1. CASE v \in earlier
    BY <1>1, <1>2, <1>4, <2>1
  <2>2. CASE v \notin earlier
    <3>1. superseded[v]
      BY <1>1, <1>7, <2>2
    <3>2. kind[v] = "write" /\ order[v] # 0 /\ followers[v] = {}
      BY <3>1 DEF FollowInv
    <3> QED
      BY <1>1, <1>2, <2>2, <3>2
  <2> QED
    BY <2>1, <2>2
<1>8. ASSUME NEW u \in Writes, NEW v \in Writes, v \in followers'[u] PROVE Newer(u, v)'
  <2>1. CASE u = w
    BY <1>1, <1>4, <1>5, <1>8, <2>1
  <2>2. CASE u # w
    <3>1. v \in followers[u]
      BY <1>1, <1>8, <2>2
    <3>2. Newer(u, v)
      BY <3>1 DEF FollowInv
    <3> QED
      BY <3>2, NewerStays
  <2> QED
    BY <2>1, <2>2
<1>9. ASSUME NEW v \in Writes, result'[v] = "ok"
      PROVE  \E u \in Writes : Newer(u, v)' /\ Service!Taken(u)'
  BY <1>2, <1>9, NewerStays DEF FollowInv
<1> QED
  BY <1>6, <1>7, <1>8, <1>9 DEF FollowInv

\* Nobody's future is touched, and no setting is overtaken.
LEMMA FollowStays ==
    ASSUME TypeOK, ProgressInv, FollowInv, Keeps,
           UNCHANGED <<superseded, followers>>,
           \A k \in Keys : latest'[k] \in Writes => latest'[k] = latest[k],
           \A v \in Writes : result'[v] = "ok" =>
                \/ result[v] = "ok"
                \/ \E u \in Writes : Newer(u, v) /\ Service!Taken(u)
    PROVE  FollowInv'
<1>1. \A k \in Keys : \A w \in Writes :
            latest'[k] = w => kind'[w] = "write" /\ keys'[w] = <<k>> /\ k \in Settings
  <2> SUFFICES ASSUME NEW k \in Keys, NEW w \in Writes, latest'[k] = w
               PROVE  kind'[w] = "write" /\ keys'[w] = <<k>> /\ k \in Settings
    OBVIOUS
  <2>1. kind[w] = "write" /\ keys[w] = <<k>> /\ k \in Settings
    BY DEF FollowInv
  <2>2. order[w] # 0
    BY <2>1 DEF ProgressInv
  <2> QED
    BY <2>1, <2>2 DEF Keeps
<1>2. \A w \in Writes :
            superseded'[w] => kind'[w] = "write" /\ order'[w] # 0 /\ followers'[w] = {}
  BY DEF FollowInv, Keeps
<1>3. \A v, w \in Writes : v \in followers'[w] => Newer(w, v)'
  BY NewerStays DEF FollowInv
<1>4. \A w \in Writes :
            result'[w] = "ok" => \E v \in Writes : Newer(v, w)' /\ Service!Taken(v)'
  BY NewerStays DEF FollowInv
<1> QED
  BY <1>1, <1>2, <1>3, <1>4 DEF FollowInv

LEMMA StepFollow ==
    ASSUME TypeOK, ProgressInv, LineInv, FollowInv, IdleAfterCall, [Next]_vars
    PROVE  FollowInv'
<1>0. Keeps
  BY StepKeeps
<1>1. ASSUME NEW w \in Writes, NEW kd, NEW ks, Joins(w, kd, ks) PROVE FollowInv'
  <2>1. CASE UNCHANGED <<superseded, followers, latest>>
    BY <1>0, <1>1, <2>1, FollowStays, JoinsFacts
  <2>2. CASE kd = "write" /\ \E k \in Settings : ks = <<k>> /\ Supersede(w, k)
    BY <1>0, <1>1, <2>2, SupersedeFollow
  <2> QED
    BY <1>1, <2>1, <2>2 DEF Joins
<1>2. ASSUME NEW w \in Writes, NEW o, NEW told, NEW r, Finishes(w, o, told, r)
      PROVE  FollowInv'
  <2>1. UNCHANGED <<superseded, followers>>
    BY <1>2, FinishesFacts
  <2>2. /\ result' = [v \in Writes |->
                        IF result[v] # "none" THEN result[v]
                        ELSE IF v \in told THEN r
                        ELSE IF v = w THEN "cancelled" ELSE "none"]
        /\ latest' = [k \in Keys |-> IF latest[k] = w THEN NoWrite ELSE latest[k]]
    BY <1>2 DEF Finishes, Leave
  <2>3. \A k \in Keys : latest'[k] \in Writes => latest'[k] = latest[k]
    BY <2>2, WriteQueueAssumption DEF WriteQueueAssumption
  <2>4. ASSUME NEW v \in Writes, result'[v] = "ok", result[v] # "ok"
        PROVE  Newer(w, v) /\ Service!Taken(w)
    <3>1. v \in told /\ r = "ok"
      BY <2>2, <2>4
    <3>2. told = followers[w] /\ landed[w] = Len(keys[w])
      BY <1>2, <3>1 DEF Finishes
    <3> QED
      BY <3>1, <3>2, TakenIs DEF FollowInv
  <2> QED
    BY <1>0, <2>1, <2>3, <2>4, FollowStays
<1>3. ASSUME \/ Rests
             \/ \E w \in Writes :
                    \/ Acquire(w) \/ DeviceTakes(w) \/ AcceptedNext(w) \/ Busy(w)
                    \/ Resume(w) \/ CancelledAsleep(w)
      PROVE  FollowInv'
  <2>1. UNCHANGED <<superseded, result, followers, latest>>
    BY <1>3 DEF Rests, Acquire, DeviceTakes, AcceptedNext, Busy, Resume, CancelledAsleep,
                futureVars
  <2> QED
    BY <1>0, <2>1, FollowStays
<1> QED
  BY <1>1, <1>2, <1>3, StepKinds

LEMMA KeyIs ==
    ASSUME TypeOK, ProgressInv, NEW w \in Writes, pc[w] \in Underway
    PROVE  at[w] \in DOMAIN keys[w] /\ Key(w) \in Keys
<1>1. /\ keys[w] \in Seq(Keys) /\ at[w] \in Nat \ {0} /\ at[w] <= Len(keys[w])
  BY DEF TypeOK, ProgressInv
<1>2. at[w] \in 1 .. Len(keys[w])
  BY <1>1
<1> QED
  BY <1>1, <1>2 DEF Key

LEMMA StepKnown ==
    ASSUME TypeOK, ProgressInv, OneAtATime, KnownInv, IdleAfterCall, [Next]_vars
    PROVE  KnownInv'
<1> USE DEF Holding, Underway
<1>0. /\ pc \in [Writes -> Places] /\ outcome \in [Writes -> Results]
      /\ landed \in [Writes -> Nat] /\ at \in [Writes -> Nat \ {0}]
      /\ register \in [Keys -> Writes \union {NoWrite}]
      /\ held \in [Keys -> Writes \union {NoWrite}]
      /\ NoWrite \notin Writes
  BY WriteQueueAssumption DEF TypeOK, WriteQueueAssumption
<1>a. \A v, w \in Writes : pc[v] \in Holding /\ pc[w] \in Holding => v = w
  BY <1>0 DEF OneAtATime
<1>1. ASSUME NEW w \in Writes, NEW kd, NEW ks, Joins(w, kd, ks) PROVE KnownInv'
  <2>1. /\ pc[w] \in {"unused", "asleep"}
        /\ at[w] = 1 /\ landed[w] = 0
        /\ \A v \in Writes \ {w} : pc'[v] = pc[v] /\ keys'[v] = keys[v]
        /\ UNCHANGED <<at, outcome, held, landed, register>>
    BY <1>1, JoinsFacts DEF Joins
  <2>2. \A v \in Writes \ {w} : Key(v)' = Key(v)
    BY <2>1 DEF Key
  <2> QED
    BY <1>0, <2>1, <2>2 DEF KnownInv
<1>2. ASSUME NEW w \in Writes, NEW o, NEW told, NEW r, Finishes(w, o, told, r)
      PROVE  KnownInv'
  <2>1. /\ pc[w] \in Underway /\ pc'[w] = "done" /\ outcome'[w] = o
        /\ \A v \in Writes \ {w} :
                /\ pc'[v] = pc[v] \/ (pc[v] = "unused" /\ pc'[v] = "asleep")
                /\ outcome'[v] = outcome[v]
        /\ UNCHANGED <<keys, at, landed, register>>
    BY <1>2, FinishesFacts DEF Finishes
  <2>2. \A v \in Writes : Key(v)' = Key(v)
    BY <2>1 DEF Key
  <2>3. \A v \in Writes : pc'[v] \in Holding => v # w /\ pc'[v] = pc[v]
    BY <2>1
  <2>4. \A v \in Writes : pc'[v] \in Holding /\ landed'[v] = at'[v] => register'[Key(v)'] = v
    BY <2>1, <2>2, <2>3 DEF KnownInv
  <2>5. ASSUME NEW k \in Keys
        PROVE  \/ register'[k] = held'[k]
               \/ \E v \in Writes :
                    /\ register'[k] = v
                    /\ \/ pc'[v] \in Holding /\ landed'[v] = at'[v] /\ Key(v)' = k
                       \/ pc'[v] = "done" /\ outcome'[v] # "ok"
    <3>1. CASE register[k] = held[k]
      <4>1. held'[k] = held[k] \/ (k = Key(w) /\ held'[k] = w /\ register[k] = w)
        BY <1>0, <1>2 DEF Finishes, KnownInv
      <4> QED
        BY <2>1, <3>1, <4>1
    <3>2. ASSUME NEW v \in Writes, register[k] = v,
                 pc[v] \in Holding, landed[v] = at[v], Key(v) = k, v = w
          PROVE  register'[k] = held'[k] \/ outcome'[w] # "ok"
      BY <1>0, <1>2, <2>1, <3>2 DEF Finishes
    <3>3. ASSUME NEW v \in Writes, register[k] = v, v # w,
                 \/ pc[v] \in Holding /\ landed[v] = at[v] /\ Key(v) = k
                 \/ pc[v] = "done" /\ outcome[v] # "ok"
          PROVE  \/ pc'[v] \in Holding /\ landed'[v] = at'[v] /\ Key(v)' = k
                 \/ pc'[v] = "done" /\ outcome'[v] # "ok"
      BY <2>1, <2>2, <3>3
    <3> QED
      BY <2>1, <3>1, <3>2, <3>3 DEF KnownInv
  <2> QED
    BY <2>4, <2>5 DEF KnownInv
<1>3. ASSUME NEW w \in Writes, Acquire(w) \/ Resume(w) \/ Busy(w) PROVE KnownInv'
  <2>1. /\ pc[w] \in {"waiting", "pausing", "sending"} /\ landed[w] < at[w]
        /\ \/ pc' = [pc EXCEPT ![w] = "following"]
           \/ pc' = [pc EXCEPT ![w] = "sending"]
           \/ pc' = [pc EXCEPT ![w] = "pausing"]
        /\ UNCHANGED <<keys, at, outcome, held, landed, register>>
    BY <1>3 DEF Acquire, Resume, Busy, Answerable, callVars, progressVars, deviceVars,
                ProgressInv
  <2>2. \A v \in Writes : Key(v)' = Key(v)
    BY <2>1 DEF Key
  <2>3. landed[w] # at[w]
    BY <1>0, <2>1
  <2> QED
    BY <1>0, <2>1, <2>2, <2>3 DEF KnownInv
<1>4. ASSUME NEW w \in Writes, DeviceTakes(w) PROVE KnownInv'
  <2>1. /\ pc[w] = "sending" /\ landed[w] < at[w]
        /\ landed' = [landed EXCEPT ![w] = at[w]]
        /\ register' = [register EXCEPT ![Key(w)] = w]
        /\ UNCHANGED <<pc, keys, at, outcome, held>>
    BY <1>4 DEF DeviceTakes, callVars, progressVars
  <2>2. Key(w) \in Keys /\ landed[w] # at[w]
    BY <1>0, <2>1, KeyIs
  <2>3. \A v \in Writes : Key(v)' = Key(v)
    BY <2>1 DEF Key
  <2>4. \A v \in Writes : pc[v] \in Holding => v = w
    BY <1>a, <2>1
  <2> QED
    BY <1>0, <2>1, <2>2, <2>3, <2>4 DEF KnownInv
<1>5. ASSUME NEW w \in Writes, AcceptedNext(w) PROVE KnownInv'
  <2>1. /\ pc[w] = "sending" /\ landed[w] = at[w]
        /\ held' = [held EXCEPT ![Key(w)] = w]
        /\ at' = [at EXCEPT ![w] = at[w] + 1]
        /\ UNCHANGED <<pc, keys, outcome, landed, register>>
    BY <1>5 DEF AcceptedNext, Answerable, callVars, deviceVars
  <2>2. Key(w) \in Keys /\ landed'[w] # at'[w]
    BY <1>0, <2>1, KeyIs
  <2>3. \A v \in Writes : pc[v] \in Holding => v = w
    BY <1>a, <2>1
  <2>4. register[Key(w)] = w
    BY <2>1 DEF KnownInv
  <2>5. ASSUME NEW k \in Keys
        PROVE  \/ register'[k] = held'[k]
               \/ \E v \in Writes :
                    register'[k] = v /\ pc'[v] = "done" /\ outcome'[v] # "ok"
    BY <1>0, <2>1, <2>2, <2>3, <2>4 DEF KnownInv
  <2>6. \A v \in Writes : ~(pc'[v] \in Holding /\ landed'[v] = at'[v])
    BY <2>1, <2>2, <2>3
  <2> QED
    BY <2>5, <2>6 DEF KnownInv
<1>6. ASSUME NEW w \in Writes, CancelledAsleep(w) PROVE KnownInv'
  <2>1. /\ pc[w] = "asleep" /\ pc' = [pc EXCEPT ![w] = "done"]
        /\ outcome' = [outcome EXCEPT ![w] = "cancelled"]
        /\ UNCHANGED <<keys, at, held, landed, register>>
    BY <1>6 DEF CancelledAsleep, callVars, progressVars, deviceVars
  <2>2. \A v \in Writes : Key(v)' = Key(v)
    BY <2>1 DEF Key
  <2> QED
    BY <1>0, <2>1, <2>2 DEF KnownInv
<1>7. ASSUME Rests PROVE KnownInv'
  <2>1. UNCHANGED <<pc, keys, at, outcome, held, landed, register>>
    BY <1>7 DEF Rests
  <2>2. \A v \in Writes : Key(v)' = Key(v)
    BY <2>1 DEF Key
  <2> QED
    BY <2>1, <2>2 DEF KnownInv
<1> QED
  BY <1>1, <1>2, <1>3, <1>4, <1>5, <1>6, <1>7, StepKinds

-----------------------------------------------------------------------------
(***************************************************************************)
(* The invariant, and what follows from it.                                *)
(***************************************************************************)
QueueInv ==
    /\ OneAtATime
    /\ CountsInv
    /\ ProgressInv
    /\ LineInv
    /\ FollowInv
    /\ KnownInv

LEMMA InitQueueInv == Init => QueueInv
<1> SUFFICES ASSUME Init PROVE QueueInv
  OBVIOUS
<1>1. OneAtATime
  BY WriteQueueAssumption DEF WriteQueueAssumption, Init, OneAtATime, Holding
<1>2. CountsInv
  BY InitCounts
<1>3. ProgressInv
  BY DEF Init, ProgressInv, Underway
<1>4. LineInv
  <2>1. Begun = {}
    BY DEF Init, Begun, Service!Begun
  <2>2. Cardinality(Begun) = 0
    BY <2>1, FS_EmptySet
  <2>3. /\ order = [w \in Writes |-> 0] /\ waiters = << >>
        /\ pc = [w \in Writes |-> "unused"]
    BY DEF Init
  <2>4. \A w \in Writes : order[w] <= Cardinality(Begun)
    BY <2>2, <2>3
  <2>5. /\ \A w \in Writes : order[w] = 0 /\ pc[w] = "unused"
        /\ \A i \in DOMAIN waiters : FALSE
    BY <2>3
  <2> QED
    BY <2>4, <2>5 DEF LineInv
<1>5. FollowInv
  BY WriteQueueAssumption DEF WriteQueueAssumption, Init, FollowInv
<1>6. KnownInv
  BY DEF Init, KnownInv, Holding
<1> QED
  BY <1>1, <1>2, <1>3, <1>4, <1>5, <1>6 DEF QueueInv

LEMMA StepQueueInv ==
    ASSUME TypeOK, QueueInv, [Next]_vars
    PROVE  QueueInv'
<1>1. IdleAfterCall
  BY DEF QueueInv, CountsInv
<1> QED
  BY <1>1, StepAlone, StepCounted, StepProgress, StepLine, StepFollow, StepKnown
     DEF QueueInv

LEMMA QueueInvariant == Spec => []QueueInv
BY InitQueueInv, StepQueueInv, TypeCorrect, PTL DEF Spec

\* What the client holds for a key that nothing is writing is what the device holds,
\* unless the device took a write that was never answered OK (_send(), write_sequence()).
THEOREM HeldIsRight == Spec => []HeldIsTaken
<1>1. ASSUME TypeOK, QueueInv PROVE HeldIsTaken
  <2> SUFFICES ASSUME NEW k \in Keys, writing[k] = 0, register[k] # held[k]
               PROVE  outcome[register[k]] # "ok"
    BY DEF HeldIsTaken
  <2>1. PICK w \in Writes :
            /\ register[k] = w
            /\ \/ pc[w] \in Holding /\ Key(w) = k
               \/ pc[w] = "done" /\ outcome[w] # "ok"
    BY <1>1 DEF QueueInv, KnownInv
  <2>2. CASE pc[w] \in Holding /\ Key(w) = k
    <3>1. at[w] \in DOMAIN keys[w] /\ w \in Unfinished
      BY <1>1, <2>2, KeyIs DEF QueueInv, Holding, Underway, Unfinished
    <3>2. <<w, at[w]>> \in WritingPlaces(k)
      BY <2>2, <3>1 DEF WritingPlaces, Key
    <3>3. IsFiniteSet(WritingPlaces(k)) /\ Cardinality(WritingPlaces(k)) = 0
      BY <1>1 DEF QueueInv, CountsInv, Accounting, CountedByKey
    <3>4. WritingPlaces(k) = {}
      BY <3>3, FS_EmptySet
    <3> QED
      BY <3>2, <3>4
  <2> QED
    BY <2>1, <2>2
<1> QED
  BY <1>1, QueueInvariant, TypeCorrect, PTL

\* An overtaken setting is not sent again (_until_taken(), _enqueue()).
THEOREM NotResent == Spec => OvertakenNotResent
<1>1. ASSUME TypeOK, QueueInv, [Next]_vars, NEW v \in Writes, superseded[v]
      PROVE  sends'[v] = sends[v]
  <2>0. /\ sends \in [Writes -> Nat]
        /\ kind[v] = "write" /\ order[v] # 0
        /\ IdleAfterCall /\ ProgressInv
    BY <1>1 DEF TypeOK, QueueInv, FollowInv, CountsInv
  <2>1. ASSUME NEW w \in Writes, NEW kd, NEW ks, Joins(w, kd, ks) PROVE sends'[v] = sends[v]
    <3>1. v # w
      BY <1>1, <2>0, <2>1, JoinsFacts
    <3>2. sends' = sends \/ sends' = [sends EXCEPT ![w] = 1]
      BY <2>1 DEF Joins, EnterLock
    <3> QED
      BY <2>0, <3>1, <3>2
  <2>2. ASSUME NEW w \in Writes, NEW o, NEW told, NEW r, Finishes(w, o, told, r)
        PROVE  sends'[v] = sends[v]
    BY <1>1, <2>2, FinishesFacts
  <2>3. ASSUME NEW w \in Writes, Acquire(w) \/ Resume(w) PROVE sends'[v] = sends[v]
    <3>1. \/ sends' = sends
          \/ ~superseded[w] /\ \E n : sends' = [sends EXCEPT ![w] = n]
      BY <2>3 DEF Acquire, Resume
    <3> QED
      BY <1>1, <2>0, <3>1
  <2>4. ASSUME NEW w \in Writes, AcceptedNext(w) PROVE sends'[v] = sends[v]
    <3>1. sends' = [sends EXCEPT ![w] = 1] /\ at[w] < Len(keys[w]) /\ pc[w] = "sending"
      BY <2>4 DEF AcceptedNext, Answerable
    <3>2. v # w
      <4>1. at[v] \in Nat \ {0} /\ Len(keys[v]) = 1
        BY <1>1, <2>0 DEF TypeOK, ProgressInv
      <4>2. ~(at[v] < Len(keys[v]))
        BY <4>1
      <4> QED
        BY <3>1, <4>2
    <3> QED
      BY <2>0, <3>1, <3>2
  <2>5. ASSUME \/ Rests
               \/ \E w \in Writes : DeviceTakes(w) \/ Busy(w) \/ CancelledAsleep(w)
        PROVE  sends'[v] = sends[v]
    BY <2>5 DEF Rests, DeviceTakes, Busy, CancelledAsleep, progressVars
  <2> QED
    BY <1>1, <2>0, <2>1, <2>2, <2>3, <2>4, <2>5, StepKinds
<1>2. TypeOK /\ QueueInv /\ [Next]_vars =>
        [\A w \in Writes : superseded[w] => sends'[w] = sends[w]]_vars
  BY <1>1
<1> QED
  BY <1>2, QueueInvariant, TypeCorrect, PTL DEF Spec, OvertakenNotResent

-----------------------------------------------------------------------------
(***************************************************************************)
(* The refinement of WriteService: each step is one of the service's, or   *)
(* none of its state changes.                                              *)
(***************************************************************************)

\* What stands for WriteService's `setting`.
SettingMap == [w \in Writes |-> keys[w] # << >> /\ IsSetting(w)]

\* Only one write's entry of the map differs.
LEMMA OnlyOneSetting ==
    ASSUME NEW w \in Writes, \A v \in Writes \ {w} : Setting(v)' <=> Setting(v)
    PROVE  SettingMap' = [SettingMap EXCEPT ![w] = SettingMap'[w]]
<1>1. \A v \in Writes \ {w} : SettingMap'[v] = SettingMap[v]
  BY DEF SettingMap, Setting
<1>2. DOMAIN SettingMap' = Writes /\ DOMAIN SettingMap = Writes
  BY DEF SettingMap
<1>3. /\ SettingMap' = [v \in Writes |-> SettingMap'[v]]
      /\ SettingMap = [v \in Writes |-> SettingMap[v]]
  BY Zenon DEF SettingMap
<1> HIDE DEF SettingMap
<1> QED
  BY <1>1, <1>2, <1>3, Zenon

LEMMA SameSettings ==
    ASSUME \A v \in Writes : Setting(v)' <=> Setting(v)
    PROVE  SettingMap' = SettingMap
<1>1. \A v \in Writes : SettingMap'[v] = SettingMap[v]
  BY DEF SettingMap, Setting
<1>2. /\ SettingMap' = [v \in Writes |-> SettingMap'[v]]
      /\ SettingMap = [v \in Writes |-> SettingMap[v]]
  BY Zenon DEF SettingMap
<1> HIDE DEF SettingMap
<1> QED
  BY <1>1, <1>2, Zenon

LEMMA ServiceBegins ==
    ASSUME TypeOK, QueueInv, NEW w \in Writes, NEW kd, NEW ks, Joins(w, kd, ks)
    PROVE  Service!Begin(w)
<1>1. /\ order[w] = 0 /\ order' = [order EXCEPT ![w] = Cardinality(Begun) + 1]
      /\ keys' = [keys EXCEPT ![w] = keys'[w]] /\ keys'[w] # << >>
      /\ landed' = landed /\ outcome' = outcome
      /\ \A v \in Writes \ {w} :
            keys'[v] = keys[v] /\ kind'[v] = kind[v] /\ at'[v] = at[v]
  <2>1. ProgressInv
    BY DEF QueueInv
  <2>2. /\ keys' = [keys EXCEPT ![w] = ks] /\ ks # << >>
        /\ order' = [order EXCEPT ![w] = Cardinality(Begun) + 1]
    BY DEF Joins
  <2>3. /\ order[w] = 0 /\ keys'[w] = ks
        /\ UNCHANGED <<at, landed, outcome>>
        /\ \A v \in Writes \ {w} : keys'[v] = keys[v] /\ kind'[v] = kind[v]
    BY <2>1, JoinsFacts
  <2> QED
    BY <2>2, <2>3
<1>2. \A v \in Writes \ {w} : Setting(v)' <=> Setting(v)
  BY <1>1 DEF Setting, IsSetting, Key
<1>3. SettingMap' = [SettingMap EXCEPT ![w] = SettingMap'[w]]
  BY <1>2, OnlyOneSetting
<1>4. /\ w \notin Service!Begun
      /\ order'[w] > 0 /\ \A v \in Service!Begun : order'[w] > order[v]
  <2>1. order'[w] = Cardinality(Begun) + 1 /\ Cardinality(Begun) \in Nat
    BY JoinsFacts DEF QueueInv
  <2>2. \A v \in Writes : order[v] \in Nat /\ order[v] <= Cardinality(Begun)
    BY DEF TypeOK, QueueInv, LineInv
  <2> QED
    BY <1>1, <2>1, <2>2 DEF Service!Begun
<1>5. Service!OnlyFor(w, keys, keys') /\ Service!OnlyFor(w, order, order')
  <2>1. order' = [order EXCEPT ![w] = order'[w]]
    BY <1>1 DEF TypeOK
  <2> QED
    BY <1>1, <2>1 DEF Service!OnlyFor
<1>6. Service!OnlyFor(w, SettingMap, SettingMap')
  BY <1>3 DEF Service!OnlyFor
<1>7. UNCHANGED <<landed, outcome>>
  BY <1>1
<1> QED
  BY <1>1, <1>4, <1>5, <1>6, <1>7, Zenon DEF Service!Begin, SettingMap

LEMMA ServiceTakes ==
    ASSUME TypeOK, QueueInv, NEW w \in Writes, DeviceTakes(w)
    PROVE  Service!Take(w)
<1>1. /\ pc[w] = "sending" /\ landed[w] < at[w]
      /\ landed' = [landed EXCEPT ![w] = at[w]]
      /\ UNCHANGED <<outcome, order, keys, kind, at>>
  BY DEF DeviceTakes, callVars, progressVars
<1>2. /\ landed[w] \in Nat /\ at[w] \in Nat \ {0} /\ order[w] \in Nat
      /\ Len(keys[w]) \in Nat
  <2>1. keys[w] \in Seq(Keys)
    BY DEF TypeOK
  <2> QED
    BY <2>1 DEF TypeOK
<1>3. /\ order[w] # 0 /\ outcome[w] = "none" /\ at[w] <= Len(keys[w])
      /\ landed[w] \in {at[w] - 1, at[w]}
  BY <1>1 DEF QueueInv, ProgressInv, Underway
<1>4. landed[w] + 1 = at[w] /\ landed[w] # Len(keys[w])
  BY <1>1, <1>2, <1>3
<1>5. landed' = [landed EXCEPT ![w] = @ + 1]
  BY <1>1, <1>4
<1>6. \A v \in Writes : order[v] > order[w] => landed[v] = 0
  BY <1>1 DEF QueueInv, LineInv, Live, Holding
<1>7. SettingMap' = SettingMap
  BY <1>1, SameSettings DEF Setting, IsSetting, Key
<1>8. w \in Service!Begun /\ ~Service!Taken(w)
  BY <1>3, <1>4, TakenIs DEF Service!Begun
<1>9. \A v \in Service!Begun : order[v] > order[w] => landed[v] = 0
  BY <1>6 DEF Service!Begun
<1> QED
  BY <1>1, <1>3, <1>5, <1>7, <1>8, <1>9 DEF Service!Take, SettingMap

LEMMA ServiceReturns ==
    ASSUME TypeOK, QueueInv, NEW w \in Writes,
           CancelledAsleep(w) \/ \E o, told, r : Finishes(w, o, told, r)
    PROVE  Service!Return(w)
<1>0. outcome \in [Writes -> Results]
  BY DEF TypeOK
<1>1. CASE CancelledAsleep(w)
  <2>1. /\ pc[w] = "asleep" /\ outcome' = [outcome EXCEPT ![w] = "cancelled"]
        /\ UNCHANGED <<order, keys, kind, at, landed>>
    BY <1>1 DEF CancelledAsleep, callVars, progressVars, deviceVars
  <2>2. outcome[w] = "none"
    BY <2>1 DEF QueueInv, ProgressInv
  <2>3. outcome' = [outcome EXCEPT ![w] = outcome'[w]] /\ outcome'[w] = "cancelled"
    BY <1>0, <2>1
  <2>4. SettingMap' = SettingMap
    BY <2>1, SameSettings DEF Setting, IsSetting, Key
  <2> QED
    BY <2>1, <2>2, <2>3, <2>4 DEF Service!Return, Service!OnlyFor, SettingMap
<1>2. CASE \E o, told, r : Finishes(w, o, told, r)
  <2>1. PICK o, told, r : Finishes(w, o, told, r)
    BY <1>2
  <2>2. /\ outcome'[w] = o /\ o # "none" /\ outcome' = [outcome EXCEPT ![w] = o]
        /\ pc[w] \in Underway
        /\ o = "ok" => landed[w] = Len(keys[w]) \/ result[w] = "ok"
        /\ UNCHANGED <<order, keys, kind, at, landed>>
    <3>1. /\ o # "none" /\ pc[w] \in Underway /\ Leave(w, o, told, r)
          /\ o = "ok" => landed[w] = Len(keys[w]) \/ result[w] = "ok"
      BY <2>1 DEF Finishes
    <3>2. outcome' = [outcome EXCEPT ![w] = o]
      BY <3>1 DEF Leave
    <3>3. outcome'[w] = o /\ UNCHANGED <<order, keys, kind, at, landed>>
      BY <2>1, FinishesFacts
    <3> QED
      BY <3>1, <3>2, <3>3
  <2>3. outcome[w] = "none" /\ order[w] # 0
    BY <2>2 DEF QueueInv, ProgressInv, Underway
  <2>4. ASSUME o = "ok"
        PROVE  Service!Taken(w) \/ \E v \in Service!Begun : Service!Newer(v, w) /\ Service!Taken(v)
    <3>1. CASE landed[w] = Len(keys[w])
      BY <3>1, TakenIs
    <3>2. CASE result[w] = "ok"
      <4>1. PICK v \in Writes : Newer(v, w) /\ Service!Taken(v)
        BY <3>2 DEF QueueInv, FollowInv
      <4>2. order[v] # 0
        BY <4>1, NewerIs DEF Setting, QueueInv, ProgressInv
      <4> QED
        BY <4>1, <4>2 DEF Newer, Service!Begun
    <3> QED
      BY <2>2, <2>4, <3>1, <3>2
  <2>5. SettingMap' = SettingMap
    BY <2>2, SameSettings DEF Setting, IsSetting, Key
  <2>6. w \in Service!Begun
    BY <2>3 DEF Service!Begun
  <2> QED
    BY <2>2, <2>3, <2>4, <2>5, <2>6 DEF Service!Return, Service!OnlyFor, SettingMap
<1> QED
  BY <1>1, <1>2

\* Who waits, who holds the lock and what is sent again is the queue's own business.
LEMMA ServiceStutters ==
    ASSUME TypeOK, QueueInv,
           \/ Rests
           \/ \E w \in Writes : Acquire(w) \/ AcceptedNext(w) \/ Busy(w) \/ Resume(w)
    PROVE  UNCHANGED Service!vars
<1>1. UNCHANGED <<order, keys, kind, landed, outcome>>
  BY DEF Rests, Acquire, AcceptedNext, Busy, Resume, callVars, deviceVars
<1>2. ASSUME NEW v \in Writes PROVE Setting(v)' <=> Setting(v)
  <2>1. CASE \E w \in Writes : AcceptedNext(w)
    <3>1. Keeps
      BY <2>1, StepKeeps DEF QueueInv, CountsInv, Next, Answer
    <3>2. order[v] = 0 => keys[v] = << >>
      BY DEF QueueInv, ProgressInv
    <3>3. keys[v] # << >> => at'[v] = at[v] \/ kind[v] = "sequence"
      BY <3>1, <3>2 DEF Keeps
    <3> QED
      BY <1>1, <3>3 DEF Setting, IsSetting, Key
  <2>2. CASE ~\E w \in Writes : AcceptedNext(w)
    <3>1. at' = at
      BY <2>2 DEF Rests, Acquire, Busy, Resume, progressVars
    <3> QED
      BY <1>1, <3>1 DEF Setting, IsSetting, Key
  <2> QED
    BY <2>1, <2>2
<1>3. SettingMap' = SettingMap
  BY <1>2, SameSettings
<1> QED
  BY <1>1, <1>3 DEF Service!vars, SettingMap

\* The queue gives what WriteService promises: values reach the device in the order their
\* writes were begun, and a write returns True only once the device has its value or a
\* newer setting's (write(), write_sequence()).
THEOREM QueueGivesService == Spec => GivesService
<1>1. Init => Service!Init
  <2> SUFFICES ASSUME Init PROVE Service!Init
    OBVIOUS
  <2>1. SettingMap = [w \in Writes |-> FALSE]
    BY Zenon DEF Init, SettingMap
  <2> QED
    BY <2>1 DEF Init, Service!Init, SettingMap
<1>2. TypeOK /\ QueueInv /\ [Next]_vars => [Service!Next]_(Service!vars)
  <2> SUFFICES ASSUME TypeOK, QueueInv, [Next]_vars
               PROVE  Service!Next \/ UNCHANGED Service!vars
    OBVIOUS
  <2>1. ASSUME NEW w \in Writes, \E kd, ks : Joins(w, kd, ks) PROVE Service!Next
    BY <2>1, ServiceBegins DEF Service!Next
  <2>2. ASSUME NEW w \in Writes, DeviceTakes(w) PROVE Service!Next
    BY <2>2, ServiceTakes DEF Service!Next
  <2>3. ASSUME NEW w \in Writes,
               CancelledAsleep(w) \/ \E o, told, r : Finishes(w, o, told, r)
        PROVE  Service!Next
    BY <2>3, ServiceReturns DEF Service!Next
  <2> QED
    BY <2>1, <2>2, <2>3, ServiceStutters, StepKinds DEF QueueInv, CountsInv
<1> QED
  BY <1>1, <1>2, QueueInvariant, TypeCorrect, PTL DEF Spec, GivesService, Service!Spec

-----------------------------------------------------------------------------
\* Once it is told how the newer one ended, a write stays told.
LEMMA TellsFollowers ==
    ASSUME TypeOK, NEW w \in Writes, NEW o, NEW told, NEW r, Finishes(w, o, told, r)
    PROVE  /\ \A v \in Writes : result[v] # "none" => result'[v] # "none"
           /\ pc[w] \in Holding => \A v \in followers[w] : result'[v] # "none"
<1>1. result' = [v \in Writes |->
                    IF result[v] # "none" THEN result[v]
                    ELSE IF v \in told THEN r
                    ELSE IF v = w THEN "cancelled" ELSE "none"]
  BY DEF Finishes, Leave
<1>2. pc[w] \in Holding => told = followers[w] /\ r # "none"
  BY DEF Finishes
<1>3. followers[w] \subseteq Writes
  BY DEF TypeOK
<1> QED
  BY <1>1, <1>2, <1>3

\* Writes under way that can still tell `w` how they ended.
Teller(v, w) == pc[v] \in Underway \ {"following"} /\ w \in followers[v]

LEMMA JoinsKeepsTellers ==
    ASSUME TypeOK, QueueInv, NEW w \in Writes, NEW kd, NEW ks, Joins(w, kd, ks),
           NEW v \in Writes, pc'[v] \in Underway, superseded'[v],
           ~superseded[v] \/ \E u \in Writes : Teller(u, v)
    PROVE  \E u \in Writes : Teller(u, v)'
<1>0. /\ superseded \in [Writes -> BOOLEAN] /\ followers \in [Writes -> SUBSET Writes]
  BY DEF TypeOK
<1>1. /\ pc[w] \in {"unused", "asleep"} /\ pc'[w] \in {"sending", "waiting"}
      /\ \A u \in Writes \ {w} : pc'[u] = pc[u]
  BY JoinsFacts DEF QueueInv, Joins
<1>2. CASE UNCHANGED <<superseded, followers, latest>>
  <2>1. PICK u \in Writes : Teller(u, v)
    BY <1>2
  <2>2. u # w
    BY <1>1, <2>1 DEF Teller, Underway
  <2> QED
    BY <1>1, <1>2, <2>1, <2>2 DEF Teller
<1>3. ASSUME NEW k \in Settings, Supersede(w, k) PROVE \E u \in Writes : Teller(u, v)'
  <2> DEFINE earlier == {u \in Writes : latest[k] = u /\ ~superseded[u]}
  <2>1. /\ superseded' = [u \in Writes |-> superseded[u] \/ u \in earlier]
        /\ followers' = [u \in Writes |->
                            IF u = w THEN earlier \union UNION {followers[e] : e \in earlier}
                            ELSE IF u \in earlier THEN {} ELSE followers[u]]
    BY <1>3 DEF Supersede
  <2> HIDE DEF earlier
  <2>2. CASE ~superseded[v]
    <3>1. v \in earlier
      BY <2>1, <2>2
    <3> QED
      BY <1>1, <2>1, <3>1 DEF Teller, Underway
  <2>3. ASSUME NEW u \in Writes, Teller(u, v) PROVE \E x \in Writes : Teller(x, v)'
    <3>1. u # w
      BY <1>1, <2>3 DEF Teller, Underway
    <3>2. CASE u \in earlier
      <4>1. v \in UNION {followers[e] : e \in earlier}
        BY <2>3, <3>2 DEF Teller
      <4> QED
        BY <1>1, <2>1, <4>1 DEF Teller, Underway
    <3>3. CASE u \notin earlier
      BY <1>1, <2>1, <2>3, <3>1, <3>3 DEF Teller
    <3> QED
      BY <3>2, <3>3
  <2> QED
    BY <2>2, <2>3
<1> QED
  BY <1>2, <1>3 DEF Joins

\* A setting that is overtaken is told how the newer one ended; only the cancellation of a
\* write that still waits for the lock leaves one without (_enqueue()).
THEOREM ToldUnlessCancelled == Spec => OrphanedByCancelOnly
<1> USE DEF Underway, Holding
<1>1. ASSUME TypeOK, QueueInv, [Next]_vars, NEW w \in Writes,
             ~Orphaned(w), Orphaned(w)',
             ~\E v \in cancelled : pc[v] = "waiting" /\ pc'[v] = "done"
      PROVE  FALSE
  <2>0. /\ pc \in [Writes -> Places] /\ superseded \in [Writes -> BOOLEAN]
        /\ result \in [Writes -> Results] /\ ProgressInv /\ IdleAfterCall
    BY <1>1 DEF TypeOK, QueueInv, CountsInv
  <2>1. /\ pc'[w] \in Underway /\ superseded'[w] /\ result'[w] = "none"
        /\ \A u \in Writes : ~Teller(u, w)'
    BY <1>1 DEF Orphaned, Teller
  <2>2. \/ pc[w] \notin Underway \/ ~superseded[w] \/ result[w] # "none"
        \/ \E u \in Writes : Teller(u, w)
    BY <1>1 DEF Orphaned, Teller
  <2>3. superseded[w] => pc[w] # "unused" /\ pc[w] # "asleep"
    BY <1>1 DEF QueueInv, FollowInv, ProgressInv
  <2>4. ASSUME NEW x \in Writes, NEW kd, NEW ks, Joins(x, kd, ks) PROVE FALSE
    <3>1. /\ pc[x] \in {"unused", "asleep"} /\ result' = result
          /\ \A u \in Writes \ {x} : pc'[u] = pc[u]
      BY <1>1, <2>4, JoinsFacts DEF QueueInv, Joins
    <3>2. superseded[w] => pc[w] \in Underway
      BY <2>0, <2>1, <2>3, <3>1
    <3>3. ~superseded[w] \/ \E u \in Writes : Teller(u, w)
      BY <2>1, <2>2, <3>1, <3>2
    <3> QED
      BY <1>1, <2>1, <2>4, <3>3, JoinsKeepsTellers
  <2>5. ASSUME UNCHANGED <<superseded, followers>>,
               pc'[w] \in Underway => pc[w] \in Underway,
               result[w] # "none" => result'[w] # "none"
        PROVE  \E u \in Writes :
                  Teller(u, w) /\ (pc'[u] \notin Underway \/ pc'[u] = "following")
    BY <2>1, <2>2, <2>5 DEF Teller
  <2>6. ASSUME NEW x \in Writes, NEW o, NEW told, NEW r, Finishes(x, o, told, r) PROVE FALSE
    <3>1. /\ pc[x] \in Underway /\ pc'[x] = "done"
          /\ \A v \in Writes \ {x} :
                pc'[v] = pc[v] \/ (pc[v] = "unused" /\ pc'[v] = "asleep")
          /\ UNCHANGED <<superseded, followers>>
      BY <2>6, FinishesFacts, <1>1 DEF Finishes
    <3>2. Teller(x, w)
      BY <1>1, <2>5, <2>6, <3>1, TellsFollowers DEF Teller
    <3>3. pc[x] \in Holding \/ pc[x] = "waiting"
      BY <3>2 DEF Teller
    <3>4. pc[x] # "waiting"
      BY <1>1, <2>6, <3>1 DEF Finishes
    <3> QED
      BY <1>1, <2>1, <2>6, <3>2, <3>3, <3>4, TellsFollowers DEF Teller
  <2>7. ASSUME NEW x \in Writes, Acquire(x) \/ Resume(x) PROVE FALSE
    <3>1. /\ \/ superseded[x] /\ pc' = [pc EXCEPT ![x] = "following"]
             \/ pc' = [pc EXCEPT ![x] = "sending"]
          /\ pc[x] \in {"waiting", "pausing"}
          /\ UNCHANGED <<superseded, result, followers>>
      BY <2>7 DEF Acquire, Resume, futureVars
    <3>2. PICK u \in Writes :
              Teller(u, w) /\ (pc'[u] \notin Underway \/ pc'[u] = "following")
      BY <2>0, <2>5, <3>1
    <3>3. superseded[u]
      BY <2>0, <3>1, <3>2 DEF Teller
    <3>4. followers[u] = {}
      BY <1>1, <3>3 DEF QueueInv, FollowInv
    <3> QED
      BY <3>2, <3>4 DEF Teller
  <2>8. ASSUME \/ Rests
               \/ \E x \in Writes :
                    DeviceTakes(x) \/ AcceptedNext(x) \/ Busy(x) \/ CancelledAsleep(x)
        PROVE  FALSE
    <3>1. /\ UNCHANGED <<superseded, result, followers>>
          /\ \/ pc' = pc
             \/ \E x \in Writes : pc[x] = "sending" /\ pc' = [pc EXCEPT ![x] = "pausing"]
             \/ \E x \in Writes : pc[x] = "asleep" /\ pc' = [pc EXCEPT ![x] = "done"]
      BY <2>8 DEF Rests, DeviceTakes, AcceptedNext, Busy, CancelledAsleep, Answerable,
                  futureVars
    <3> QED
      BY <2>0, <2>5, <3>1 DEF Teller
  <2> QED
    BY <1>1, <2>0, <2>4, <2>6, <2>7, <2>8, StepKinds
<1>2. TypeOK /\ QueueInv /\ [Next]_vars =>
        [\A w \in Writes : ~Orphaned(w) /\ Orphaned(w)' =>
            \E v \in cancelled : pc[v] = "waiting" /\ pc'[v] = "done"]_vars
  BY <1>1
<1> QED
  BY <1>2, QueueInvariant, TypeCorrect, PTL DEF Spec, OrphanedByCancelOnly
=============================================================================
