-------------------------- MODULE WriteQueueProofs --------------------------
(***************************************************************************)
(* What holds of the write queue for any number of calls, keys and         *)
(* sequences.                                                              *)
(***************************************************************************)
EXTENDS WriteQueue, FiniteSetTheorems, TLAPS

USE DEF Places, Results

LEMMA WritesTwin ==
    ASSUME NEW w \in Writes
    PROVE  IdleWrite(w) \in Writes /\ Pulser(w) \in Writes
BY DEF Writes, IdleWrite, Pulser

\* How often a list of keys names a key is a number.
LEMMA OccurrencesType ==
    ASSUME NEW ks \in Seq(Keys), NEW k
    PROVE  /\ IsFiniteSet({i \in DOMAIN ks : ks[i] = k})
           /\ Occurrences(ks, k) \in Nat
<1>1. DOMAIN ks = 1..Len(ks) /\ Len(ks) \in Nat
  OBVIOUS
<1>2. IsFiniteSet(1..Len(ks))
  BY <1>1, FS_Interval
<1>3. IsFiniteSet({i \in DOMAIN ks : ks[i] = k})
  BY <1>1, <1>2, FS_Subset
<1> QED
  BY <1>3, FS_CardinalityType DEF Occurrences

LEMMA BeginType ==
    ASSUME TypeOK, NEW ks \in Seq(Keys), Begin(ks)
    PROVE  /\ inFlight' \in Int
           /\ writing' \in [Keys -> Int]
           /\ changes' \in [Keys -> Int]
           /\ pending' \in BOOLEAN
<1>1. \A k \in Keys : Occurrences(ks, k) \in Nat
  BY OccurrencesType
<1>2. pending' \in BOOLEAN
  BY Zenon DEF Begin
<1> QED
  BY <1>1, <1>2 DEF TypeOK, Begin

LEMMA EndType ==
    ASSUME TypeOK, NEW ks \in Seq(Keys), End(ks)
    PROVE  /\ inFlight' \in Int
           /\ writing' \in [Keys -> Int]
           /\ changes' \in [Keys -> Int]
           /\ pending' \in BOOLEAN
<1>1. \A k \in Keys : Occurrences(ks, k) \in Nat
  BY OccurrencesType
<1>2. pending' \in BOOLEAN
  BY Zenon DEF End
<1> QED
  BY <1>1, <1>2 DEF TypeOK, End

LEMMA EnterLockType ==
    ASSUME TypeOK, NEW w \in Writes, EnterLock(w)
    PROVE  /\ pc' \in [Writes -> Places]
           /\ sends' \in [Writes -> Nat]
           /\ holder' \in Writes \union {NoWrite}
           /\ waiters' \in Seq(Writes)
<1>1. CASE /\ holder' = w
           /\ pc' = [pc EXCEPT ![w] = "sending"]
           /\ sends' = [sends EXCEPT ![w] = 1]
           /\ waiters' = waiters
  BY <1>1 DEF TypeOK
<1>2. CASE /\ waiters' = Append(waiters, w)
           /\ pc' = [pc EXCEPT ![w] = "waiting"]
           /\ holder' = holder /\ sends' = sends
  BY <1>2 DEF TypeOK
<1> QED
  BY <1>1, <1>2 DEF EnterLock

LEMMA SupersedeType ==
    ASSUME TypeOK, NEW w \in Writes, NEW k \in Keys, Supersede(w, k)
    PROVE  /\ superseded' \in [Writes -> BOOLEAN]
           /\ followers' \in [Writes -> SUBSET Writes]
           /\ latest' \in [Keys -> Writes \union {NoWrite}]
<1> DEFINE earlier == {v \in Writes : latest[k] = v /\ ~superseded[v]}
<1>1. UNION {followers[e] : e \in earlier} \subseteq Writes
  BY DEF TypeOK
<1>2. latest' = [latest EXCEPT ![k] = w]
  BY DEF Supersede
<1>3. superseded' = [v \in Writes |-> superseded[v] \/ v \in earlier]
  BY DEF Supersede
<1>4. followers' = [v \in Writes |->
                        IF v = w THEN earlier \union UNION {followers[e] : e \in earlier}
                        ELSE IF v \in earlier THEN {} ELSE followers[v]]
  BY DEF Supersede
<1> QED
  <2>1. superseded' \in [Writes -> BOOLEAN]
    BY <1>3, Zenon
  <2>2. followers' \in [Writes -> SUBSET Writes]
    BY <1>1, <1>4 DEF TypeOK
  <2>3. latest' \in [Keys -> Writes \union {NoWrite}]
    BY <1>2 DEF TypeOK
  <2> QED
    BY <2>1, <2>2, <2>3

\* Cardinality of a set of writes is a number: the writes are finite in number.
LEMMA WritesFinite == IsFiniteSet(Writes)
<1>1. IsFiniteSet({"call"} \union {"idle"})
  BY FS_Singleton, FS_Union
<1>2. {"call", "idle"} = {"call"} \union {"idle"}
  OBVIOUS
<1> QED
  BY <1>1, <1>2, WriteQueueAssumption, FS_Product DEF WriteQueueAssumption, Writes

LEMMA OrderType ==
    Cardinality({v \in Writes : order[v] # 0}) \in Nat
BY WritesFinite, FS_Subset, FS_CardinalityType

LEMMA LeaveType ==
    ASSUME TypeOK, NEW w \in Writes, NEW o \in Results, NEW told, NEW r \in Results,
           Leave(w, o, told, r)
    PROVE  /\ outcome' \in [Writes -> Results]
           /\ result' \in [Writes -> Results]
           /\ latest' \in [Keys -> Writes \union {NoWrite}]
           /\ superseded' = superseded /\ followers' = followers
           /\ kind' = kind /\ keys' = keys /\ order' = order
           /\ at' = at /\ sends' = sends
           /\ inFlight' \in Int
           /\ writing' \in [Keys -> Int]
           /\ changes' \in [Keys -> Int]
           /\ pending' \in BOOLEAN
<1>1. /\ inFlight' \in Int
      /\ writing' \in [Keys -> Int]
      /\ changes' \in [Keys -> Int]
      /\ pending' \in BOOLEAN
  <2>1. keys[w] \in Seq(Keys) /\ End(keys[w])
    BY DEF TypeOK, Leave
  <2> QED
    BY <2>1, EndType
<1>2. outcome' \in [Writes -> Results]
  BY DEF TypeOK, Leave
<1>3. result' \in [Writes -> Results]
  BY DEF TypeOK, Leave
<1>4. latest' \in [Keys -> Writes \union {NoWrite}]
  BY DEF TypeOK, Leave
<1>5. UNCHANGED <<superseded, followers, kind, keys, order, at, sends>>
  BY DEF Leave, callVars
<1> QED
  BY <1>1, <1>2, <1>3, <1>4, <1>5

LEMMA EnqueueType ==
    ASSUME TypeOK, NEW w \in Writes, NEW k \in Keys, Enqueue(w, k), UNCHANGED cancelled
    PROVE  TypeOK'
<1>1. /\ kind' \in [Writes -> {"write", "sequence"}]
      /\ keys' \in [Writes -> Seq(Keys)]
      /\ order' \in [Writes -> Nat]
  <2>1. kind' \in [Writes -> {"write", "sequence"}]
    BY DEF TypeOK, Enqueue
  <2>2. keys' \in [Writes -> Seq(Keys)]
    BY DEF TypeOK, Enqueue
  <2>3. order' \in [Writes -> Nat]
    <3> DEFINE n == Cardinality({v \in Writes : order[v] # 0})
    <3>1. n \in Nat /\ order' = [order EXCEPT ![w] = n + 1] /\ order \in [Writes -> Nat]
      BY OrderType DEF TypeOK, Enqueue
    <3> HIDE DEF n
    <3> QED
      BY <3>1
  <2> QED
    BY <2>1, <2>2, <2>3
<1>2. /\ superseded' \in [Writes -> BOOLEAN]
      /\ followers' \in [Writes -> SUBSET Writes]
      /\ latest' \in [Keys -> Writes \union {NoWrite}]
  BY SupersedeType DEF TypeOK, Enqueue
<1>3. /\ inFlight' \in Int
      /\ writing' \in [Keys -> Int]
      /\ changes' \in [Keys -> Int]
      /\ pending' \in BOOLEAN
  <2>1. <<k>> \in Seq(Keys) /\ Begin(<<k>>)
    BY DEF Enqueue
  <2> QED
    BY <2>1, BeginType
<1>4. /\ pc' \in [Writes -> Places]
      /\ sends' \in [Writes -> Nat]
      /\ holder' \in Writes \union {NoWrite}
      /\ waiters' \in Seq(Writes)
  BY EnterLockType DEF Enqueue
<1>5. UNCHANGED <<at, outcome, result, held, landed, register, cancelled>>
  BY DEF Enqueue, deviceVars
<1> QED
  BY <1>1, <1>2, <1>3, <1>4, <1>5 DEF TypeOK

LEMMA WriteSequenceType ==
    ASSUME TypeOK, NEW w \in Writes, NEW ks \in Lists, WriteSequence(w, ks)
    PROVE  TypeOK'
<1>1. ks \in Seq(Keys)
  BY WriteQueueAssumption DEF WriteQueueAssumption
<1>2. /\ kind' \in [Writes -> {"write", "sequence"}]
      /\ keys' \in [Writes -> Seq(Keys)]
      /\ order' \in [Writes -> Nat]
  BY <1>1, OrderType DEF TypeOK, WriteSequence
<1>3. /\ inFlight' \in Int
      /\ writing' \in [Keys -> Int]
      /\ changes' \in [Keys -> Int]
      /\ pending' \in BOOLEAN
  BY <1>1, BeginType DEF WriteSequence
<1>4. /\ pc' \in [Writes -> Places]
      /\ sends' \in [Writes -> Nat]
      /\ holder' \in Writes \union {NoWrite}
      /\ waiters' \in Seq(Writes)
  BY EnterLockType DEF WriteSequence
<1>5. UNCHANGED <<at, outcome, held, landed, register, cancelled, superseded, result,
                  followers, latest>>
  BY DEF WriteSequence, deviceVars, futureVars
<1> QED
  BY <1>2, <1>3, <1>4, <1>5 DEF TypeOK

-----------------------------------------------------------------------------
\* The steps of a write under way that end it: Leave() does the rest.
LEMMA LeavingType ==
    ASSUME TypeOK, NEW w \in Writes, NEW o \in Results, NEW told, NEW r \in Results,
           Leave(w, o, told, r),
           pc' \in [Writes -> Places],
           cancelled' \subseteq Writes,
           holder' \in Writes \union {NoWrite},
           waiters' \in Seq(Writes),
           held' \in [Keys -> Writes \union {NoWrite}],
           UNCHANGED deviceVars
    PROVE  TypeOK'
<1>1. UNCHANGED <<landed, register>>
  BY DEF deviceVars
<1>2. /\ outcome' \in [Writes -> Results]
      /\ result' \in [Writes -> Results]
      /\ latest' \in [Keys -> Writes \union {NoWrite}]
      /\ inFlight' \in Int
      /\ writing' \in [Keys -> Int]
      /\ changes' \in [Keys -> Int]
      /\ pending' \in BOOLEAN
  BY LeaveType
<1>3. UNCHANGED <<superseded, followers, kind, keys, order, at, sends>>
  BY LeaveType
<1> QED
  BY <1>1, <1>2, <1>3 DEF TypeOK

LEMMA LeaveLockType ==
    ASSUME TypeOK, NEW w \in Writes, NEW o \in Results, LeaveLock(w, o),
           pc' \in [Writes -> Places],
           cancelled' \subseteq Writes,
           held' \in [Keys -> Writes \union {NoWrite}]
    PROVE  TypeOK'
<1>1. /\ Leave(w, o, followers[w], o)
      /\ holder' = NoWrite
      /\ UNCHANGED waiters /\ UNCHANGED deviceVars
  BY DEF LeaveLock
<1>2. waiters' \in Seq(Writes)
  BY <1>1 DEF TypeOK
<1> QED
  BY <1>1, <1>2, LeavingType

\* The steps that leave the counters and the futures alone.
LEMMA ProgressType ==
    ASSUME TypeOK, NEW w \in Writes,
           Acquire(w) \/ DeviceTakes(w) \/ AcceptedNext(w) \/ Busy(w) \/ Resume(w)
    PROVE  TypeOK'
<1> USE DEF callVars, progressVars, futureVars, lockVars, countVars, deviceVars
<1>2. CASE Acquire(w)
  <2>1. waiters' \in Seq(Writes)
    BY <1>2 DEF Acquire, TypeOK
  <2>2. /\ pc' \in [Writes -> Places]
        /\ holder' \in Writes \union {NoWrite}
        /\ sends' \in [Writes -> Nat]
    <3>1. /\ pc \in [Writes -> Places] /\ sends \in [Writes -> Nat]
          /\ holder \in Writes \union {NoWrite}
      BY DEF TypeOK
    <3>2. \/ /\ pc' = [pc EXCEPT ![w] = "following"]
             /\ holder' = holder /\ sends' = sends
          \/ /\ pc' = [pc EXCEPT ![w] = "sending"]
             /\ holder' = w /\ sends' = [sends EXCEPT ![w] = 1]
      BY <1>2 DEF Acquire
    <3> QED
      BY <3>1, <3>2
  <2> QED
    BY <1>2, <2>1, <2>2 DEF Acquire, TypeOK
<1>3. CASE DeviceTakes(w)
  BY <1>3 DEF DeviceTakes, TypeOK
<1>4. CASE AcceptedNext(w)
  <2>1. /\ at' \in [Writes -> Nat \ {0}] /\ sends' \in [Writes -> Nat]
        /\ held' \in [Keys -> Writes \union {NoWrite}]
    <3>1. /\ at \in [Writes -> Nat \ {0}] /\ sends \in [Writes -> Nat]
          /\ held \in [Keys -> Writes \union {NoWrite}]
      BY DEF TypeOK
    <3>2. /\ at' = [at EXCEPT ![w] = at[w] + 1] /\ sends' = [sends EXCEPT ![w] = 1]
          /\ held' = [held EXCEPT ![Key(w)] = w]
      BY <1>4 DEF AcceptedNext
    <3>3. at[w] + 1 \in Nat \ {0}
      BY <3>1
    <3> QED
      BY <3>1, <3>2, <3>3
  <2> QED
    BY <1>4, <2>1 DEF AcceptedNext, TypeOK
<1>5. CASE Busy(w)
  BY <1>5 DEF Busy, TypeOK
<1>6. CASE Resume(w)
  <2>1. /\ pc' \in [Writes -> Places]
        /\ holder' \in Writes \union {NoWrite}
        /\ sends' \in [Writes -> Nat]
    <3>1. /\ pc \in [Writes -> Places] /\ sends \in [Writes -> Nat]
          /\ holder \in Writes \union {NoWrite}
      BY DEF TypeOK
    <3>2. \/ /\ pc' = [pc EXCEPT ![w] = "following"]
             /\ holder' = NoWrite /\ sends' = sends
          \/ /\ pc' = [pc EXCEPT ![w] = "sending"]
             /\ holder' = holder /\ sends' = [sends EXCEPT ![w] = sends[w] + 1]
      BY <1>6 DEF Resume
    <3> QED
      BY <3>1, <3>2
  <2> QED
    BY <1>6, <2>1 DEF Resume, TypeOK
<1> QED
  BY <1>2, <1>3, <1>4, <1>5, <1>6

\* The steps by which a write ends.
LEMMA EndingType ==
    ASSUME TypeOK, NEW w \in Writes,
           \/ Accepted(w) \/ Refused(w) \/ Raises(w) \/ Follow(w)
           \/ CancelledRaised(w)
    PROVE  TypeOK'
<1>0. /\ pc \in [Writes -> Places] /\ cancelled \subseteq Writes
      /\ held \in [Keys -> Writes \union {NoWrite}]
      /\ holder \in Writes \union {NoWrite} /\ waiters \in Seq(Writes)
      /\ result[w] \in Results
  BY DEF TypeOK
<1>1. CASE Accepted(w)
  <2>1. LeaveLock(w, "ok")
    BY <1>1 DEF Accepted
  <2>2. pc' \in [Writes -> Places]
    BY <1>0, <1>1 DEF Accepted
  <2>3. held' \in [Keys -> Writes \union {NoWrite}] /\ cancelled' \subseteq Writes
    BY <1>0, <1>1 DEF Accepted
  <2> QED
    BY <2>1, <2>2, <2>3, LeaveLockType
<1>2. CASE Refused(w)
  BY <1>0, <1>2, LeaveLockType DEF Refused
<1>3. CASE Raises(w)
  BY <1>0, <1>3, LeaveLockType DEF Raises
<1>4. CASE Follow(w)
  <2>1. Leave(w, result[w], {}, "none") /\ UNCHANGED deviceVars
    BY <1>4 DEF Follow
  <2>2. /\ pc' \in [Writes -> Places] /\ cancelled' = cancelled /\ held' = held
        /\ holder' = holder /\ waiters' = waiters
    BY <1>0, <1>4 DEF Follow, lockVars
  <2> QED
    BY <1>0, <2>1, <2>2, LeavingType
<1>5. CASE CancelledHolding(w)
  BY <1>0, <1>5, LeaveLockType DEF CancelledHolding
<1>6. CASE CancelledWaiting(w)
  <2>1. Leave(w, "cancelled", {}, "none") /\ UNCHANGED deviceVars
    BY <1>6 DEF CancelledWaiting
  <2>2. PICK i \in DOMAIN waiters : waiters' = RemoveAt(waiters, i)
    BY <1>6 DEF CancelledWaiting
  <2>3. waiters' \in Seq(Writes)
    BY <1>0, <2>2 DEF RemoveAt
  <2>4. /\ pc' \in [Writes -> Places] /\ cancelled' \subseteq Writes /\ held' = held
        /\ holder' = holder
    BY <1>0, <1>6 DEF CancelledWaiting
  <2> QED
    BY <1>0, <2>1, <2>3, <2>4, LeavingType
<1>7. CASE CancelledFollowing(w)
  <2>1. Leave(w, "cancelled", {}, "none") /\ UNCHANGED deviceVars
    BY <1>7 DEF CancelledFollowing
  <2>2. /\ pc' \in [Writes -> Places] /\ cancelled' \subseteq Writes /\ held' = held
        /\ holder' = holder /\ waiters' = waiters
    BY <1>0, <1>7 DEF CancelledFollowing, lockVars
  <2> QED
    BY <1>0, <2>1, <2>2, LeavingType
<1>8. CASE CancelledAsleep(w)
  BY <1>8 DEF CancelledAsleep, TypeOK, callVars, progressVars, futureVars, lockVars,
      countVars, deviceVars
<1> QED
  BY <1>1, <1>2, <1>3, <1>4, <1>5, <1>6, <1>7, <1>8 DEF CancelledRaised

LEMMA InitType ==
    ASSUME Init
    PROVE  TypeOK
<1>1. /\ pc \in [Writes -> Places] /\ kind \in [Writes -> {"write", "sequence"}]
      /\ outcome \in [Writes -> Results] /\ result \in [Writes -> Results]
      /\ at \in [Writes -> Nat \ {0}] /\ sends \in [Writes -> Nat]
      /\ order \in [Writes -> Nat] /\ landed \in [Writes -> Nat]
  BY DEF Init
<1>2. /\ followers \in [Writes -> SUBSET Writes] /\ superseded \in [Writes -> BOOLEAN]
      /\ latest \in [Keys -> Writes \union {NoWrite}]
      /\ register \in [Keys -> Writes \union {NoWrite}]
      /\ held \in [Keys -> Writes \union {NoWrite}]
      /\ holder \in Writes \union {NoWrite}
  BY DEF Init
<1>3. /\ keys \in [Writes -> Seq(Keys)] /\ waiters \in Seq(Writes)
  BY DEF Init
<1>4. /\ inFlight \in Int /\ writing \in [Keys -> Int] /\ changes \in [Keys -> Int]
      /\ cancelled \subseteq Writes
  BY DEF Init
<1>5. pending \in BOOLEAN
  BY Zenon DEF Init
<1> QED
  BY <1>1, <1>2, <1>3, <1>4, <1>5 DEF TypeOK

LEMMA StepType ==
    ASSUME TypeOK, [Next]_vars
    PROVE  TypeOK'
<1>1. ASSUME NEW w \in Writes, NEW k \in Keys, Write(w, k) PROVE TypeOK'
  BY <1>1, EnqueueType DEF Write
<1>2. ASSUME NEW w \in Writes, NEW ks \in Lists, WriteSequence(w, ks) PROVE TypeOK'
  BY <1>2, WriteSequenceType
<1>3. ASSUME NEW w \in Writes, Cancel(w) PROVE TypeOK'
  BY <1>3 DEF Cancel, TypeOK, callVars, progressVars, futureVars, lockVars, countVars,
      deviceVars
<1>4. ASSUME CancelPulses PROVE TypeOK'
  BY <1>4 DEF CancelPulses, Pulses, TypeOK, callVars, progressVars, futureVars, lockVars,
      countVars, deviceVars
<1>5. ASSUME NEW w \in Writes, PulseOver(w) PROVE TypeOK'
  BY <1>5, EnqueueType DEF PulseOver
<1>6. CASE UNCHANGED vars
  BY <1>6 DEF vars, TypeOK, callVars, progressVars, futureVars, lockVars, countVars,
      deviceVars
<1> QED
  BY <1>1, <1>2, <1>3, <1>4, <1>5, <1>6, ProgressType, EndingType
     DEF Next, HostCalls, Answer

\* Every variable keeps its type, for any calls, keys and sequences.
THEOREM TypeCorrect == Spec => []TypeOK
BY InitType, StepType, PTL DEF Spec

-----------------------------------------------------------------------------
(***************************************************************************)
(* One write at a time is with the device.                                 *)
(***************************************************************************)

\* A write joins the queue: it was with nobody, and gets the lock only when free.
LEMMA EnterLockAlone ==
    ASSUME TypeOK, OneAtATime, NEW w \in Writes, pc[w] \notin Holding, EnterLock(w)
    PROVE  OneAtATime'
<1>0. NoWrite \notin Writes
  BY WriteQueueAssumption DEF WriteQueueAssumption
<1>1. CASE /\ holder = NoWrite /\ holder' = w
           /\ pc' = [pc EXCEPT ![w] = "sending"]
  BY <1>0, <1>1 DEF OneAtATime, Holding, TypeOK
<1>2. CASE /\ pc' = [pc EXCEPT ![w] = "waiting"] /\ holder' = holder
  BY <1>0, <1>2 DEF OneAtATime, Holding, TypeOK
<1> QED
  BY <1>1, <1>2 DEF EnterLock

\* The holder of the lock ends: nobody is with the device then.
LEMMA LeaveLockAlone ==
    ASSUME TypeOK, OneAtATime, NEW w \in Writes, pc[w] \in Holding, holder' = NoWrite,
           \A v \in Writes \ {w} : pc'[v] \in Holding => pc[v] \in Holding,
           pc'[w] \notin Holding
    PROVE  OneAtATime'
BY WriteQueueAssumption DEF WriteQueueAssumption, OneAtATime

\* At most one write is with the device, whatever is refused, overtaken, raised or
\* cancelled (`async with self._lock`).
LEMMA StepAlone ==
    ASSUME TypeOK, OneAtATime, [Next]_vars
    PROVE  OneAtATime'
<1>0. /\ pc \in [Writes -> Places] /\ NoWrite \notin Writes
  BY WriteQueueAssumption DEF WriteQueueAssumption, TypeOK
<1>1. ASSUME NEW w \in Writes, NEW k \in Keys, Write(w, k) PROVE OneAtATime'
  BY <1>1, EnterLockAlone DEF Write, Enqueue, Holding
<1>2. ASSUME NEW w \in Writes, NEW ks \in Lists, WriteSequence(w, ks) PROVE OneAtATime'
  BY <1>2, EnterLockAlone DEF WriteSequence, Holding
<1>3. ASSUME NEW w \in Writes, PulseOver(w) PROVE OneAtATime'
  BY <1>3, EnterLockAlone DEF PulseOver, Enqueue, Holding
<1>4. ASSUME NEW w \in Writes, Acquire(w) PROVE OneAtATime'
  <2>1. /\ holder = NoWrite
        /\ \/ pc' = [pc EXCEPT ![w] = "following"] /\ holder' = holder
           \/ pc' = [pc EXCEPT ![w] = "sending"] /\ holder' = w
    BY <1>4 DEF Acquire
  <2> QED
    BY <1>0, <2>1 DEF OneAtATime, Holding
<1>5. ASSUME NEW w \in Writes, Resume(w) PROVE OneAtATime'
  <2>1. /\ pc[w] = "pausing"
        /\ \/ pc' = [pc EXCEPT ![w] = "following"] /\ holder' = NoWrite
           \/ pc' = [pc EXCEPT ![w] = "sending"] /\ holder' = holder
    BY <1>5 DEF Resume
  <2> QED
    BY <1>0, <2>1 DEF OneAtATime, Holding
<1>6. ASSUME NEW w \in Writes, Busy(w) PROVE OneAtATime'
  BY <1>0, <1>6 DEF Busy, Answerable, OneAtATime, Holding, lockVars
<1>7. ASSUME NEW w \in Writes, Accepted(w) PROVE OneAtATime'
  BY <1>0, <1>7, LeaveLockAlone DEF Accepted, Answerable, LeaveLock, Holding
<1>8. ASSUME NEW w \in Writes, Refused(w) \/ Raises(w) PROVE OneAtATime'
  BY <1>0, <1>8, LeaveLockAlone DEF Refused, Raises, Answerable, LeaveLock, Holding
<1>9. ASSUME NEW w \in Writes, CancelledHolding(w) PROVE OneAtATime'
  BY <1>0, <1>9, LeaveLockAlone DEF CancelledHolding, LeaveLock, Holding
<1>10. ASSUME NEW w \in Writes,
              Follow(w) \/ CancelledWaiting(w) \/ CancelledFollowing(w) \/ CancelledAsleep(w)
       PROVE  OneAtATime'
  <2>1. /\ pc[w] \notin Holding
        /\ pc' = [pc EXCEPT ![w] = "done"] /\ holder' = holder
    BY <1>10 DEF Follow, CancelledWaiting, CancelledFollowing, CancelledAsleep, lockVars,
        Holding
  <2> QED
    BY <1>0, <2>1 DEF OneAtATime, Holding
<1>11. ASSUME NEW w \in Writes, DeviceTakes(w) \/ AcceptedNext(w) \/ Cancel(w)
       PROVE  OneAtATime'
  BY <1>11 DEF DeviceTakes, AcceptedNext, Cancel, OneAtATime, lockVars
<1>12. ASSUME CancelPulses \/ UNCHANGED vars PROVE OneAtATime'
  BY <1>12 DEF CancelPulses, vars, OneAtATime, lockVars
<1> QED
  BY <1>1, <1>2, <1>3, <1>4, <1>5, <1>6, <1>7, <1>8, <1>9, <1>10, <1>11, <1>12
     DEF Next, HostCalls, Answer, CancelledRaised

THEOREM MutualExclusion == Spec => []OneAtATime
<1>1. Init => OneAtATime
  BY WriteQueueAssumption DEF WriteQueueAssumption, Init, OneAtATime, Holding
<1>2. TypeOK /\ OneAtATime /\ [Next]_vars => OneAtATime'
  BY StepAlone
<1> QED
  BY <1>1, <1>2, TypeCorrect, PTL DEF Spec

-----------------------------------------------------------------------------
(***************************************************************************)
(* The counters count the writes under way.  A step begins one write, ends *)
(* one, or leaves them as they are; the counters follow each.              *)
(***************************************************************************)

\* The write that returns to idle what a call pulses exists only once the call ended.
IdleAfterCall == \A w \in Writes : IsCall(w) /\ pc[w] # "done" => pc[IdleWrite(w)] = "unused"

BeginsOne ==
    \E w \in Writes : \E ks \in Seq(Keys) :
        /\ w \notin Unfinished
        /\ Unfinished' = Unfinished \union {w}
        /\ keys' = [keys EXCEPT ![w] = ks]
        /\ Begin(ks)

EndsOne ==
    \E w \in Unfinished :
        /\ Unfinished' = Unfinished \ {w}
        /\ keys' = keys
        /\ End(keys[w])

EndsNone == Unfinished' = Unfinished /\ keys' = keys /\ UNCHANGED countVars

LEMMA EnqueueBegins ==
    ASSUME TypeOK, NEW w \in Writes, NEW k \in Keys, Enqueue(w, k), w \notin Unfinished
    PROVE  BeginsOne
<1>1. /\ keys' = [keys EXCEPT ![w] = <<k>>] /\ Begin(<<k>>) /\ <<k>> \in Seq(Keys)
  BY DEF Enqueue
<1>2. \/ pc' = [pc EXCEPT ![w] = "sending"]
      \/ pc' = [pc EXCEPT ![w] = "waiting"]
  BY DEF Enqueue, EnterLock
<1>3. Unfinished' = Unfinished \union {w}
  BY <1>2 DEF Unfinished, Underway, TypeOK
<1> QED
  BY <1>1, <1>3 DEF BeginsOne

LEMMA WriteSequenceBegins ==
    ASSUME TypeOK, NEW w \in Writes, NEW ks \in Lists, WriteSequence(w, ks)
    PROVE  BeginsOne
<1>1. ks \in Seq(Keys)
  BY WriteQueueAssumption DEF WriteQueueAssumption
<1>2. keys' = [keys EXCEPT ![w] = ks] /\ Begin(ks) /\ pc[w] = "unused"
  BY DEF WriteSequence
<1>3. \/ pc' = [pc EXCEPT ![w] = "sending"]
      \/ pc' = [pc EXCEPT ![w] = "waiting"]
  BY DEF WriteSequence, EnterLock
<1>4. Unfinished' = Unfinished \union {w} /\ w \notin Unfinished
  BY <1>2, <1>3 DEF Unfinished, Underway, TypeOK
<1> QED
  BY <1>1, <1>2, <1>4 DEF BeginsOne

LEMMA LeaveEnds ==
    ASSUME TypeOK, NEW w \in Writes, NEW o, NEW told, NEW r, Leave(w, o, told, r),
           pc[w] \in Underway, pc'[w] \notin Underway,
           \A v \in Writes \ {w} : pc'[v] \in Underway <=> pc[v] \in Underway
    PROVE  EndsOne
<1>1. keys' = keys /\ End(keys[w])
  BY DEF Leave, callVars
<1>2. w \in Unfinished /\ Unfinished' = Unfinished \ {w}
  BY DEF Unfinished
<1> QED
  BY <1>1, <1>2 DEF EndsOne

\* Every step begins one write, ends one, or neither.
LEMMA StepShape ==
    ASSUME TypeOK, IdleAfterCall, [Next]_vars
    PROVE  BeginsOne \/ EndsOne \/ EndsNone
<1>0. pc \in [Writes -> Places]
  BY DEF TypeOK
<1>1. ASSUME NEW w \in Writes, NEW k \in Keys, Write(w, k) PROVE BeginsOne
  BY <1>1, EnqueueBegins DEF Write, Unfinished, Underway
<1>2. ASSUME NEW w \in Writes, NEW ks \in Lists, WriteSequence(w, ks) PROVE BeginsOne
  BY <1>2, WriteSequenceBegins
<1>3. ASSUME NEW w \in Writes, PulseOver(w) PROVE BeginsOne
  BY <1>3, EnqueueBegins DEF PulseOver, Unfinished, Underway
<1>4. ASSUME NEW w \in Writes, Accepted(w) PROVE EndsOne
  <2>1. pc[w] = "sending" /\ Leave(w, "ok", followers[w], "ok")
    BY <1>4 DEF Accepted, Answerable, LeaveLock
  <2>2. pc'[w] = "done"
    BY <1>4 DEF Accepted
  <2>3. ASSUME NEW v \in Writes \ {w} PROVE pc'[v] \in Underway <=> pc[v] \in Underway
    <3>1. CASE v = IdleWrite(w) /\ StartsPulse(w)
      <4>1. pc[v] = "unused"
        BY <2>1, <3>1 DEF IdleAfterCall, StartsPulse
      <4>2. pc'[v] = "asleep"
        BY <1>4, <3>1 DEF Accepted
      <4> QED
        BY <4>1, <4>2 DEF Underway
    <3>2. CASE ~(v = IdleWrite(w) /\ StartsPulse(w))
      BY <1>4, <3>2 DEF Accepted
    <3> QED
      BY <3>1, <3>2
  <2>4. pc[w] \in Underway /\ pc'[w] \notin Underway
    BY <2>1, <2>2 DEF Underway
  <2> QED
    BY <2>1, <2>3, <2>4, LeaveEnds
<1>5. ASSUME NEW w \in Writes, Refused(w) \/ Raises(w) \/ CancelledHolding(w) PROVE EndsOne
  <2>1. /\ pc[w] \in Underway /\ pc' = [pc EXCEPT ![w] = "done"]
        /\ \E o : Leave(w, o, followers[w], o)
    BY <1>5 DEF Refused, Raises, CancelledHolding, Answerable, LeaveLock, Underway, Holding
  <2> QED
    BY <1>0, <2>1, LeaveEnds DEF Underway
<1>6. ASSUME NEW w \in Writes, Follow(w) \/ CancelledWaiting(w) \/ CancelledFollowing(w)
      PROVE  EndsOne
  <2>1. /\ pc[w] \in Underway /\ pc' = [pc EXCEPT ![w] = "done"]
        /\ \E o : Leave(w, o, {}, "none")
    BY <1>6 DEF Follow, CancelledWaiting, CancelledFollowing, Underway
  <2> QED
    BY <1>0, <2>1, LeaveEnds DEF Underway
<1>7. ASSUME NEW w \in Writes, Acquire(w) PROVE EndsNone
  <2>1. /\ pc[w] = "waiting"
        /\ pc' = [pc EXCEPT ![w] = "following"] \/ pc' = [pc EXCEPT ![w] = "sending"]
        /\ keys' = keys /\ UNCHANGED countVars
    BY <1>7 DEF Acquire, callVars
  <2> QED
    BY <1>0, <2>1 DEF EndsNone, Unfinished, Underway
<1>8. ASSUME NEW w \in Writes, Resume(w) PROVE EndsNone
  <2>1. /\ pc[w] = "pausing"
        /\ pc' = [pc EXCEPT ![w] = "following"] \/ pc' = [pc EXCEPT ![w] = "sending"]
        /\ keys' = keys /\ UNCHANGED countVars
    BY <1>8 DEF Resume, callVars
  <2> QED
    BY <1>0, <2>1 DEF EndsNone, Unfinished, Underway
<1>9. ASSUME NEW w \in Writes, Busy(w) PROVE EndsNone
  <2>1. /\ pc[w] = "sending" /\ pc' = [pc EXCEPT ![w] = "pausing"]
        /\ keys' = keys /\ UNCHANGED countVars
    BY <1>9 DEF Busy, Answerable, callVars
  <2> QED
    BY <1>0, <2>1 DEF EndsNone, Unfinished, Underway
<1>10. ASSUME NEW w \in Writes, CancelledAsleep(w) PROVE EndsNone
  <2>1. /\ pc[w] = "asleep" /\ pc' = [pc EXCEPT ![w] = "done"]
        /\ keys' = keys /\ UNCHANGED countVars
    BY <1>10 DEF CancelledAsleep, callVars
  <2> QED
    BY <1>0, <2>1 DEF EndsNone, Unfinished, Underway
<1>11. ASSUME NEW w \in Writes, DeviceTakes(w) \/ AcceptedNext(w) \/ Cancel(w) PROVE EndsNone
  BY <1>11 DEF DeviceTakes, AcceptedNext, Cancel, EndsNone, Unfinished, callVars
<1>12. ASSUME CancelPulses \/ UNCHANGED vars PROVE EndsNone
  BY <1>12 DEF CancelPulses, vars, EndsNone, Unfinished, callVars
<1> QED
  BY <1>1, <1>2, <1>3, <1>4, <1>5, <1>6, <1>7, <1>8, <1>9, <1>10, <1>11, <1>12
     DEF Next, HostCalls, Answer, CancelledRaised

LEMMA IdleWriteOf ==
    ASSUME NEW w \in Writes, NEW v \in Writes, IsCall(w), IsCall(v)
    PROVE  /\ IdleWrite(w) \in Writes
           /\ ~IsCall(IdleWrite(w))
           /\ IdleWrite(v) = IdleWrite(w) => v = w
BY DEF Writes, IsCall, IdleWrite

\* A write in its code moves on: no call gets its idle write early.
LEMMA MoveIdleAfterCall ==
    ASSUME TypeOK, IdleAfterCall, NEW w \in Writes, NEW p, pc' = [pc EXCEPT ![w] = p],
           pc[w] # "done", IsCall(w) \/ pc[w] # "unused"
    PROVE  IdleAfterCall'
<1>0. pc \in [Writes -> Places]
  BY DEF TypeOK
<1>1. SUFFICES ASSUME NEW v \in Writes, IsCall(v), pc'[v] # "done"
               PROVE  pc'[IdleWrite(v)] = "unused"
  BY DEF IdleAfterCall
<1>2. IdleWrite(v) \in Writes /\ ~IsCall(IdleWrite(v))
  BY <1>1, IdleWriteOf
<1>3. pc[v] # "done"
  BY <1>0, <1>1
<1>4. pc[IdleWrite(v)] = "unused"
  BY <1>1, <1>3 DEF IdleAfterCall
<1>5. w # IdleWrite(v)
  BY <1>2, <1>4
<1> QED
  BY <1>0, <1>2, <1>4, <1>5

LEMMA StepIdleAfterCall ==
    ASSUME TypeOK, IdleAfterCall, [Next]_vars
    PROVE  IdleAfterCall'
<1>0. pc \in [Writes -> Places]
  BY DEF TypeOK
<1>1. ASSUME NEW w \in Writes, NEW k \in Keys, Write(w, k) PROVE IdleAfterCall'
  <2>1. /\ \E p : pc' = [pc EXCEPT ![w] = p]
        /\ pc[w] = "unused" /\ IsCall(w)
    BY <1>1 DEF Write, Enqueue, EnterLock
  <2> QED
    BY <2>1, MoveIdleAfterCall
<1>2. ASSUME NEW w \in Writes, NEW ks \in Lists, WriteSequence(w, ks) PROVE IdleAfterCall'
  <2>1. /\ \E p : pc' = [pc EXCEPT ![w] = p]
        /\ pc[w] = "unused" /\ IsCall(w)
    BY <1>2 DEF WriteSequence, EnterLock
  <2> QED
    BY <2>1, MoveIdleAfterCall
<1>3. ASSUME NEW w \in Writes, PulseOver(w) PROVE IdleAfterCall'
  <2>1. /\ \E p : pc' = [pc EXCEPT ![w] = p]
        /\ pc[w] = "asleep"
    BY <1>3 DEF PulseOver, Enqueue, EnterLock
  <2> QED
    BY <2>1, MoveIdleAfterCall
<1>4. ASSUME NEW w \in Writes, Accepted(w) PROVE IdleAfterCall'
  <2>1. SUFFICES ASSUME NEW v \in Writes, IsCall(v), pc'[v] # "done"
                 PROVE  pc'[IdleWrite(v)] = "unused"
    BY DEF IdleAfterCall
  <2>2. pc[w] = "sending" /\ pc'[w] = "done"
    BY <1>4 DEF Accepted, Answerable
  <2>3. IdleWrite(v) \in Writes /\ ~IsCall(IdleWrite(v)) /\ v # w
    BY <2>1, <2>2, IdleWriteOf
  <2>4. ~(v = IdleWrite(w) /\ StartsPulse(w))
    BY <2>1, IdleWriteOf DEF StartsPulse
  <2>5. pc[IdleWrite(v)] = "unused"
    BY <1>4, <2>1, <2>3, <2>4 DEF Accepted, IdleAfterCall
  <2>6. IdleWrite(v) # w
    BY <2>2, <2>5
  <2>7. ~(IdleWrite(v) = IdleWrite(w) /\ StartsPulse(w))
    BY <2>1, <2>3, IdleWriteOf DEF StartsPulse
  <2> QED
    BY <1>4, <2>3, <2>5, <2>6, <2>7 DEF Accepted
<1>5. ASSUME NEW w \in Writes,
             \/ Refused(w) \/ Raises(w) \/ CancelledHolding(w)
             \/ Follow(w) \/ CancelledWaiting(w) \/ CancelledFollowing(w) \/ CancelledAsleep(w)
             \/ Acquire(w) \/ Resume(w) \/ Busy(w)
      PROVE  IdleAfterCall'
  <2>1. /\ \E p : pc' = [pc EXCEPT ![w] = p]
        /\ pc[w] \in Underway \union {"asleep"}
    BY <1>5 DEF Refused, Raises, CancelledHolding, Follow, CancelledWaiting,
                CancelledFollowing, CancelledAsleep, Acquire, Resume, Busy, Answerable,
                Underway, Holding
  <2> QED
    BY <2>1, MoveIdleAfterCall DEF Underway
<1>6. ASSUME NEW w \in Writes, DeviceTakes(w) \/ AcceptedNext(w) \/ Cancel(w)
      PROVE  IdleAfterCall'
  BY <1>6 DEF DeviceTakes, AcceptedNext, Cancel, IdleAfterCall
<1>7. ASSUME CancelPulses \/ UNCHANGED vars PROVE IdleAfterCall'
  BY <1>7 DEF CancelPulses, vars, IdleAfterCall
<1> QED
  BY <1>1, <1>2, <1>3, <1>4, <1>5, <1>6, <1>7 DEF Next, HostCalls, Answer, CancelledRaised

\* The inductive invariant: what the library says of Cardinality needs finite sets.
CountsInv ==
    /\ IdleAfterCall
    /\ Accounting
    /\ \A k \in Keys : IsFiniteSet(WritingPlaces(k))

PlacesOf(w, ks, k) == {w} \X {i \in DOMAIN ks : ks[i] = k}

LEMMA UnfinishedFinite == IsFiniteSet(Unfinished) /\ IsFiniteSet(Unfinished')
<1>1. IsFiniteSet({"call", "idle"})
  <2>1. IsFiniteSet({"call"})
    BY FS_Singleton
  <2>2. IsFiniteSet({"call"} \union {"idle"})
    BY <2>1, FS_AddElement
  <2>3. {"call", "idle"} = {"call"} \union {"idle"}
    OBVIOUS
  <2> QED
    BY <2>2, <2>3
<1>2. IsFiniteSet(Writes)
  BY <1>1, FS_Product, WriteQueueAssumption DEF Writes, WriteQueueAssumption
<1> QED
  BY <1>2, FS_Subset DEF Unfinished

\* A write's own places are as many as the key occurs in what it writes.
LEMMA PlacesOfOne ==
    ASSUME NEW w, NEW ks \in Seq(Keys), NEW k
    PROVE  /\ IsFiniteSet(PlacesOf(w, ks, k))
           /\ Cardinality(PlacesOf(w, ks, k)) = Occurrences(ks, k)
           /\ Occurrences(ks, k) \in Nat
<1> DEFINE P == {i \in DOMAIN ks : ks[i] = k}
<1>1. IsFiniteSet(1 .. Len(ks)) /\ DOMAIN ks = 1 .. Len(ks)
  BY FS_Interval
<1>2. IsFiniteSet(P)
  BY <1>1, FS_Subset
<1>3. Cardinality(P) \in Nat
  BY <1>2, FS_CardinalityType
<1>4. IsFiniteSet({w}) /\ Cardinality({w}) = 1
  BY FS_Singleton
<1>5. IsFiniteSet({w} \X P) /\ Cardinality({w} \X P) = Cardinality({w}) * Cardinality(P)
  BY <1>2, <1>4, FS_Product
<1>6. Cardinality({w}) * Cardinality(P) = Cardinality(P)
  BY <1>3, <1>4
<1> QED
  BY <1>3, <1>5, <1>6 DEF PlacesOf, Occurrences

\* Places that come and go count for as many as they are.
LEMMA MorePlaces ==
    ASSUME NEW A, NEW P, IsFiniteSet(A), IsFiniteSet(P), A \intersect P = {}
    PROVE  /\ IsFiniteSet(A \union P)
           /\ Cardinality(A \union P) = Cardinality(A) + Cardinality(P)
<1>1. Cardinality(A \intersect P) = 0
  BY FS_EmptySet
<1>2. /\ IsFiniteSet(A \union P)
      /\ Cardinality(A \union P) =
            Cardinality(A) + Cardinality(P) - Cardinality(A \intersect P)
  BY FS_Union
<1>3. Cardinality(A) \in Nat /\ Cardinality(P) \in Nat
  BY FS_CardinalityType
<1> QED
  BY <1>1, <1>2, <1>3

LEMMA FewerPlaces ==
    ASSUME NEW A, NEW P, IsFiniteSet(A), P \subseteq A
    PROVE  /\ IsFiniteSet(A \ P)
           /\ Cardinality(A \ P) = Cardinality(A) - Cardinality(P)
<1>1. A \intersect P = P
  OBVIOUS
<1> QED
  BY <1>1, FS_Difference

LEMMA BeginsCounted ==
    ASSUME TypeOK, CountsInv, BeginsOne
    PROVE  Accounting' /\ \A k \in Keys : IsFiniteSet(WritingPlaces(k))'
<1>1. PICK w \in Writes, ks \in Seq(Keys) :
        /\ w \notin Unfinished
        /\ Unfinished' = Unfinished \union {w}
        /\ keys' = [keys EXCEPT ![w] = ks]
        /\ Begin(ks)
  BY DEF BeginsOne
<1>2. CountedInFlight'
  <2>1. Cardinality(Unfinished') = Cardinality(Unfinished) + 1
    BY <1>1, UnfinishedFinite, FS_AddElement
  <2>2. inFlight = Cardinality(Unfinished) /\ inFlight' = inFlight + 1
    BY <1>1 DEF CountsInv, Accounting, CountedInFlight, Begin
  <2>3. CASE Unfinished = {}
    <3>1. inFlight' = 1
      BY <2>2, <2>3, FS_EmptySet
    <3>2. pending'
      BY <1>1, <3>1 DEF Begin
    <3> QED
      BY <1>1, <2>1, <2>2, <3>2 DEF CountedInFlight
  <2>4. CASE Unfinished # {}
    <3>1. pending
      BY <2>4 DEF CountsInv, Accounting, CountedInFlight
    <3>2. pending'
      BY <1>1, <3>1 DEF Begin
    <3> QED
      BY <1>1, <2>1, <2>2, <3>2 DEF CountedInFlight
  <2> QED
    BY <2>3, <2>4
<1>3. ASSUME NEW k \in Keys
      PROVE  /\ IsFiniteSet(WritingPlaces(k)')
             /\ writing'[k] = Cardinality(WritingPlaces(k)')
  <2>0. keys \in [Writes -> Seq(Keys)] /\ Unfinished \subseteq Writes
    BY DEF TypeOK, Unfinished
  <2>1. WritingPlaces(k)' = WritingPlaces(k) \union PlacesOf(w, ks, k)
    BY <1>1, <2>0 DEF WritingPlaces, PlacesOf
  <2>2. WritingPlaces(k) \intersect PlacesOf(w, ks, k) = {}
    BY <1>1 DEF WritingPlaces, PlacesOf
  <2>3. /\ IsFiniteSet(WritingPlaces(k))
        /\ writing[k] = Cardinality(WritingPlaces(k))
    BY DEF CountsInv, Accounting, CountedByKey
  <2>4. /\ IsFiniteSet(PlacesOf(w, ks, k))
        /\ Cardinality(PlacesOf(w, ks, k)) = Occurrences(ks, k)
    BY PlacesOfOne
  <2>5. /\ IsFiniteSet(WritingPlaces(k)')
        /\ Cardinality(WritingPlaces(k)') = Cardinality(WritingPlaces(k)) + Occurrences(ks, k)
    <3>1. /\ IsFiniteSet(WritingPlaces(k) \union PlacesOf(w, ks, k))
          /\ Cardinality(WritingPlaces(k) \union PlacesOf(w, ks, k))
                = Cardinality(WritingPlaces(k)) + Cardinality(PlacesOf(w, ks, k))
      BY <2>2, <2>3, <2>4, MorePlaces
    <3> QED
      BY <2>1, <2>4, <3>1
  <2>6. writing'[k] = writing[k] + Occurrences(ks, k)
    BY <1>1 DEF Begin
  <2> QED
    BY <2>3, <2>5, <2>6
<1> QED
  BY <1>2, <1>3 DEF Accounting, CountedByKey

LEMMA EndsCounted ==
    ASSUME TypeOK, CountsInv, EndsOne
    PROVE  Accounting' /\ \A k \in Keys : IsFiniteSet(WritingPlaces(k))'
<1>1. PICK w \in Unfinished :
        Unfinished' = Unfinished \ {w} /\ keys' = keys /\ End(keys[w])
  BY DEF EndsOne
<1>2. CountedInFlight'
  <2>1. Cardinality(Unfinished') = Cardinality(Unfinished) - 1
    BY <1>1, UnfinishedFinite, FS_RemoveElement
  <2>2. inFlight' = Cardinality(Unfinished')
    BY <1>1, <2>1 DEF CountsInv, Accounting, CountedInFlight, End
  <2>3. inFlight' # 0 <=> Unfinished' # {}
    BY <2>2, UnfinishedFinite, FS_EmptySet
  <2>4. pending
    BY <1>1 DEF CountsInv, Accounting, CountedInFlight
  <2>5. pending' <=> Unfinished' # {}
    BY <1>1, <2>3, <2>4 DEF End
  <2> QED
    BY <2>2, <2>5 DEF CountedInFlight
<1>3. ASSUME NEW k \in Keys
      PROVE  /\ IsFiniteSet(WritingPlaces(k)')
             /\ writing'[k] = Cardinality(WritingPlaces(k)')
  <2>0. keys[w] \in Seq(Keys)
    BY <1>1 DEF TypeOK, Unfinished
  <2>1. WritingPlaces(k)' = WritingPlaces(k) \ PlacesOf(w, keys[w], k)
    BY <1>1 DEF WritingPlaces, PlacesOf
  <2>2. PlacesOf(w, keys[w], k) \subseteq WritingPlaces(k)
    BY <1>1 DEF WritingPlaces, PlacesOf
  <2>3. /\ IsFiniteSet(WritingPlaces(k))
        /\ writing[k] = Cardinality(WritingPlaces(k))
    BY DEF CountsInv, Accounting, CountedByKey
  <2>4. Cardinality(PlacesOf(w, keys[w], k)) = Occurrences(keys[w], k)
    BY <2>0, PlacesOfOne
  <2>5. /\ IsFiniteSet(WritingPlaces(k)')
        /\ Cardinality(WritingPlaces(k)') =
             Cardinality(WritingPlaces(k)) - Occurrences(keys[w], k)
    BY <2>1, <2>2, <2>3, <2>4, FewerPlaces
  <2>6. writing'[k] = writing[k] - Occurrences(keys[w], k)
    BY <1>1 DEF End
  <2> QED
    BY <2>3, <2>5, <2>6
<1> QED
  BY <1>2, <1>3 DEF Accounting, CountedByKey

LEMMA StepCounted ==
    ASSUME TypeOK, CountsInv, [Next]_vars
    PROVE  CountsInv'
<1>1. IdleAfterCall'
  BY StepIdleAfterCall DEF CountsInv
<1>2. Accounting' /\ \A k \in Keys : IsFiniteSet(WritingPlaces(k))'
  <2>1. CASE BeginsOne
    BY <2>1, BeginsCounted
  <2>2. CASE EndsOne
    BY <2>2, EndsCounted
  <2>3. CASE EndsNone
    BY <2>3 DEF EndsNone, CountsInv, Accounting, CountedInFlight, CountedByKey,
                WritingPlaces, countVars
  <2> QED
    BY <2>1, <2>2, <2>3, StepShape DEF CountsInv
<1> QED
  BY <1>1, <1>2 DEF CountsInv

LEMMA InitCounts == Init => CountsInv
<1>1. ASSUME Init PROVE Unfinished = {}
  BY <1>1 DEF Init, Unfinished, Underway
<1>2. ASSUME Init PROVE CountedInFlight
  BY <1>1, <1>2, FS_EmptySet DEF Init, CountedInFlight
<1>3. ASSUME Init, NEW k \in Keys PROVE WritingPlaces(k) = {} /\ writing[k] = 0
  BY <1>1, <1>3 DEF Init, WritingPlaces
<1>4. ASSUME Init PROVE IdleAfterCall
  BY <1>4, IdleWriteOf DEF Init, IdleAfterCall
<1> QED
  BY <1>2, <1>3, <1>4, FS_EmptySet DEF CountsInv, Accounting, CountedByKey

\* WRITE_PENDING and the per-key counts are those of the writes under way, whatever
\* is refused, overtaken, raised or cancelled, for any calls, keys and sequences.
THEOREM AccountingCorrect == Spec => []Accounting
<1>1. Init => CountsInv
  BY InitCounts
<1>2. TypeOK /\ CountsInv /\ [Next]_vars => CountsInv'
  BY StepCounted
<1>3. CountsInv => Accounting
  BY DEF CountsInv
<1> QED
  BY <1>1, <1>2, <1>3, TypeCorrect, PTL DEF Spec
=============================================================================
