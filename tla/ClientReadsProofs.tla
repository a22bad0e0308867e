------------------------- MODULE ClientReadsProofs -------------------------
(***************************************************************************)
(* What a client that polls while it writes shows, for any keys, calls and *)
(* sequences: on top of what is proved of its write queue.                 *)
(***************************************************************************)
EXTENDS ClientReads, WriteOrderProofs

\* What the device holds is of a write it took. A write is told of while it is still
\* being sent only if it is a sequence, and the device holds its value until it ends.
RegisterInv ==
    /\ changes \in [Keys -> Nat]
    /\ \A k \in Keys : register[k] \in Writes => landed[register[k]] > 0
    /\ \A k \in Keys : \A w \in Writes : held[k] = w => pc[w] \in Holding \union {"done"}
    /\ \A k \in Keys : \A w \in Writes :
            held[k] = w /\ pc[w] \in Holding => register[k] = w /\ kind[w] = "sequence"

\* What is shown is not newer than what the device holds; what was read of a key that no
\* write has touched since the marks were taken is what the device still holds.
ShownInv ==
    /\ \A k \in Keys : values[k] \in Writes => order[values[k]] # 0
    /\ \A k \in Keys : Age(values[k]) <= Age(register[k])
    /\ reading = "due" =>
          \A k \in asked :
            /\ marks[k] <= changes[k]
            /\ changes[k] = marks[k] =>
                  writing[k] = 0 /\ answers[k] \in {None, Failed, register[k]}

-----------------------------------------------------------------------------
(***************************************************************************)
(* What the queue's steps do to the device, seen from the client.          *)
(***************************************************************************)
LEMMA WrittenIsCounted ==
    ASSUME TypeOK, QueueInv, NEW w \in Writes, pc[w] \in Underway
    PROVE  writing[Key(w)] # 0
<1>1. at[w] \in DOMAIN keys[w] /\ Key(w) \in Keys /\ w \in Unfinished
  BY KeyIs DEF QueueInv, Unfinished
<1>2. <<w, at[w]>> \in WritingPlaces(Key(w))
  BY <1>1 DEF WritingPlaces, Key
<1>3. /\ IsFiniteSet(WritingPlaces(Key(w)))
      /\ writing[Key(w)] = Cardinality(WritingPlaces(Key(w)))
  BY <1>1 DEF QueueInv, CountsInv, Accounting, CountedByKey
<1> QED
  BY <1>2, <1>3, FS_EmptySet

\* The counters of a key stand still only while nobody begins or ends a write to it.
LEMMA CountersMove ==
    ASSUME TypeOK, QueueInv, [Next]_vars, NEW k \in Keys
    PROVE  \E n \in Nat :
              /\ changes'[k] = changes[k] + n
              /\ writing'[k] = writing[k] + n \/ writing'[k] = writing[k] - n
<1>0. changes \in [Keys -> Int] /\ writing \in [Keys -> Int] /\ keys \in [Writes -> Seq(Keys)]
  BY DEF TypeOK
<1>1. CASE BeginsOne
  <2>1. PICK ks \in Seq(Keys) : Begin(ks)
    BY <1>1 DEF BeginsOne
  <2> QED
    BY <1>0, <2>1, OccurrencesType DEF Begin
<1>2. CASE EndsOne
  <2>1. PICK ks \in Seq(Keys) : End(ks)
    BY <1>0, <1>2 DEF EndsOne, Unfinished
  <2> QED
    BY <1>0, <2>1, OccurrencesType DEF End
<1>3. CASE EndsNone
  <2>1. changes'[k] = changes[k] + 0 /\ writing'[k] = writing[k] + 0
    BY <1>0, <1>3 DEF EndsNone, countVars
  <2> QED
    BY <2>1
<1> QED
  BY <1>1, <1>2, <1>3, StepShape DEF QueueInv, CountsInv

\* What a step may do to what the device holds, and to what the client is told of it.
LEMMA DeviceMoves ==
    ASSUME TypeOK, QueueInv, [Next]_vars
    PROVE  \/ UNCHANGED <<register, held, landed>>
           \/ \E w \in Writes :
                /\ pc[w] = "sending" /\ pc' = pc /\ order' = order
                /\ Key(w) \in Keys /\ landed[w] < at[w]
                /\ landed' = [landed EXCEPT ![w] = at[w]]
                /\ register' = [register EXCEPT ![Key(w)] = w]
                /\ held' = held
           \/ \E w \in Writes :
                /\ pc[w] \in Holding /\ pc'[w] \in Holding \union {"done"}
                /\ pc'[w] \in Holding => kind[w] = "sequence"
                /\ Key(w) \in Keys /\ register[Key(w)] = w
                /\ held' = [held EXCEPT ![Key(w)] = w]
                /\ UNCHANGED <<register, landed>>
<1> USE DEF Holding
<1>0. ProgressInv /\ KnownInv /\ IdleAfterCall
  BY DEF QueueInv, CountsInv
<1>1. ASSUME NEW w \in Writes, NEW kd, NEW ks, Joins(w, kd, ks)
      PROVE  UNCHANGED <<register, held, landed>>
  BY <1>1 DEF Joins
<1>2. ASSUME NEW w \in Writes, NEW o, NEW told, NEW r, Finishes(w, o, told, r),
             held' # held
      PROVE  /\ pc[w] \in Holding /\ pc'[w] = "done"
             /\ Key(w) \in Keys /\ register[Key(w)] = w
             /\ held' = [held EXCEPT ![Key(w)] = w]
             /\ UNCHANGED <<register, landed>>
  <2>1. /\ pc[w] \in Holding /\ landed[w] = at[w] /\ pc'[w] = "done"
        /\ held' = [held EXCEPT ![Key(w)] = w]
        /\ UNCHANGED <<register, landed>>
    BY <1>2 DEF Finishes
  <2> QED
    BY <1>0, <2>1, KeyIs DEF KnownInv, Underway
<1>3. ASSUME NEW w \in Writes, DeviceTakes(w)
      PROVE  /\ pc[w] = "sending" /\ pc' = pc /\ order' = order
             /\ Key(w) \in Keys /\ landed[w] < at[w]
             /\ landed' = [landed EXCEPT ![w] = at[w]]
             /\ register' = [register EXCEPT ![Key(w)] = w]
             /\ held' = held
  BY <1>0, <1>3, KeyIs DEF DeviceTakes, Underway, callVars
<1>4. ASSUME NEW w \in Writes, AcceptedNext(w)
      PROVE  /\ pc[w] \in Holding /\ pc'[w] \in Holding /\ kind[w] = "sequence"
             /\ Key(w) \in Keys /\ register[Key(w)] = w
             /\ held' = [held EXCEPT ![Key(w)] = w]
             /\ UNCHANGED <<register, landed>>
  <2>1. /\ pc[w] = "sending" /\ pc' = pc /\ landed[w] = at[w] /\ at[w] < Len(keys[w])
        /\ held' = [held EXCEPT ![Key(w)] = w]
        /\ UNCHANGED <<register, landed>>
    BY <1>4 DEF AcceptedNext, Answerable, deviceVars
  <2>2. kind[w] = "sequence"
    <3>1. kind[w] \in {"write", "sequence"} /\ at[w] \in Nat \ {0}
      BY DEF TypeOK
    <3>2. kind[w] = "write" => Len(keys[w]) = 1
      BY <1>0, <2>1 DEF ProgressInv, Underway
    <3>3. ~(Len(keys[w]) <= 1)
      BY <2>1, <3>1
    <3>4. Len(keys[w]) = 1 => Len(keys[w]) <= 1
      OBVIOUS
    <3> QED
      BY <3>1, <3>2, <3>3, <3>4, Zenon
  <2> QED
    BY <1>0, <2>1, <2>2, KeyIs DEF KnownInv, Underway
<1>5. ASSUME \/ Rests
             \/ \E w \in Writes : Acquire(w) \/ Busy(w) \/ Resume(w) \/ CancelledAsleep(w)
      PROVE  UNCHANGED <<register, held, landed>>
  BY <1>5 DEF Rests, Acquire, Busy, Resume, CancelledAsleep, deviceVars
<1>6. ASSUME NEW w \in Writes, NEW o, NEW told, NEW r, Finishes(w, o, told, r)
      PROVE  UNCHANGED <<register, landed>>
  BY <1>6 DEF Finishes
<1> QED
  BY <1>0, <1>1, <1>2, <1>3, <1>4, <1>5, <1>6, StepKinds

\* Where a write may go from where it is.
LEMMA PlacesMove ==
    ASSUME TypeOK, QueueInv, [Next]_vars, NEW w \in Writes
    PROVE  /\ pc[w] = "done" => pc'[w] = "done"
           /\ pc[w] \in Holding =>
                \/ pc'[w] \in Holding \union {"done"}
                \/ pc'[w] = "following" /\ kind[w] = "write"
<1> USE DEF Holding, Underway
<1>0. /\ ProgressInv /\ IdleAfterCall /\ pc \in [Writes -> Places]
  BY DEF TypeOK, QueueInv, CountsInv
<1>1. ASSUME NEW v \in Writes, NEW kd, NEW ks, Joins(v, kd, ks)
      PROVE  pc'[w] = pc[w] \/ pc[w] \in {"unused", "asleep"}
  <2>1. pc[v] \in {"unused", "asleep"}
    BY <1>1 DEF Joins
  <2>2. w # v => pc'[w] = pc[w]
    BY <1>0, <1>1, JoinsFacts
  <2> QED
    BY <2>1, <2>2
<1>2. ASSUME NEW v \in Writes, NEW o, NEW told, NEW r, Finishes(v, o, told, r)
      PROVE  \/ pc'[w] = pc[w]
             \/ pc[w] = "unused"
             \/ pc'[w] = "done"
  <2>1. /\ pc'[v] = "done"
        /\ w # v => pc'[w] = pc[w] \/ pc[w] = "unused"
    BY <1>2 DEF Finishes
  <2> QED
    BY <2>1
<1>3. ASSUME NEW v \in Writes, Acquire(v) \/ Busy(v) \/ CancelledAsleep(v)
      PROVE  \/ pc'[w] = pc[w]
             \/ pc[w] \in {"waiting", "asleep"}
             \/ pc[w] = "sending" /\ pc'[w] = "pausing"
  <2>1. \/ pc[v] \in {"waiting", "asleep"} /\ \E p : pc' = [pc EXCEPT ![v] = p]
        \/ pc[v] = "sending" /\ pc' = [pc EXCEPT ![v] = "pausing"]
    BY <1>3 DEF Acquire, Busy, CancelledAsleep, Answerable
  <2> QED
    BY <1>0, <2>1
<1>4. ASSUME NEW v \in Writes, Resume(v)
      PROVE  \/ pc'[w] = pc[w]
             \/ pc[w] = "pausing" /\ pc'[w] = "sending"
             \/ pc[w] = "pausing" /\ pc'[w] = "following" /\ superseded[w]
  <2>1. /\ pc[v] = "pausing"
        /\ \/ pc' = [pc EXCEPT ![v] = "sending"]
           \/ superseded[v] /\ pc' = [pc EXCEPT ![v] = "following"]
    BY <1>4 DEF Resume
  <2> QED
    BY <1>0, <2>1
<1>5. ASSUME Rests \/ \E v \in Writes : DeviceTakes(v) \/ AcceptedNext(v)
      PROVE  pc'[w] = pc[w]
  BY <1>5 DEF Rests, DeviceTakes, AcceptedNext
<1>6. \/ pc'[w] = pc[w]
      \/ pc[w] \in {"unused", "asleep", "waiting"}
      \/ pc'[w] = "done"
      \/ pc[w] = "sending" /\ pc'[w] = "pausing"
      \/ pc[w] = "pausing" /\ pc'[w] = "sending"
      \/ pc[w] = "pausing" /\ pc'[w] = "following" /\ superseded[w]
  BY <1>0, <1>1, <1>2, <1>3, <1>4, <1>5, StepKinds
<1>7. superseded[w] => kind[w] = "write"
  BY DEF QueueInv, FollowInv
<1> QED
  BY <1>0, <1>6, <1>7

-----------------------------------------------------------------------------
(***************************************************************************)
(* The device and what the client was told, over the queue's steps.        *)
(***************************************************************************)
\* A write of one value is not told of before it ends; a sequence still being sent is
\* the only write with the device.
LEMMA StepRegister ==
    ASSUME TypeOK, QueueInv, RegisterInv, [Next]_vars
    PROVE  RegisterInv'
<1>0. /\ pc \in [Writes -> Places] /\ landed \in [Writes -> Nat] /\ at \in [Writes -> Nat \ {0}]
      /\ register \in [Keys -> Writes \union {NoWrite}]
      /\ held \in [Keys -> Writes \union {NoWrite}]
      /\ NoWrite \notin Writes /\ OneAtATime
  BY WriteQueueAssumption DEF TypeOK, WriteQueueAssumption, QueueInv
<1>1. \A w \in Writes : order[w] # 0 => kind'[w] = kind[w]
  BY StepKeeps DEF Keeps, QueueInv, CountsInv
<1>2. \A w \in Writes : pc[w] \in Holding => kind'[w] = kind[w]
  BY <1>1 DEF QueueInv, ProgressInv, Holding, Underway
<1>3. changes' \in [Keys -> Nat]
  <2>1. changes' \in [Keys -> Int]
    BY StepType DEF TypeOK
  <2>2. ASSUME NEW k \in Keys PROVE changes'[k] \in Nat
    BY CountersMove DEF RegisterInv
  <2> QED
    BY <2>1, <2>2
<1>4. CASE UNCHANGED <<register, held, landed>>
  <2>1. ASSUME NEW k \in Keys, NEW w \in Writes, held[k] = w
        PROVE  /\ pc'[w] \in Holding \union {"done"}
               /\ pc'[w] \in Holding => register[k] = w /\ kind'[w] = "sequence"
    <3>1. CASE pc[w] = "done"
      BY <3>1, PlacesMove DEF Holding
    <3>2. CASE pc[w] \in Holding
      <4>1. register[k] = w /\ kind[w] = "sequence"
        BY <2>1, <3>2 DEF RegisterInv
      <4> QED
        BY <1>2, <3>2, <4>1, PlacesMove
    <3> QED
      BY <2>1, <3>1, <3>2 DEF RegisterInv
  <2> QED
    BY <1>3, <1>4, <2>1 DEF RegisterInv
<1>5. ASSUME NEW w \in Writes,
             pc[w] = "sending", pc' = pc, Key(w) \in Keys,
             landed' = [landed EXCEPT ![w] = at[w]],
             register' = [register EXCEPT ![Key(w)] = w], held' = held
      PROVE  RegisterInv'
  <2>1. ASSUME NEW k \in Keys, register'[k] \in Writes
        PROVE  landed'[register'[k]] > 0
    BY <1>0, <1>5, <2>1 DEF RegisterInv
  <2>2. ASSUME NEW k \in Keys, NEW v \in Writes, held[k] = v
        PROVE  /\ pc[v] \in Holding \union {"done"}
               /\ pc[v] \in Holding => register'[k] = v /\ kind'[v] = "sequence"
    <3>1. pc[v] \in Holding => v = w
      BY <1>0, <1>5 DEF OneAtATime, Holding
    <3> QED
      BY <1>0, <1>2, <1>5, <2>2, <3>1 DEF RegisterInv
  <2> QED
    BY <1>3, <1>5, <2>1, <2>2 DEF RegisterInv
<1>6. ASSUME NEW w \in Writes,
             pc[w] \in Holding, pc'[w] \in Holding \union {"done"},
             pc'[w] \in Holding => kind[w] = "sequence",
             Key(w) \in Keys, register[Key(w)] = w,
             held' = [held EXCEPT ![Key(w)] = w], UNCHANGED <<register, landed>>
      PROVE  RegisterInv'
  <2>1. ASSUME NEW k \in Keys, NEW v \in Writes, held'[k] = v
        PROVE  /\ pc'[v] \in Holding \union {"done"}
               /\ pc'[v] \in Holding => register[k] = v /\ kind'[v] = "sequence"
    <3>1. CASE k = Key(w)
      BY <1>0, <1>2, <1>6, <2>1, <3>1
    <3>2. CASE k # Key(w) /\ pc[v] = "done"
      BY <3>2, PlacesMove DEF Holding
    <3>3. CASE k # Key(w) /\ pc[v] # "done"
      <4>1. held[k] = v /\ pc[v] \in Holding
        BY <1>0, <1>6, <2>1, <3>3 DEF RegisterInv
      <4>2. register[k] = v /\ kind[v] = "sequence"
        BY <4>1 DEF RegisterInv
      <4> QED
        BY <1>2, <4>1, <4>2, PlacesMove
    <3> QED
      BY <3>1, <3>2, <3>3
  <2> QED
    BY <1>3, <1>6, <2>1 DEF RegisterInv
<1> QED
  BY <1>4, <1>5, <1>6, DeviceMoves

\* What the device holds is only replaced by a newer write's value.
LEMMA RegisterAges ==
    ASSUME TypeOK, QueueInv, RegisterInv, [Next]_vars, NEW k \in Keys
    PROVE  Age(register[k]) <= Age(register[k])'
<1>0. /\ register \in [Keys -> Writes \union {NoWrite}] /\ order \in [Writes -> Nat]
      /\ NoWrite \notin Writes /\ landed \in [Writes -> Nat]
  BY WriteQueueAssumption DEF TypeOK, WriteQueueAssumption
<1>1. \A w \in Writes : order[w] # 0 => order'[w] = order[w]
  BY StepKeeps DEF Keeps, QueueInv, CountsInv
<1>2. register[k] \in Writes => order[register[k]] # 0
  BY DEF RegisterInv, QueueInv, ProgressInv
<1>3. CASE register'[k] = register[k]
  BY <1>0, <1>1, <1>2, <1>3 DEF Age
<1>4. ASSUME NEW w \in Writes, pc[w] = "sending", order' = order, Key(w) \in Keys,
             register' = [register EXCEPT ![Key(w)] = w], register'[k] # register[k]
      PROVE  Age(register[k]) <= Age(register[k])'
  <2>1. register'[k] = w
    BY <1>0, <1>4
  <2>2. register[k] \in Writes => ~(order[register[k]] > order[w])
    <3>1. Live(w)
      BY <1>4 DEF Live, Holding
    <3> QED
      BY <1>0, <3>1 DEF QueueInv, LineInv, RegisterInv
  <2> QED
    BY <1>0, <1>4, <2>1, <2>2 DEF Age
<1> QED
  BY <1>3, <1>4, DeviceMoves

\* The device's value of a key changes only while a write of the key is counted.
LEMMA RegisterCounted ==
    ASSUME TypeOK, QueueInv, [Next]_vars, NEW k \in Keys, writing[k] = 0
    PROVE  register'[k] = register[k]
<1>1. ASSUME NEW w \in Writes, pc[w] = "sending", Key(w) \in Keys,
             register' = [register EXCEPT ![Key(w)] = w]
      PROVE  register'[k] = register[k]
  BY <1>1, WrittenIsCounted DEF TypeOK, Underway
<1> QED
  BY <1>1, DeviceMoves

-----------------------------------------------------------------------------
(***************************************************************************)
(* The client's own steps.                                                 *)
(***************************************************************************)
\* A step of the client is a step of its write queue, or none.
LEMMA ClientSteps ==
    ASSUME [ClientNext]_clientVars
    PROVE  [Next]_vars
BY DEF ClientNext, clientVars, QueueStep, Reads, PassReads, CheckReads, Publish, CheckEnds,
       DeviceReads, ReadFails, BecomesDue, Refresh, Ask

ClientInv ==
    /\ TypeOK
    /\ QueueInv
    /\ RegisterInv
    /\ ClientTypeOK
    /\ ShownInv

LEMMA InitClient ==
    ASSUME ClientInit
    PROVE  ClientInv /\ ShownOrAsked
<1>1. TypeOK /\ QueueInv
  BY InitType, InitQueueInv DEF ClientInit
<1>2. RegisterInv
  BY WriteQueueAssumption DEF WriteQueueAssumption, ClientInit, Init, RegisterInv
<1>3. ClientTypeOK
  BY ClientReadsAssumption DEF ClientReadsAssumption, ClientInit, Init, ClientTypeOK, Marks
<1>4. ShownInv /\ ShownOrAsked
  BY WriteQueueAssumption, ClientReadsAssumption
     DEF WriteQueueAssumption, ClientReadsAssumption, ClientInit, Init, ShownInv, ShownOrAsked,
         Age
<1> QED
  BY <1>1, <1>2, <1>3, <1>4 DEF ClientInv

\* What is shown of a key that no write disturbed is what the device holds.
LEMMA PublishShows ==
    ASSUME ClientInv, Publish, NEW k \in Keys
    PROVE  \/ values'[k] = values[k] /\ (k \in due => k \in due' \union soon')
           \/ values'[k] = register[k]
<1> DEFINE told == {j \in asked : ~Disturbed(j, marks)}
           failed == {j \in told : answers[j] = Failed}
<1>1. /\ values' = [j \in Keys |-> IF j \in told \ failed THEN answers[j] ELSE values[j]]
      /\ due' = due \ told /\ soon' = soon \union failed
      /\ \A j \in asked : answers[j] # None
      /\ reading = "due"
  BY DEF Publish, Answered
<1>2. ASSUME k \in told \ failed
      PROVE  answers[k] = register[k]
  <2>1. k \in asked /\ changes[k] = marks[k] /\ answers[k] # Failed
    BY <1>2 DEF Disturbed
  <2> QED
    BY <1>1, <2>1 DEF ClientInv, ShownInv
<1> HIDE DEF told, failed
<1>3. k \notin told \ failed => values'[k] = values[k]
  BY <1>1
<1>4. k \in told \ failed => values'[k] = register[k]
  BY <1>1, <1>2
<1> QED
  BY <1>1, <1>3, <1>4

\* What the client is told it shows is what the device holds.
LEMMA TakenShows ==
    ASSUME ClientInv, [Next]_vars, NEW k \in Keys, held'[k] # held[k], Taken(k)
    PROVE  /\ held'[k] \in Writes /\ held'[k] = register[k] /\ order[register[k]] # 0
           /\ UNCHANGED <<register, landed>>
           /\ held' = [held EXCEPT ![k] = held'[k]]
           /\ values' = [values EXCEPT ![k] = values'[k]]
           /\ values'[k] \in {values[k], register[k]}
           /\ soon' = soon \union ({k} \intersect Readable)
<1>1. /\ held \in [Keys -> Writes \union {NoWrite}] /\ values \in [Keys -> Writes \union {NoWrite}]
  BY DEF ClientInv, TypeOK, ClientTypeOK
<1>2. PICK w \in Writes :
        /\ pc[w] \in Holding
        /\ Key(w) \in Keys /\ register[Key(w)] = w
        /\ held' = [held EXCEPT ![Key(w)] = w]
        /\ UNCHANGED <<register, landed>>
  BY DeviceMoves DEF ClientInv
<1>3. Key(w) = k /\ held'[k] = w
  BY <1>1, <1>2
<1>4. order[w] # 0
  BY <1>2 DEF ClientInv, QueueInv, ProgressInv, Holding, Underway
<1> QED
  BY <1>1, <1>2, <1>3, <1>4 DEF Taken

LEMMA StepClientType ==
    ASSUME ClientInv, [ClientNext]_clientVars
    PROVE  ClientTypeOK'
<1> USE DEF ClientTypeOK
<1>0. /\ [Next]_vars /\ TypeOK' /\ RegisterInv'
  BY ClientSteps, StepType, StepRegister DEF ClientInv
<1>1. /\ register \in [Keys -> Writes \union {NoWrite}]
      /\ held' \in [Keys -> Writes \union {NoWrite}]
      /\ changes \in [Keys -> Nat]
      /\ Readable \subseteq Keys /\ CheckKeys \subseteq Readable /\ MaxFailures \in Nat
      /\ ClientTypeOK
  BY <1>0, ClientReadsAssumption
     DEF ClientReadsAssumption, ClientInv, TypeOK, RegisterInv
<1>2. ASSUME QueueStep PROVE ClientTypeOK'
  <2>1. CASE held' = held /\ UNCHANGED <<values, soon>>
    BY <1>1, <1>2, <2>1 DEF QueueStep, readVars
  <2>2. ASSUME NEW k \in Keys, Taken(k) PROVE ClientTypeOK'
    BY <1>1, <1>2, <2>2 DEF QueueStep, readVars, Taken
  <2> QED
    BY <1>2, <2>1, <2>2 DEF QueueStep
<1>3. ASSUME PassReads \/ CheckReads PROVE ClientTypeOK'
  BY <1>1, <1>3 DEF PassReads, CheckReads, Ask, Marks, Undisturbed
<1>4. ASSUME NEW k \in Keys, DeviceReads(k) PROVE ClientTypeOK'
  BY <1>1, <1>4 DEF DeviceReads
<1>5. ASSUME NEW k \in Keys, ReadFails(k) PROVE ClientTypeOK'
  BY <1>1, <1>5 DEF ReadFails
<1>6. ASSUME NEW k \in Keys, BecomesDue(k) \/ Refresh(k) PROVE ClientTypeOK'
  BY <1>1, <1>6 DEF BecomesDue, Refresh, readVars
<1>7. ASSUME Publish PROVE ClientTypeOK'
  <2>1. ASSUME NEW k \in Keys PROVE values'[k] \in Writes \union {NoWrite}
    BY <1>1, <1>7, PublishShows
  <2>2. values' = [k \in Keys |-> values'[k]]
    BY <1>7 DEF Publish
  <2>3. /\ due' \subseteq due /\ soon' \subseteq soon \union asked
        /\ reading' = "published" /\ asked' = {}
        /\ UNCHANGED <<marks, answers, failures>>
    BY <1>7 DEF Publish
  <2> QED
    BY <1>1, <2>1, <2>2, <2>3
<1>8. ASSUME CheckEnds PROVE ClientTypeOK'
  BY <1>1, <1>8 DEF CheckEnds
<1>9. CASE UNCHANGED clientVars
  BY <1>1, <1>9 DEF clientVars, readVars
<1> QED
  BY <1>2, <1>3, <1>4, <1>5, <1>6, <1>7, <1>8, <1>9 DEF ClientNext, Reads

\* What may happen to what is shown: a value the device holds replaces it, or nothing.
LEMMA ShownMoves ==
    ASSUME ClientInv, [ClientNext]_clientVars, NEW k \in Keys
    PROVE  \/ values'[k] = values[k]
           \/ values'[k] = register[k] /\ register' = register
<1>1. ClientTypeOK /\ [Next]_vars
  BY ClientSteps DEF ClientInv
<1>2. ASSUME NEW j \in Keys, held'[j] # held[j], Taken(j)
      PROVE  \/ values'[k] = values[k]
             \/ values'[k] = register[k] /\ register' = register
  <2>1. /\ values' = [values EXCEPT ![j] = values'[j]]
        /\ values'[j] \in {values[j], register[j]} /\ register' = register
    BY <1>1, <1>2, TakenShows
  <2> QED
    BY <1>1, <2>1 DEF ClientTypeOK
<1>3. ASSUME Publish
      PROVE  \/ values'[k] = values[k]
             \/ values'[k] = register[k] /\ register' = register
  BY <1>3, PublishShows DEF Publish, vars, deviceVars
<1>4. ASSUME \/ PassReads \/ CheckReads \/ CheckEnds \/ UNCHANGED clientVars
             \/ \E j \in Keys : DeviceReads(j) \/ ReadFails(j) \/ BecomesDue(j) \/ Refresh(j)
      PROVE  values' = values
  BY <1>4 DEF PassReads, CheckReads, CheckEnds, DeviceReads, ReadFails, BecomesDue, Refresh,
              Ask, clientVars
<1> QED
  BY <1>2, <1>3, <1>4 DEF ClientNext, Reads, QueueStep

\* What is shown stays no newer than what the device holds, and is that of a write begun.
LEMMA StepShownAge ==
    ASSUME ClientInv, [ClientNext]_clientVars, NEW k \in Keys
    PROVE  /\ values'[k] \in Writes => order'[values'[k]] # 0
           /\ Age(values[k]) <= Age(values[k])'
           /\ Age(values[k])' <= Age(register[k])'
<1>0. /\ TypeOK /\ QueueInv /\ RegisterInv /\ ClientTypeOK /\ ShownInv /\ [Next]_vars
      /\ TypeOK' /\ ClientTypeOK'
  BY ClientSteps, StepType, StepClientType DEF ClientInv
<1>1. /\ order \in [Writes -> Nat] /\ order' \in [Writes -> Nat] /\ NoWrite \notin Writes
      /\ register \in [Keys -> Writes \union {NoWrite}]
      /\ register' \in [Keys -> Writes \union {NoWrite}]
      /\ values \in [Keys -> Writes \union {NoWrite}]
      /\ values' \in [Keys -> Writes \union {NoWrite}]
  BY <1>0, WriteQueueAssumption DEF WriteQueueAssumption, TypeOK, ClientTypeOK
<1>2. \A w \in Writes : order[w] # 0 => order'[w] = order[w]
  BY <1>0, StepKeeps DEF Keeps, QueueInv, CountsInv
<1>3. register[k] \in Writes => order[register[k]] # 0
  BY <1>0 DEF RegisterInv, QueueInv, ProgressInv
<1>4. /\ values[k] \in Writes => order[values[k]] # 0
      /\ Age(values[k]) <= Age(register[k])
      /\ Age(register[k]) <= Age(register[k])'
  BY <1>0, RegisterAges DEF ShownInv
<1>5. /\ Age(values[k]) \in Nat /\ Age(register[k]) \in Nat
      /\ Age(values[k])' \in Nat /\ Age(register[k])' \in Nat
  BY <1>1 DEF Age
<1>6. CASE values'[k] = values[k]
  <2>1. Age(values[k])' = Age(values[k])
    BY <1>1, <1>2, <1>4, <1>6 DEF Age
  <2>2. values'[k] \in Writes => order'[values'[k]] # 0
    BY <1>1, <1>2, <1>4, <1>6
  <2> QED
    BY <1>4, <1>5, <2>1, <2>2
<1>7. CASE values'[k] = register[k] /\ register' = register
  <2>1. Age(values[k])' = Age(register[k])'
    BY <1>7 DEF Age
  <2>2. values'[k] \in Writes => order'[values'[k]] # 0
    BY <1>1, <1>2, <1>3, <1>7
  <2> QED
    BY <1>4, <1>5, <2>1, <2>2
<1> QED
  BY <1>6, <1>7, ShownMoves

\* What a read of a pass has brought for a key is what the device still holds, as long as
\* no write has been counted since the read began.
LEMMA StepReadsHold ==
    ASSUME ClientInv, [ClientNext]_clientVars, reading' = "due", NEW k \in asked'
    PROVE  /\ marks'[k] <= changes'[k]
           /\ changes'[k] = marks'[k] =>
                  writing'[k] = 0 /\ answers'[k] \in {None, Failed, register'[k]}
<1>0. /\ TypeOK /\ QueueInv /\ RegisterInv /\ ClientTypeOK /\ ShownInv /\ [Next]_vars
      /\ ClientTypeOK'
  BY ClientSteps, StepClientType DEF ClientInv
<1>1. /\ k \in Keys /\ writing[k] \in Int /\ changes[k] \in Nat /\ changes \in [Keys -> Nat]
      /\ answers \in [Keys -> Writes \union {NoWrite, None, Failed}]
      /\ marks \in [Keys -> Nat]
  BY <1>0, ClientReadsAssumption DEF ClientReadsAssumption, TypeOK, ClientTypeOK, RegisterInv
<1>2. ASSUME k \in asked, reading = "due", marks' = marks, answers' = answers
      PROVE  /\ marks'[k] <= changes'[k]
             /\ changes'[k] = marks'[k] =>
                    writing'[k] = 0 /\ answers'[k] \in {None, Failed, register'[k]}
  <2>1. PICK n \in Nat :
          /\ changes'[k] = changes[k] + n
          /\ writing'[k] = writing[k] + n \/ writing'[k] = writing[k] - n
    BY <1>0, <1>1, CountersMove
  <2>2. /\ marks[k] <= changes[k] /\ marks[k] \in Nat
        /\ changes[k] = marks[k] =>
              writing[k] = 0 /\ answers[k] \in {None, Failed, register[k]}
    BY <1>0, <1>1, <1>2 DEF ShownInv
  <2>3. ASSUME changes'[k] = marks[k]
        PROVE  writing'[k] = 0 /\ answers[k] \in {None, Failed, register'[k]}
    <3>1. n = 0 /\ changes[k] = marks[k]
      BY <1>1, <2>1, <2>2, <2>3
    <3>2. writing[k] = 0 /\ answers[k] \in {None, Failed, register[k]}
      BY <2>2, <3>1
    <3>3. writing'[k] = 0
      BY <2>1, <3>1, <3>2
    <3>4. register'[k] = register[k]
      BY <1>0, <1>1, <3>2, RegisterCounted
    <3> QED
      BY <3>2, <3>3, <3>4
  <2> QED
    BY <1>1, <1>2, <2>1, <2>2, <2>3
<1>3. ASSUME PassReads
      PROVE  /\ marks'[k] <= changes'[k]
             /\ writing'[k] = 0 /\ answers'[k] \in {None, Failed, register'[k]}
  <2>1. /\ k \in Undisturbed /\ marks' = changes /\ UNCHANGED <<changes, writing>>
        /\ answers' = [j \in Keys |-> None]
    BY <1>3 DEF PassReads, Ask, Marks, vars, countVars
  <2>2. ~(writing[k] > 0)
    BY <2>1 DEF Undisturbed, Disturbed
  <2>3. writing[k] \in Nat
    BY <1>0, <1>1, FS_CardinalityType DEF QueueInv, CountsInv, Accounting, CountedByKey
  <2> QED
    BY <1>1, <2>1, <2>2, <2>3
<1>4. ASSUME NEW j \in Keys, DeviceReads(j) \/ ReadFails(j)
      PROVE  /\ marks'[k] <= changes'[k]
             /\ changes'[k] = marks'[k] =>
                    writing'[k] = 0 /\ answers'[k] \in {None, Failed, register'[k]}
  <2>1. /\ UNCHANGED <<changes, writing, register, marks, asked, reading>>
        /\ answers' = [answers EXCEPT ![j] = register[j]]
             \/ answers' = [answers EXCEPT ![j] = Failed]
    BY <1>4 DEF DeviceReads, ReadFails, vars, countVars, deviceVars
  <2>2. answers'[k] \in {answers[k], Failed, register[k]}
    BY <1>1, <2>1
  <2> QED
    BY <1>0, <2>1, <2>2 DEF ShownInv
<1>5. ASSUME CheckReads \/ Publish \/ CheckEnds
      PROVE  FALSE
  BY <1>5 DEF CheckReads, Publish, CheckEnds, Ask
<1>6. ASSUME \/ QueueStep
             \/ UNCHANGED clientVars
             \/ \E j \in Keys : BecomesDue(j) \/ Refresh(j)
      PROVE  k \in asked /\ reading = "due" /\ marks' = marks /\ answers' = answers
  BY <1>6 DEF QueueStep, BecomesDue, Refresh, clientVars, readVars
<1> QED
  BY <1>2, <1>3, <1>4, <1>5, <1>6 DEF ClientNext, Reads

LEMMA StepClient ==
    ASSUME ClientInv, [ClientNext]_clientVars
    PROVE  ClientInv'
<1>1. TypeOK' /\ QueueInv' /\ RegisterInv' /\ ClientTypeOK'
  BY ClientSteps, StepType, StepQueueInv, StepRegister, StepClientType DEF ClientInv
<1>2. ShownInv'
  BY StepShownAge, StepReadsHold DEF ShownInv
<1> QED
  BY <1>1, <1>2 DEF ClientInv

\* A difference between what is shown and what the device holds comes with a read that
\* is asked for, or with a write the client was not told of.
LEMMA StepShownOrAsked ==
    ASSUME ClientInv, ShownOrAsked, [ClientNext]_clientVars
    PROVE  ShownOrAsked'
<1>0. /\ TypeOK /\ QueueInv /\ RegisterInv /\ ClientTypeOK /\ [Next]_vars
      /\ Readable \subseteq Keys
  BY ClientSteps, ClientReadsAssumption DEF ClientInv, ClientReadsAssumption
<1> SUFFICES ASSUME NEW k \in Readable
             PROVE  \/ values'[k] = register'[k]
                    \/ held'[k] # register'[k]
                    \/ k \in due' \union soon'
  BY DEF ShownOrAsked
<1>1. /\ k \in Keys
      /\ \/ values[k] = register[k]
         \/ held[k] # register[k]
         \/ k \in due \union soon
      /\ register \in [Keys -> Writes \union {NoWrite}]
      /\ held \in [Keys -> Writes \union {NoWrite}]
      /\ values \in [Keys -> Writes \union {NoWrite}]
      /\ pc \in [Writes -> Places]
  BY <1>0 DEF ShownOrAsked, TypeOK, ClientTypeOK
<1>2. ASSUME QueueStep, held' = held, UNCHANGED <<values, soon>>
      PROVE  \/ values'[k] = register'[k]
             \/ held'[k] # register'[k]
             \/ k \in due' \union soon'
  <2>1. due' = due
    BY <1>2 DEF QueueStep
  <2>2. CASE register'[k] = register[k]
    BY <1>1, <1>2, <2>1, <2>2
  <2>3. ASSUME register'[k] # register[k] PROVE held[k] # register'[k]
    <3>1. PICK w \in Writes :
            /\ pc[w] = "sending" /\ Key(w) \in Keys
            /\ register' = [register EXCEPT ![Key(w)] = w]
      BY <1>0, <2>3, DeviceMoves
    <3>2. register'[k] = w
      BY <1>1, <2>3, <3>1
    <3>3. held[k] # w
      BY <1>1, <2>3, <3>1, <3>2 DEF RegisterInv, Holding, ClientInv
    <3> QED
      BY <3>2, <3>3
  <2> QED
    BY <1>2, <2>2, <2>3
<1>3. ASSUME QueueStep, NEW j \in Keys, held'[j] # held[j], Taken(j)
      PROVE  \/ values'[k] = register'[k]
             \/ held'[k] # register'[k]
             \/ k \in due' \union soon'
  <2>1. /\ register' = register
        /\ held' = [held EXCEPT ![j] = held'[j]]
        /\ values' = [values EXCEPT ![j] = values'[j]]
        /\ soon' = soon \union ({j} \intersect Readable)
        /\ due' = due
    BY <1>0, <1>3, TakenShows DEF QueueStep
  <2> QED
    BY <1>1, <2>1
<1>4. ASSUME Publish
      PROVE  \/ values'[k] = register'[k]
             \/ held'[k] # register'[k]
             \/ k \in due' \union soon'
  <2>1. UNCHANGED <<register, held>> /\ soon \subseteq soon'
    BY <1>4 DEF Publish, vars, deviceVars
  <2> QED
    BY <1>1, <1>4, <2>1, PublishShows
<1>5. ASSUME \/ PassReads \/ CheckReads \/ CheckEnds \/ UNCHANGED clientVars
             \/ \E j \in Keys : DeviceReads(j) \/ ReadFails(j) \/ BecomesDue(j) \/ Refresh(j)
      PROVE  /\ UNCHANGED <<register, held, values>>
             /\ due \union soon \subseteq due' \union soon'
  BY <1>5 DEF PassReads, CheckReads, CheckEnds, DeviceReads, ReadFails, BecomesDue, Refresh,
              Ask, clientVars, vars, deviceVars
<1> QED
  BY <1>1, <1>2, <1>3, <1>4, <1>5 DEF ClientNext, Reads, QueueStep

LEMMA ClientInvariant == ClientSpec => []ClientInv
BY InitClient, StepClient, PTL DEF ClientSpec

\* Every variable of the client keeps its type: it never shows what is no value, and
\* asks for no read of what cannot be read.
THEOREM ClientTypeCorrect == ClientSpec => []ClientTypeOK
<1>1. ClientInv => ClientTypeOK
  BY DEF ClientInv
<1> QED
  BY <1>1, ClientInvariant, PTL

\* What the client shows of a key it can read is what the device holds, or a read of the
\* key is asked for, or the device took a write it never acknowledged (_taken(),
\* _publish()).
THEOREM ShownOrReadAgain == ClientSpec => []ShownOrAsked
BY InitClient, StepClient, StepShownOrAsked, PTL DEF ClientSpec

\* What the client shows never goes back to an older write's value, however late the
\* answer of a read begun before the newer write comes (_publish()).
THEOREM NothingUndone == ClientSpec => NeverUndone
<1>1. ClientInv /\ [ClientNext]_clientVars =>
        [\A k \in Keys : Age(values[k]) <= Age(values[k])']_clientVars
  BY StepShownAge
<1> QED
  BY <1>1, ClientInvariant, PTL DEF ClientSpec, NeverUndone
=============================================================================
