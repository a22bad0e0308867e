------------------------- MODULE ModbusDeviceProofs -------------------------
(***************************************************************************)
(* What ModbusDevice promises of its locks, of the bits it writes, of what *)
(* it reports of a write and of what a read asks for and answers, proved   *)
(* for any tasks, units, registers, jobs and answers.                      *)
(***************************************************************************)
EXTENDS ModbusDevice, Recursion, FiniteSetTheorems

-----------------------------------------------------------------------------
\* The line of a lock: each task of S once.

Lined(waiting, S) ==
    /\ waiting \in Seq(Tasks)
    /\ IsInjective(waiting)
    /\ Range(waiting) = S

\* A task that comes is the last, and the first of an empty line.
LEMMA AppendLined ==
    ASSUME NEW waiting, NEW S, Lined(waiting, S), NEW t \in Tasks, t \notin S
    PROVE /\ Lined(Append(waiting, t), S \union {t})
          /\ Append(waiting, t) # << >>
          /\ Head(Append(waiting, t)) = IF waiting = << >> THEN t ELSE Head(waiting)
<1> DEFINE longer == Append(waiting, t)
<1>1. /\ longer \in Seq(Tasks) /\ Len(longer) = Len(waiting) + 1
      /\ \A i \in 1 .. Len(waiting) : longer[i] = waiting[i]
      /\ longer[Len(waiting) + 1] = t
  BY DEF Lined
<1>2. /\ DOMAIN longer = 1 .. Len(waiting) + 1 /\ DOMAIN waiting = 1 .. Len(waiting)
      /\ Len(waiting) \in Nat
  BY <1>1 DEF Lined
<1>3. \A i \in 1 .. Len(waiting) : waiting[i] # t
  BY <1>2 DEF Lined, Range
<1> HIDE DEF longer
<1>4. IsInjective(longer)
  BY <1>1, <1>2, <1>3 DEF Lined, IsInjective
<1>5. Range(longer) = S \union {t}
  <2>1. ASSUME NEW x \in Range(longer) PROVE x \in S \union {t}
    BY <2>1, <1>1, <1>2 DEF Range, Lined
  <2>2. ASSUME NEW x \in S PROVE x \in Range(longer)
    <3>1. PICK i \in 1 .. Len(waiting) : waiting[i] = x
      BY <1>2 DEF Range, Lined
    <3> QED
      BY <3>1, <1>1, <1>2 DEF Range
  <2>3. t \in Range(longer)
    BY <1>1, <1>2 DEF Range
  <2> QED
    BY <2>1, <2>2, <2>3
<1>6. longer # << >> /\ Head(longer) = IF waiting = << >> THEN t ELSE Head(waiting)
  BY <1>1, <1>2 DEF Lined
<1> QED
  BY <1>1, <1>4, <1>5, <1>6 DEF longer, Lined

\* The first lets go of the lock.
LEMMA TailLined ==
    ASSUME NEW waiting, NEW S, Lined(waiting, S), waiting # << >>
    PROVE Lined(Tail(waiting), S \ {Head(waiting)})
<1> DEFINE rest == Tail(waiting)
<1>1. /\ rest \in Seq(Tasks) /\ Len(rest) = Len(waiting) - 1 /\ Len(waiting) \in Nat
      /\ Len(waiting) >= 1
      /\ \A i \in 1 .. Len(waiting) - 1 : rest[i] = waiting[i + 1]
      /\ DOMAIN rest = 1 .. Len(waiting) - 1 /\ DOMAIN waiting = 1 .. Len(waiting)
      /\ Head(waiting) = waiting[1]
  BY DEF Lined
<1> HIDE DEF rest
<1>2. IsInjective(rest)
  <2> SUFFICES ASSUME NEW i \in 1 .. Len(waiting) - 1, NEW j \in 1 .. Len(waiting) - 1,
                      rest[i] = rest[j]
               PROVE i = j
    BY <1>1 DEF IsInjective
  <2>1. /\ i + 1 \in 1 .. Len(waiting) /\ j + 1 \in 1 .. Len(waiting)
        /\ waiting[i + 1] = waiting[j + 1]
    BY <1>1
  <2>2. i + 1 = j + 1
    BY <2>1, <1>1 DEF Lined, IsInjective
  <2> QED
    BY <2>2, <1>1
<1>3. Range(rest) = S \ {Head(waiting)}
  <2>1. ASSUME NEW x \in Range(rest) PROVE x \in S \ {Head(waiting)}
    <3>1. PICK i \in 1 .. Len(waiting) - 1 : rest[i] = x
      BY <2>1, <1>1 DEF Range
    <3>2. x = waiting[i + 1] /\ i + 1 \in 1 .. Len(waiting) /\ i + 1 # 1
      BY <3>1, <1>1
    <3> QED
      BY <3>2, <1>1 DEF Range, Lined, IsInjective
  <2>2. ASSUME NEW x \in S, x # Head(waiting) PROVE x \in Range(rest)
    <3>1. PICK i \in 1 .. Len(waiting) : waiting[i] = x
      BY <2>2, <1>1 DEF Range, Lined
    <3>2. i # 1 /\ i - 1 \in 1 .. Len(waiting) - 1 /\ i - 1 + 1 = i
      BY <2>2, <3>1, <1>1
    <3>3. rest[i - 1] = x
      BY <3>1, <3>2, <1>1
    <3> QED
      BY <3>2, <3>3, <1>1 DEF Range
  <2> QED
    BY <2>1, <2>2
<1> QED
  BY <1>1, <1>2, <1>3 DEF rest, Lined

\* A task that is cancelled leaves the line wherever it is, and the others keep their order.
LEMMA RemovedLined ==
    ASSUME NEW waiting, NEW S, Lined(waiting, S), NEW t
    PROVE /\ Lined(RemoveFirst(waiting, t), S \ {t})
          /\ waiting # << >> /\ Head(waiting) # t =>
                /\ RemoveFirst(waiting, t) # << >>
                /\ Head(RemoveFirst(waiting, t)) = Head(waiting)
<1>1. /\ Len(waiting) \in Nat /\ DOMAIN waiting = 1 .. Len(waiting)
      /\ waiting \in Seq(Tasks)
  BY DEF Lined
<1>2. CASE ~ \E i \in 1 .. Len(waiting) : waiting[i] = t
  <2>1. RemoveFirst(waiting, t) = waiting
    BY <1>2 DEF RemoveFirst
  <2>2. t \notin S
    BY <1>1, <1>2 DEF Lined, Range
  <2> QED
    BY <2>1, <2>2 DEF Lined
<1>3. CASE \E i \in 1 .. Len(waiting) : waiting[i] = t
  <2>1. PICK k \in 1 .. Len(waiting) : waiting[k] = t
    BY <1>3
  <2>2. {i \in 1 .. Len(waiting) : waiting[i] = t} = {k}
    BY <2>1, <1>1 DEF Lined, IsInjective
  <2>3. SelectInSeq(waiting, LAMBDA v : v = t) = k
    BY <2>2 DEF SelectInSeq, Min
  <2>4. RemoveFirst(waiting, t) = RemoveAt(waiting, k)
    BY <1>3, <2>3 DEF RemoveFirst
  <2> DEFINE left == RemoveAt(waiting, k)
             at(i) == IF i < k THEN i ELSE i + 1
  <2>5. /\ left \in Seq(Tasks) /\ Len(left) = Len(waiting) - 1
        /\ \A i \in 1 .. Len(waiting) - 1 : left[i] = waiting[at(i)]
    <3> DEFINE before == SubSeq(waiting, 1, k - 1)
               after == SubSeq(waiting, k + 1, Len(waiting))
    <3>1. /\ before \in Seq(Tasks) /\ Len(before) = k - 1
          /\ \A i \in 1 .. k - 1 : before[i] = waiting[i]
      BY <1>1, <2>1
    <3>2. /\ after \in Seq(Tasks) /\ Len(after) = Len(waiting) - k
          /\ \A i \in 1 .. Len(waiting) - k : after[i] = waiting[i + k]
      <4>1. /\ k + 1 \in Int /\ Len(waiting) \in Int
            /\ \A i \in k + 1 .. Len(waiting) : waiting[i] \in Tasks
        BY <1>1, <2>1
      <4>2. /\ after \in Seq(Tasks)
            /\ Len(after) = IF k + 1 <= Len(waiting) THEN Len(waiting) - (k + 1) + 1 ELSE 0
            /\ \A i \in 1 .. Len(waiting) - (k + 1) + 1 : after[i] = waiting[k + 1 + i - 1]
        BY <4>1, SubSeqProperties
      <4> HIDE DEF after
      <4>3. Len(after) = Len(waiting) - k
        <5>1. \A n \in Nat : k <= n => (IF k + 1 <= n THEN n - (k + 1) + 1 ELSE 0) = n - k
          BY <2>1
        <5>2. Len(waiting) \in Nat /\ k <= Len(waiting)
          BY <1>1, <2>1
        <5> QED
          BY <5>1, <5>2, <4>2, Zenon
      <4>4. ASSUME NEW i \in 1 .. Len(waiting) - k PROVE after[i] = waiting[i + k]
        <5>1. /\ i \in 1 .. Len(waiting) - (k + 1) + 1
              /\ k + 1 + i - 1 = i + k
          BY <1>1, <2>1
        <5> QED
          BY <5>1, <4>2
      <4> QED
        BY <4>2, <4>3, <4>4
    <3>3. left = before \o after
      BY DEF RemoveAt
    <3> HIDE DEF before, after, left
    <3>4. left \in Seq(Tasks) /\ Len(left) = Len(waiting) - 1
      BY <3>1, <3>2, <3>3, <1>1, <2>1
    <3>5. ASSUME NEW i \in 1 .. Len(waiting) - 1 PROVE left[i] = waiting[at(i)]
      <4>1. CASE i < k
        BY <4>1, <3>1, <3>2, <3>3, <1>1, <2>1
      <4>2. CASE ~(i < k)
        <5>1. left[i] = after[i - (k - 1)]
          BY <4>2, <3>1, <3>2, <3>3, <1>1, <2>1
        <5>2. i - (k - 1) \in 1 .. Len(waiting) - k /\ i - (k - 1) + k = i + 1
          BY <4>2, <1>1, <2>1
        <5> QED
          BY <4>2, <5>1, <5>2, <3>2
      <4> QED
        BY <4>1, <4>2
    <3> QED
      BY <3>4, <3>5
  <2>6. DOMAIN left = 1 .. Len(waiting) - 1
    BY <2>5
  <2> HIDE DEF left
  <2>7. \A i \in 1 .. Len(waiting) - 1 : at(i) \in 1 .. Len(waiting) /\ at(i) # k
    BY <1>1, <2>1
  <2>8. IsInjective(left)
    <3> SUFFICES ASSUME NEW i \in DOMAIN left, NEW j \in DOMAIN left, left[i] = left[j]
                 PROVE i = j
      BY DEF IsInjective
    <3>1. waiting[at(i)] = waiting[at(j)]
      BY <2>5, <2>6
    <3>2. at(i) = at(j)
      BY <3>1, <2>6, <2>7, <1>1 DEF Lined, IsInjective
    <3> QED
      BY <3>2, <2>6, <1>1
  <2>9. Range(left) = S \ {t}
    <3>1. ASSUME NEW x \in Range(left) PROVE x \in S \ {t}
      <4>1. PICK i \in 1 .. Len(waiting) - 1 : left[i] = x
        BY <3>1, <2>6 DEF Range
      <4>2. x = waiting[at(i)] /\ at(i) \in DOMAIN waiting /\ at(i) # k
        BY <4>1, <2>5, <2>7, <1>1
      <4> HIDE DEF at
      <4> QED
        BY <4>2, <2>1, <1>1 DEF Range, Lined, IsInjective
    <3>2. ASSUME NEW x \in S, x # t PROVE x \in Range(left)
      <4>1. PICK i \in 1 .. Len(waiting) : waiting[i] = x
        BY <3>2, <1>1 DEF Range, Lined
      <4>2. PICK j \in 1 .. Len(waiting) - 1 : at(j) = i
        <5>1. CASE i < k
          BY <5>1, <1>1, <2>1
        <5>2. CASE ~(i < k)
          <6>1. i # k
            BY <3>2, <4>1, <2>1
          <6> QED
            BY <5>2, <6>1, <1>1, <2>1
        <5> QED
          BY <5>1, <5>2
      <4> QED
        BY <4>1, <4>2, <2>5, <2>6 DEF Range
    <3> QED
      BY <3>1, <3>2
  <2>10. ASSUME waiting # << >>, Head(waiting) # t
         PROVE left # << >> /\ Head(left) = Head(waiting)
    <3>1. k > 1 /\ Head(waiting) = waiting[1]
      BY <2>1, <2>10, <1>1
    <3>2. 1 \in 1 .. Len(waiting) - 1 /\ at(1) = 1
      BY <3>1, <2>1, <1>1
    <3>3. left[1] = waiting[1]
      BY <3>2, <2>5
    <3> HIDE DEF at
    <3> QED
      BY <3>1, <3>2, <3>3, <2>5, <1>1
  <2> HIDE DEF at
  <2> QED
    BY <2>4, <2>5, <2>8, <2>9, <2>10 DEF left, Lined
<1> QED
  BY <1>2, <1>3

-----------------------------------------------------------------------------
\* The tasks.

Places == {"idle", "bit", "ask", "ready", "line", "busy", "done"}
Outcomes == {"none", "ok", "missing", "unsupported", "offline", "busy", "no_answer", "error"}
Fields == {"at", "job", "todo", "results", "outcome", "tries", "applied"}
Asking == {"ask", "ready", "line", "busy"}
Requesting == {"read", "register", "bit"}

\* What a task has to send and has sent, if it writes: one request, which is not done yet, or
\* none any more and a result that says whether it was.
Reported(now) ==
    \/ now.outcome = "ok" /\ now.applied = 1
    \/ now.outcome = "no_answer" /\ now.applied \in 0 .. 1
    \/ now.outcome \notin {"ok", "no_answer"} /\ now.applied = 0

ToSend(t, now) ==
    LET job == now.job IN
    \/ /\ job.op = "register"
       /\ now.todo = <<WriteRegister(job.address, job.value)>>
    \/ /\ job.op = "bit" /\ ~NeedsBitLock(UnitOf[t], job)
       /\ now.todo = <<MaskWrite(job.address, job.bit, job.on)>>
    \/ /\ NeedsBitLock(UnitOf[t], job)
       /\ now.todo = <<Fetch(job.address)>>
    \/ /\ NeedsBitLock(UnitOf[t], job) /\ now.at # "bit"
       /\ \E value \in SUBSET Bits : now.todo = <<WriteBack(job.address, job.bit, value)>>

IsTask(t, now) ==
    /\ DOMAIN now = Fields
    /\ now.at \in Places
    /\ now.job \in Jobs[t] \union {NoJob}
    /\ now.outcome \in Outcomes
    /\ now.tries \in 0 .. BusyTries - 1
    /\ now.applied \in 0 .. 1
    /\ now.at = "idle" <=> now.job = NoJob
    /\ now.at = "bit" => NeedsBitLock(UnitOf[t], now.job)
    /\ now.at \in {"bit", "ask", "ready", "busy"} => now.job.op \in Requesting
    /\ now.job.op \in {"connect", "disconnect"} => now.todo = << >>
    /\ now.job.op \in {"register", "bit"} /\ now.at # "done" =>
        now.applied = 0 /\ ToSend(t, now)
    /\ now.job.op \in {"register", "bit"} /\ now.at = "done" =>
        now.todo = << >> /\ Reported(now)

\* Whether what a task sends next writes a register back with a bit changed.
Backing(now) == now.job.op = "bit" /\ now.todo # << >> /\ Head(now.todo).kind = "back"

\* The units, as far as tasks write to them.
UnitInv ==
    /\ bitWriting \in [Units -> BitWritings]
    /\ register \in [Units -> [Registers -> SUBSET Bits]]
    /\ promised \in [Units -> [Registers -> [Bits -> {"on", "off", "nothing"}]]]

TaskInv ==
    /\ DOMAIN task = Tasks
    /\ \A t \in Tasks : IsTask(t, task[t])

LEMMA JobFacts ==
    ASSUME ModbusDeviceAssumption, NEW t \in Tasks, NEW j \in Jobs[t] \union {NoJob}
    PROVE /\ j.op \in {"none", "read", "register", "bit", "connect", "disconnect"}
          /\ j.op = "none" <=> j = NoJob
          /\ j.op = "bit" =>
                j.address \in Registers /\ j.bit \in Bits /\ j.on \in BOOLEAN
          /\ j.op = "register" => j.address \in Registers /\ j.value \in SUBSET Bits
<1>1. CASE j = NoJob
  BY <1>1 DEF NoJob
<1>2. CASE j \in Jobs[t]
  <2>1. Job(j)
    BY <1>2 DEF ModbusDeviceAssumption
  <2>2. CASE j \in [op : {"bit"}, address : Registers, bit : Bits, on : BOOLEAN]
    BY <2>2 DEF NoJob
  <2>3. CASE j \in [op : {"register"}, address : Registers, value : SUBSET Bits]
    BY <2>3 DEF NoJob
  <2>4. CASE j \in [op : {"connect", "disconnect"}]
    BY <2>4 DEF NoJob
  <2>5. CASE j \in [op : {"read"}, spans : {j.spans}]
    BY <2>5 DEF NoJob
  <2> QED
    BY <2>1, <2>2, <2>3, <2>4, <2>5 DEF Job
<1> QED
  BY <1>1, <1>2

LEMMA OutcomeFacts ==
    ASSUME NEW code
    PROVE /\ Outcome(code) \in Outcomes \ {"none"}
          /\ Outcome(code) = "ok" <=> code = "ok"
          /\ code \in {"silent", "unsent", "gateway_failed"} => Outcome(code) = "no_answer"
  BY DEF Outcome, OutcomeByCode, Outcomes

\* A task that waits on goes on as it was.
LEMMA MovesIsTask ==
    ASSUME NEW t \in Tasks, NEW now, IsTask(t, now), now.at \notin {"idle", "done"},
           now.job.op \in Requesting,
           NEW place \in Asking
    PROVE /\ IsTask(t, [now EXCEPT !.at = place])
          /\ [now EXCEPT !.at = place].at = place
          /\ [now EXCEPT !.at = place].job = now.job
          /\ [now EXCEPT !.at = place].todo = now.todo
<1> DEFINE next == [now EXCEPT !.at = place]
<1>1. /\ DOMAIN next = Fields
      /\ next.at = place /\ next.job = now.job /\ next.todo = now.todo
      /\ next.outcome = now.outcome /\ next.tries = now.tries /\ next.applied = now.applied
  BY DEF IsTask, Fields
<1> HIDE DEF next
<1>2. ToSend(t, now) => ToSend(t, next)
  BY <1>1 DEF ToSend, Asking
<1>3. IsTask(t, next)
  BY <1>1, <1>2 DEF IsTask, Asking, Places
<1> QED
  BY <1>1, <1>3 DEF next

\* What a task has to send stays the same while it waits for anything but a bit's lock.
LEMMA ToSendIsOf ==
    ASSUME NEW t, NEW was, NEW next, ToSend(t, was), next.job = was.job, next.todo = was.todo,
           next.at # "bit"
    PROVE ToSend(t, next)
  BY DEF ToSend

\* A task goes on, and has what its request came to; what it then writes back is the register
\* as it is, with the one bit changed.
LEMMA ResumesIsTask ==
    ASSUME ModbusDeviceAssumption, TaskInv, UnitInv, NEW t \in Tasks,
           task[t].at \in {"ask", "ready", "line"}, task[t].job.op \in Requesting,
           NEW code, NEW taken \in BOOLEAN,
           code = "ok" => taken,
           taken /\ code # "ok" => Outcome(code) = "no_answer"
    PROVE LET next == Resumes(t, code, taken)
              job == task[t].job IN
          /\ IsTask(t, next)
          /\ next.at \in {"ask", "busy", "done"}
          /\ next.job = job
          /\ Backing(next) =>
                /\ ~Writes(t)
                /\ Head(next.todo) = WriteBack(job.address, job.bit,
                        SetBit(register[UnitOf[t]][job.address], job.bit, job.on))
<1> DEFINE next == Resumes(t, code, taken)
           was == task[t]
           job == task[t].job
           request == Head(task[t].todo)
           value == SetBit(register[UnitOf[t]][request.address], job.bit, job.on)
           now == [task[t] EXCEPT !.applied = IF taken /\ Writes(t) THEN @ + 1 ELSE @,
                                  !.tries = 0, !.at = "ask"]
           again == code = "busy" /\ Repeats(t) /\ was.tries + 1 < BusyTries
           fetched == job.op = "bit" /\ request.kind = "fetch" /\ code = "ok"
           halved == job.op = "read" /\ code = "illegal_address" /\ Cardinality(request.spans) > 1
           tries == [now EXCEPT !.at = "busy", !.tries = was.tries + 1]
           back == [now EXCEPT !.todo = <<WriteBack(request.address, job.bit, value)>>]
           halves == [now EXCEPT !.todo = Halves(request) \o Tail(was.todo)]
           read == [now EXCEPT !.todo = Tail(was.todo), !.results = Deliver(request, code, @),
                               !.at = IF Tail(was.todo) = << >> THEN "done" ELSE "ask"]
           ends == [now EXCEPT !.todo = << >>, !.outcome = Outcome(code), !.at = "done"]
           Goal == /\ IsTask(t, next)
                   /\ next.at \in {"ask", "busy", "done"}
                   /\ next.job = job
                   /\ Backing(next) =>
                        /\ ~Writes(t)
                        /\ Head(next.todo) = WriteBack(job.address, job.bit,
                                SetBit(register[UnitOf[t]][job.address], job.bit, job.on))
<1> USE DEF Requesting
<1>1. IsTask(t, was) /\ DOMAIN was = Fields
  BY DEF TaskInv, IsTask
<1>2. /\ DOMAIN now = Fields
      /\ now.at = "ask" /\ now.job = job /\ now.todo = was.todo /\ now.outcome = was.outcome
      /\ now.tries = 0
      /\ now.applied = IF taken /\ Writes(t) THEN was.applied + 1 ELSE was.applied
  BY <1>1 DEF Fields
<1>3. /\ job \in Jobs[t] \union {NoJob} /\ job # NoJob
      /\ was.outcome \in Outcomes /\ was.tries \in 0 .. BusyTries - 1 /\ was.applied \in 0 .. 1
      /\ BusyTries \in Nat \ {0}
      /\ was.at # "done" /\ was.at # "bit" /\ was.at # "idle" /\ was.job = job
  BY <1>1 DEF IsTask, NoJob, ModbusDeviceAssumption
<1>4. /\ job.op \in {"register", "bit"} => was.applied = 0 /\ ToSend(t, was)
  BY <1>1, <1>3 DEF IsTask
<1>5. job.op = "read" => ~Writes(t)
  BY DEF Writes
<1>6. job.op \in {"register", "bit"} => (Writes(t) <=> request.kind # "fetch")
  BY DEF Writes
<1>7. /\ job.op = "bit" => /\ job.address \in Registers /\ job.bit \in Bits
                           /\ job.on \in BOOLEAN
      /\ UnitOf[t] \in Units
  BY <1>3, JobFacts DEF ModbusDeviceAssumption
<1>8. job.op \in {"register", "bit"} =>
        /\ request.address = job.address
        /\ fetched => NeedsBitLock(UnitOf[t], job)
        /\ was.todo # << >>
  <2>1. ASSUME job.op = "register", was.todo = <<WriteRegister(job.address, job.value)>>
        PROVE request.address = job.address /\ ~fetched /\ was.todo # << >>
    BY <2>1 DEF WriteRegister
  <2>2. ASSUME was.todo = <<MaskWrite(job.address, job.bit, job.on)>>
        PROVE request.address = job.address /\ ~fetched /\ was.todo # << >>
    BY <2>2 DEF MaskWrite
  <2>3. ASSUME was.todo = <<Fetch(job.address)>>
        PROVE request.address = job.address /\ was.todo # << >>
    BY <2>3 DEF Fetch
  <2>4. ASSUME NEW v, was.todo = <<WriteBack(job.address, job.bit, v)>>
        PROVE request.address = job.address /\ ~fetched /\ was.todo # << >>
    BY <2>4 DEF WriteBack
  <2> QED
    BY <1>4, <2>1, <2>2, <2>3, <2>4 DEF ToSend
<1>9. job.op = "register" => request.kind = "write"
  BY <1>4 DEF ToSend, WriteRegister, NeedsBitLock
<1>10. /\ Outcome(code) \in Outcomes /\ Outcome(code) # "none"
       /\ Outcome(code) = "ok" <=> code = "ok"
  BY OutcomeFacts
<1>11. /\ again => next = tries
       /\ fetched => next = back
       /\ halved => next = halves
       /\ job.op = "read" /\ ~again /\ ~halved => next = read
       /\ ~again /\ ~fetched /\ ~halved /\ job.op # "read" => next = ends
  <2>1. next = CASE again -> tries
                 [] fetched -> back
                 [] halved -> halves
                 [] job.op = "read" /\ ~again /\ ~halved -> read
                 [] OTHER -> ends
    BY DEF Resumes
  <2>2. /\ again \in BOOLEAN /\ fetched \in BOOLEAN /\ halved \in BOOLEAN
        /\ ~(again /\ fetched) /\ ~(again /\ halved) /\ ~(fetched /\ halved)
        /\ fetched => job.op # "read"
    OBVIOUS
  <2> HIDE DEF next, again, fetched, halved, tries, back, halves, read, ends
  <2> QED
    BY <2>1, <2>2
<1> HIDE DEF next, now, was, value, tries, back, halves, read, ends, again, fetched, halved
<1>12. ASSUME job.op = "read" PROVE Goal
  <2>1. /\ DOMAIN next = Fields
        /\ next.at \in {"ask", "busy", "done"} /\ next.job = job
        /\ next.outcome \in Outcomes /\ next.tries \in 0 .. BusyTries - 1
        /\ next.applied \in 0 .. 1
    <3>1. now.applied \in 0 .. 1 /\ now.outcome \in Outcomes /\ 0 \in 0 .. BusyTries - 1
      BY <1>2, <1>3, <1>5, <1>12
    <3>2. /\ now.at = "ask" /\ now.job = job /\ now.tries = 0
          /\ DOMAIN now = Fields
      BY <1>2
    <3>3. CASE again
      <4>1. next = tries
        BY <1>11, <3>3
      <4>2. was.tries + 1 \in 0 .. BusyTries - 1
        BY <3>3, <1>3 DEF again
      <4> QED
        BY <4>1, <4>2, <3>1, <3>2 DEF Fields, tries
    <3>4. CASE halved
      <4>1. next = halves
        BY <1>11, <3>4
      <4> QED
        BY <4>1, <3>1, <3>2 DEF Fields, halves
    <3>5. CASE ~again /\ ~halved
      <4>1. next = read
        BY <1>11, <1>12, <3>5
      <4> QED
        BY <4>1, <3>1, <3>2 DEF Fields, read
    <3> QED
      BY <3>3, <3>4, <3>5
  <2> QED
    BY <2>1, <1>3, <1>12 DEF IsTask, Backing, Places, NoJob
<1>13. ASSUME job.op \in {"register", "bit"} PROVE Goal
  <2>0. job.op # "read" /\ was.applied = 0 /\ ToSend(t, was)
    BY <1>13, <1>4
  <2>1. CASE again
    <3>1. next = tries
      BY <1>11, <2>1
    <3>2. ~Writes(t) /\ was.tries + 1 \in 0 .. BusyTries - 1
      BY <2>1, <1>3 DEF again, Repeats
    <3>3. /\ DOMAIN next = Fields
          /\ next.at = "busy" /\ next.job = job /\ next.todo = was.todo
          /\ next.outcome = was.outcome /\ next.tries = was.tries + 1
          /\ next.applied = 0
      BY <3>1, <3>2, <1>2, <2>0 DEF Fields, tries
    <3>4. ToSend(t, next)
      BY <3>3, <2>0, <1>3, ToSendIsOf
    <3>5. ~Backing(next)
      BY <3>2, <3>3, <1>6, <1>13 DEF Backing, was
    <3> QED
      BY <3>2, <3>3, <3>4, <3>5, <1>3, <1>13 DEF IsTask, Places
  <2>2. CASE fetched
    <3>1. next = back
      BY <1>11, <2>2
    <3>2. ~Writes(t) /\ NeedsBitLock(UnitOf[t], job) /\ request.address = job.address
      BY <2>2, <1>6, <1>8, <1>13 DEF fetched
    <3>3. job.op = "bit"
      BY <3>2 DEF NeedsBitLock
    <3>4. value = SetBit(register[UnitOf[t]][job.address], job.bit, job.on)
      BY <3>2 DEF value
    <3>5. value \in SUBSET Bits
      <4>1. register[UnitOf[t]][job.address] \in SUBSET Bits
        BY <1>7, <3>3 DEF UnitInv
      <4> QED
        BY <4>1, <3>4, <1>7, <3>3 DEF SetBit
    <3>6. /\ DOMAIN next = Fields
          /\ next.at = "ask" /\ next.job = job
          /\ next.todo = <<WriteBack(job.address, job.bit, value)>>
          /\ next.outcome = was.outcome /\ next.tries = 0 /\ next.applied = 0
      BY <3>1, <3>2, <1>2, <2>0 DEF Fields, back
    <3>7. ToSend(t, next)
      BY <3>2, <3>5, <3>6 DEF ToSend
    <3>8. Head(next.todo) = WriteBack(job.address, job.bit, value)
      BY <3>6
    <3>9. IsTask(t, next)
      BY <3>3, <3>6, <3>7, <1>3 DEF IsTask, Places
    <3> QED
      BY <3>2, <3>4, <3>6, <3>8, <3>9
  <2>3. CASE ~again /\ ~fetched
    <3>1. next = ends
      BY <1>11, <2>3, <2>0 DEF halved
    <3>2. /\ DOMAIN next = Fields
          /\ next.at = "done" /\ next.job = job /\ next.todo = << >>
          /\ next.outcome = Outcome(code) /\ next.tries = 0
          /\ next.applied = IF taken /\ Writes(t) THEN 1 ELSE 0
      BY <3>1, <1>2, <2>0 DEF Fields, ends
    <3>3. Reported(next)
      <4>1. CASE code = "ok"
        BY <4>1, <2>3, <3>2, <1>6, <1>9, <1>10, <1>13 DEF Reported, fetched
      <4>2. CASE code # "ok"
        BY <4>2, <3>2, <1>10 DEF Reported
      <4> QED
        BY <4>1, <4>2
    <3> QED
      BY <3>2, <3>3, <1>3, <1>10, <1>13 DEF IsTask, Places, Backing
  <2> QED
    BY <2>1, <2>2, <2>3
<1> HIDE DEF Goal
<1>14. Goal
  BY <1>12, <1>13
<1> QED
  BY <1>14 DEF Goal, next

-----------------------------------------------------------------------------
\* The invariant.

\* A task is in the middle of its turn where it does not wait.
TurnInv ==
    /\ turn \in Tasks \union {Nobody}
    /\ \A t \in Tasks : task[t].at \in {"ask", "done"} <=> turn = t

\* In the connection's line are the tasks with a request to send, or the link to open or close.
LineInv == Lined(line, {t \in Tasks : task[t].at = "line"})

\* In a bit lock's line are the tasks that read and write back its register, and all but the
\* first wait for it.
Locking(l) == {t \in Tasks : NeedsBitLock(UnitOf[t], task[t].job) /\ BitLock(t) = l}
BitLineInv ==
    /\ DOMAIN bitLine = Units \X Registers
    /\ \A l \in Units \X Registers : Lined(bitLine[l], Locking(l))
    /\ \A t \in Tasks :
        NeedsBitLock(UnitOf[t], task[t].job) /\ task[t].at # "bit" =>
            bitLine[BitLock(t)] # << >> /\ Head(bitLine[BitLock(t)]) = t

BreakerType ==
    [state : {"closed", "open", "due", "gave_up"}, unanswered : 0 .. After,
     probe : Tasks \union {Nobody}]
LinkInv ==
    /\ link \in {"closed", "open", "dead"}
    /\ breaker \in [Units -> BreakerType]

\* What a task writes back has the other bits as they were promised.
Agrees(u, job, value) ==
    \A b \in Bits \ {job.bit} :
        /\ promised[u][job.address][b] = "on" => b \in value
        /\ promised[u][job.address][b] = "off" => b \notin value
BackInv ==
    \A t \in Tasks :
        Backing(task[t]) => Agrees(UnitOf[t], task[t].job, Head(task[t].todo).value)

DeviceInv ==
    /\ TaskInv
    /\ TurnInv
    /\ LineInv
    /\ BitLineInv
    /\ LinkInv
    /\ UnitInv
    /\ BackInv
    /\ BitsKept

\* What a task's step may do to the connection's line.
LineStep(t, now) ==
    \/ line' = line /\ (task[t].at = "line" <=> now.at = "line")
    \/ line' = Append(line, t) /\ task[t].at # "line" /\ now.at = "line"
    \/ line' = Tail(line) /\ line # << >> /\ Head(line) = t /\ now.at # "line"
    \/ line' = RemoveFirst(line, t) /\ now.at # "line"

LEMMA GoesKeepsTasks ==
    ASSUME ModbusDeviceAssumption, TaskInv, TurnInv, NEW t \in Tasks, turn \in {Nobody, t},
           NEW now, IsTask(t, now), Goes(t, now), bitWriting' = bitWriting
    PROVE TaskInv' /\ TurnInv'
<1>1. DOMAIN task = Tasks /\ Nobody \notin Tasks
  BY DEF TaskInv, ModbusDeviceAssumption
<1>2. /\ DOMAIN task' = Tasks
      /\ task'[t] = now
      /\ \A u \in Tasks : u # t => task'[u] = task[u]
  BY <1>1 DEF Goes
<1>3. \A u, r : IsTask(u, r) => IsTask(u, r)'
  BY DEF IsTask, ToSend, NeedsBitLock
<1>4. TaskInv'
  BY <1>2, <1>3 DEF TaskInv
<1>5. TurnInv'
  BY <1>1, <1>2 DEF TurnInv, Goes
<1> QED
  BY <1>4, <1>5

LEMMA LineStepKeeps ==
    ASSUME LineInv, NEW t \in Tasks, NEW now, DOMAIN task = Tasks,
           task' = [task EXCEPT ![t] = now], LineStep(t, now)
    PROVE LineInv'
<1> DEFINE S == {u \in Tasks : task[u].at = "line"}
           N == {u \in Tasks : task'[u].at = "line"}
<1>1. /\ task'[t] = now
      /\ \A u \in Tasks : u # t => task'[u] = task[u]
      /\ Lined(line, S)
  BY DEF LineInv
<1> SUFFICES Lined(line', N)
  BY DEF LineInv, Lined
<1>2. CASE line' = line /\ (task[t].at = "line" <=> now.at = "line")
  <2>1. N = S
    BY <1>1, <1>2
  <2> QED
    BY <2>1, <1>1, <1>2
<1>3. CASE line' = Append(line, t) /\ task[t].at # "line" /\ now.at = "line"
  <2>1. N = S \union {t} /\ t \notin S
    BY <1>1, <1>3
  <2> HIDE DEF N, S
  <2> QED
    BY <2>1, <1>1, <1>3, AppendLined
<1>4. CASE line' = Tail(line) /\ line # << >> /\ Head(line) = t /\ now.at # "line"
  <2>1. N = S \ {t}
    BY <1>1, <1>4
  <2> HIDE DEF N, S
  <2> QED
    BY <2>1, <1>1, <1>4, TailLined
<1>5. CASE line' = RemoveFirst(line, t) /\ now.at # "line"
  <2>1. N = S \ {t}
    BY <1>1, <1>5
  <2> HIDE DEF N, S
  <2> QED
    BY <2>1, <1>1, <1>5, RemovedLined
<1> QED
  BY <1>2, <1>3, <1>4, <1>5 DEF LineStep

\* A bit's lock is one of those there are, and has a line as long as a task needs it.
LEMMA BitLockHasLine ==
    ASSUME ModbusDeviceAssumption, TaskInv, BitLineInv, NEW t \in Tasks,
           NeedsBitLock(UnitOf[t], task[t].job)
    PROVE /\ BitLock(t) \in Units \X Registers
          /\ Lined(bitLine[BitLock(t)], Locking(BitLock(t)))
          /\ t \in Locking(BitLock(t))
          /\ bitLine[BitLock(t)] # << >>
<1>1. task[t].job \in Jobs[t] \union {NoJob} /\ task[t].job.op = "bit"
  BY DEF TaskInv, IsTask, NeedsBitLock
<1>2. BitLock(t) \in Units \X Registers
  BY <1>1, JobFacts DEF BitLock, ModbusDeviceAssumption
<1>3. Lined(bitLine[BitLock(t)], Locking(BitLock(t)))
  BY <1>2 DEF BitLineInv
<1>4. t \in Locking(BitLock(t))
  BY DEF Locking
<1>5. bitLine[BitLock(t)] # << >>
  BY <1>3, <1>4 DEF Lined, Range
<1> QED
  BY <1>2, <1>3, <1>4, <1>5

\* The bit locks are as they were while no task has another job.
LEMMA SameBitLines ==
    ASSUME ModbusDeviceAssumption, TaskInv, BitLineInv, NEW t \in Tasks, NEW now,
           task' = [task EXCEPT ![t] = now], now.job = task[t].job,
           UNCHANGED <<bitLine, bitWriting>>,
           NeedsBitLock(UnitOf[t], now.job) /\ now.at # "bit" /\ task[t].at = "bit" =>
                Head(bitLine[BitLock(t)]) = t
    PROVE BitLineInv'
<1>1. \A u \in Tasks :
        /\ task'[u].job = task[u].job
        /\ BitLock(u)' = BitLock(u)
        /\ task'[u] = IF u = t THEN now ELSE task[u]
  BY DEF TaskInv, BitLock
<1>2. \A u, j : NeedsBitLock(UnitOf[u], j)' <=> NeedsBitLock(UnitOf[u], j)
  BY DEF NeedsBitLock
<1>3. \A l \in Units \X Registers : Locking(l)' = Locking(l)
  BY <1>1, <1>2 DEF Locking
<1>4. \A l \in Units \X Registers : Lined(bitLine'[l], Locking(l)')
  BY <1>3 DEF BitLineInv
<1>5. ASSUME NEW u \in Tasks, NeedsBitLock(UnitOf[u], task[u].job)', task'[u].at # "bit"
      PROVE bitLine'[BitLock(u)'] # << >> /\ Head(bitLine'[BitLock(u)']) = u
  <2>1. NeedsBitLock(UnitOf[u], task[u].job)
    BY <1>1, <1>2, <1>5
  <2>2. bitLine[BitLock(u)] # << >>
    BY <2>1, BitLockHasLine
  <2>3. Head(bitLine[BitLock(u)]) = u
    BY <1>1, <1>5, <2>1 DEF BitLineInv
  <2> QED
    BY <1>1, <2>2, <2>3
<1>6. DOMAIN bitLine' = Units \X Registers
  BY DEF BitLineInv
<1> QED
  BY <1>4, <1>5, <1>6 DEF BitLineInv, Lined

\* A task that has nothing to do is asked to do something, and may have to wait for a bit's lock,
LEMMA BitLockTaken ==
    ASSUME ModbusDeviceAssumption, TaskInv, BitLineInv, NEW t \in Tasks, NEW now,
           task' = [task EXCEPT ![t] = now], bitWriting' = bitWriting,
           task[t].job = NoJob, now.job \in Jobs[t],
           NEW l, l = <<UnitOf[t], now.job.address>>,
           \/ ~NeedsBitLock(UnitOf[t], now.job) /\ bitLine' = bitLine
           \/ /\ NeedsBitLock(UnitOf[t], now.job)
              /\ bitLine' = [bitLine EXCEPT ![l] = Append(bitLine[l], t)]
              /\ now.at = IF bitLine[l] = << >> THEN "ask" ELSE "bit"
    PROVE BitLineInv'
<1>1. /\ task'[t] = now
      /\ \A u \in Tasks : u # t => task'[u] = task[u] /\ BitLock(u)' = BitLock(u)
      /\ BitLock(t)' = l
  BY DEF TaskInv, BitLock
<1>2. \A u, j : NeedsBitLock(UnitOf[u], j)' <=> NeedsBitLock(UnitOf[u], j)
  BY DEF NeedsBitLock
<1>3. ~NeedsBitLock(UnitOf[t], task[t].job)
  BY DEF NeedsBitLock, NoJob
<1>4. DOMAIN bitLine = Units \X Registers
  BY DEF BitLineInv
<1>5. CASE ~NeedsBitLock(UnitOf[t], now.job) /\ bitLine' = bitLine
  <2>1. \A m \in Units \X Registers : Locking(m)' = Locking(m)
    BY <1>1, <1>2, <1>3, <1>5 DEF Locking
  <2>2. \A m \in Units \X Registers : Lined(bitLine'[m], Locking(m)')
    BY <2>1, <1>5 DEF BitLineInv
  <2>3. ASSUME NEW u \in Tasks, NeedsBitLock(UnitOf[u], task[u].job)', task'[u].at # "bit"
        PROVE bitLine'[BitLock(u)'] # << >> /\ Head(bitLine'[BitLock(u)']) = u
    <3>1. u # t /\ task'[u] = task[u] /\ BitLock(u)' = BitLock(u)
      BY <2>3, <1>1, <1>2, <1>5
    <3> QED
      BY <3>1, <2>3, <1>2, <1>5 DEF BitLineInv
  <2> QED
    BY <2>2, <2>3, <1>4, <1>5 DEF BitLineInv, Lined
<1>6. CASE /\ NeedsBitLock(UnitOf[t], now.job)
           /\ bitLine' = [bitLine EXCEPT ![l] = Append(bitLine[l], t)]
           /\ now.at = IF bitLine[l] = << >> THEN "ask" ELSE "bit"
  <2>1. l \in Units \X Registers
    BY <1>6, JobFacts DEF NeedsBitLock, ModbusDeviceAssumption
  <2>2. \A m \in Units \X Registers : Locking(m)' = IF m = l THEN Locking(l) \union {t} ELSE Locking(m)
    <3> SUFFICES ASSUME NEW m \in Units \X Registers, NEW u \in Tasks
                 PROVE u \in Locking(m)' <=> u \in IF m = l THEN Locking(l) \union {t} ELSE Locking(m)
      BY DEF Locking
    <3>1. CASE u = t
      BY <3>1, <1>1, <1>2, <1>3, <1>6 DEF Locking
    <3>2. CASE u # t
      BY <3>2, <1>1, <1>2 DEF Locking
    <3> QED
      BY <3>1, <3>2
  <2>3. t \notin Locking(l) /\ Lined(bitLine[l], Locking(l))
    BY <1>3, <2>1 DEF Locking, BitLineInv
  <2>4. /\ Lined(Append(bitLine[l], t), Locking(l) \union {t})
        /\ Append(bitLine[l], t) # << >>
        /\ Head(Append(bitLine[l], t)) = IF bitLine[l] = << >> THEN t ELSE Head(bitLine[l])
    BY <2>3, AppendLined
  <2>5. \A m \in Units \X Registers : bitLine'[m] = IF m = l THEN Append(bitLine[l], t) ELSE bitLine[m]
    BY <1>4, <1>6
  <2>6. \A m \in Units \X Registers : Lined(bitLine'[m], Locking(m)')
    BY <2>2, <2>4, <2>5 DEF BitLineInv
  <2>7. ASSUME NEW u \in Tasks, NeedsBitLock(UnitOf[u], task[u].job)', task'[u].at # "bit"
        PROVE bitLine'[BitLock(u)'] # << >> /\ Head(bitLine'[BitLock(u)']) = u
    <3>1. CASE u = t
      <4>1. bitLine[l] = << >>
        BY <3>1, <2>7, <1>1, <1>6
      <4>2. bitLine'[l] = Append(bitLine[l], t)
        BY <2>1, <2>5
      <4> QED
        BY <3>1, <4>1, <4>2, <2>4, <1>1
    <3>2. CASE u # t
      <4>1. NeedsBitLock(UnitOf[u], task[u].job) /\ task[u].at # "bit" /\ BitLock(u)' = BitLock(u)
        BY <3>2, <2>7, <1>1, <1>2
      <4>2. bitLine[BitLock(u)] # << >> /\ Head(bitLine[BitLock(u)]) = u
        BY <4>1 DEF BitLineInv
      <4>3. BitLock(u) \in Units \X Registers
        BY <4>1, BitLockHasLine
      <4> QED
        BY <4>1, <4>2, <4>3, <2>4, <2>5
    <3> QED
      BY <3>1, <3>2
  <2>8. DOMAIN bitLine' = Units \X Registers
    BY <1>4, <1>6
  <2> QED
    BY <2>6, <2>7, <2>8 DEF BitLineInv, Lined
<1> QED
  BY <1>5, <1>6

\* and one that is done, or is cancelled, lets go of it, or waits for it no more.
LEMMA BitLockLeft ==
    ASSUME ModbusDeviceAssumption, TaskInv, BitLineInv, NEW t \in Tasks, NEW now,
           task' = [task EXCEPT ![t] = now], bitWriting' = bitWriting,
           now.job = NoJob,
           NEW l, l = BitLock(t), NEW rest,
           \/ ~NeedsBitLock(UnitOf[t], task[t].job) /\ bitLine' = bitLine
           \/ /\ NeedsBitLock(UnitOf[t], task[t].job)
              /\ bitLine' = [bitLine EXCEPT ![l] = rest]
              /\ \/ rest = Tail(bitLine[l]) /\ task[t].at # "bit"
                 \/ rest = RemoveFirst(bitLine[l], t)
    PROVE BitLineInv'
<1>1. /\ task'[t] = now
      /\ \A u \in Tasks : u # t => task'[u] = task[u] /\ BitLock(u)' = BitLock(u)
  BY DEF TaskInv, BitLock
<1>2. \A u, j : NeedsBitLock(UnitOf[u], j)' <=> NeedsBitLock(UnitOf[u], j)
  BY DEF NeedsBitLock
<1>3. ~NeedsBitLock(UnitOf[t], now.job)
  BY DEF NeedsBitLock, NoJob
<1>4. DOMAIN bitLine = Units \X Registers
  BY DEF BitLineInv
<1>5. CASE ~NeedsBitLock(UnitOf[t], task[t].job) /\ bitLine' = bitLine
  <2>1. \A m \in Units \X Registers : Locking(m)' = Locking(m)
    BY <1>1, <1>2, <1>3, <1>5 DEF Locking
  <2>2. \A m \in Units \X Registers : Lined(bitLine'[m], Locking(m)')
    BY <2>1, <1>5 DEF BitLineInv
  <2>3. ASSUME NEW u \in Tasks, NeedsBitLock(UnitOf[u], task[u].job)', task'[u].at # "bit"
        PROVE bitLine'[BitLock(u)'] # << >> /\ Head(bitLine'[BitLock(u)']) = u
    <3>1. u # t /\ task'[u] = task[u] /\ BitLock(u)' = BitLock(u)
      BY <2>3, <1>1, <1>2, <1>3
    <3> QED
      BY <3>1, <2>3, <1>2, <1>5 DEF BitLineInv
  <2> QED
    BY <2>2, <2>3, <1>4, <1>5 DEF BitLineInv, Lined
<1>6. CASE /\ NeedsBitLock(UnitOf[t], task[t].job)
           /\ bitLine' = [bitLine EXCEPT ![l] = rest]
           /\ \/ rest = Tail(bitLine[l]) /\ task[t].at # "bit"
              \/ rest = RemoveFirst(bitLine[l], t)
  <2>1. /\ l \in Units \X Registers
        /\ Lined(bitLine[l], Locking(l))
        /\ bitLine[l] # << >>
    BY <1>6, BitLockHasLine
  <2>2. \A m \in Units \X Registers : Locking(m)' = IF m = l THEN Locking(l) \ {t} ELSE Locking(m)
    <3> SUFFICES ASSUME NEW m \in Units \X Registers, NEW u \in Tasks
                 PROVE u \in Locking(m)' <=> u \in IF m = l THEN Locking(l) \ {t} ELSE Locking(m)
      BY DEF Locking
    <3>1. CASE u = t
      BY <3>1, <1>1, <1>2, <1>3, <1>6 DEF Locking
    <3>2. CASE u # t
      BY <3>2, <1>1, <1>2 DEF Locking
    <3> QED
      BY <3>1, <3>2
  <2>3. task[t].at # "bit" => Head(bitLine[l]) = t
    BY <1>6 DEF BitLineInv
  <2>4. /\ Lined(rest, Locking(l) \ {t})
        /\ Head(bitLine[l]) # t => rest # << >> /\ Head(rest) = Head(bitLine[l])
    <3>1. CASE rest = Tail(bitLine[l]) /\ task[t].at # "bit"
      BY <3>1, <2>1, <2>3, TailLined
    <3>2. CASE rest = RemoveFirst(bitLine[l], t)
      BY <3>2, <2>1, RemovedLined
    <3> QED
      BY <3>1, <3>2, <1>6
  <2>5. \A m \in Units \X Registers : bitLine'[m] = IF m = l THEN rest ELSE bitLine[m]
    BY <1>4, <1>6
  <2>6. \A m \in Units \X Registers : Lined(bitLine'[m], Locking(m)')
    BY <2>2, <2>4, <2>5 DEF BitLineInv
  <2>7. ASSUME NEW u \in Tasks, NeedsBitLock(UnitOf[u], task[u].job)', task'[u].at # "bit"
        PROVE bitLine'[BitLock(u)'] # << >> /\ Head(bitLine'[BitLock(u)']) = u
    <3>1. u # t
      BY <2>7, <1>1, <1>2, <1>3
    <3>2. NeedsBitLock(UnitOf[u], task[u].job) /\ task[u].at # "bit" /\ BitLock(u)' = BitLock(u)
      BY <3>1, <2>7, <1>1, <1>2
    <3>3. bitLine[BitLock(u)] # << >> /\ Head(bitLine[BitLock(u)]) = u
      BY <3>2 DEF BitLineInv
    <3>4. BitLock(u) \in Units \X Registers
      BY <3>2, BitLockHasLine
    <3> QED
      BY <3>1, <3>2, <3>3, <3>4, <2>4, <2>5
  <2>8. DOMAIN bitLine' = Units \X Registers
    BY <1>4, <1>6
  <2> QED
    BY <2>6, <2>7, <2>8 DEF BitLineInv, Lined
<1> QED
  BY <1>5, <1>6

-----------------------------------------------------------------------------
\* The registers, and what was promised of their bits.

\* Nothing is written, and a task that is to write a register back has just read it, or had
\* before.
LEMMA SameValues ==
    ASSUME UnitInv, TaskInv, BackInv, BitsKept, NEW t \in Tasks, NEW now,
           task' = [task EXCEPT ![t] = now], UNCHANGED <<register, promised, bitWriting>>,
           Backing(now) => Agrees(UnitOf[t], now.job, Head(now.todo).value)
    PROVE UnitInv' /\ BackInv' /\ BitsKept'
<1>1. \A u \in Tasks : task'[u] = IF u = t THEN now ELSE task[u]
  BY DEF TaskInv
<1>2. \A u, j, v : Agrees(u, j, v)' <=> Agrees(u, j, v)
  BY DEF Agrees
<1>3. BackInv'
  BY <1>1, <1>2 DEF BackInv, Backing
<1> QED
  BY <1>3 DEF UnitInv, BitsKept

\* What a task writes is the register, a bit of it, or the register as it read it.
LEMMA WritesWhat ==
    ASSUME ModbusDeviceAssumption, TaskInv, NEW t \in Tasks,
           task[t].job.op \in Requesting, task[t].at # "done", Writes(t)
    PROVE LET job == task[t].job
              request == Head(task[t].todo) IN
          /\ UnitOf[t] \in Units /\ job.address \in Registers
          /\ \/ /\ job.op = "register" /\ job.value \in SUBSET Bits
                /\ request = WriteRegister(job.address, job.value)
             \/ /\ job.op = "bit" /\ ~NeedsBitLock(UnitOf[t], job) /\ job.bit \in Bits
                /\ request = MaskWrite(job.address, job.bit, job.on)
             \/ /\ NeedsBitLock(UnitOf[t], job) /\ task[t].at # "bit" /\ job.bit \in Bits
                /\ job.op = "bit" /\ Backing(task[t])
                /\ \E value \in SUBSET Bits : request = WriteBack(job.address, job.bit, value)
<1> DEFINE job == task[t].job
           todo == task[t].todo
<1>1. /\ job.op \in {"register", "bit"} /\ Head(todo).kind # "fetch"
      /\ job \in Jobs[t] \union {NoJob}
  BY DEF Writes, Requesting, TaskInv, IsTask
<1>2. ToSend(t, task[t])
  BY <1>1 DEF TaskInv, IsTask
<1>3. /\ UnitOf[t] \in Units /\ job.address \in Registers
      /\ job.op = "register" => job.value \in SUBSET Bits
      /\ job.op = "bit" => job.bit \in Bits
  BY <1>1, JobFacts DEF ModbusDeviceAssumption
<1>4. ASSUME job.op = "register", todo = <<WriteRegister(job.address, job.value)>>
      PROVE Head(todo) = WriteRegister(job.address, job.value)
  BY <1>4
<1>5. ASSUME todo = <<MaskWrite(job.address, job.bit, job.on)>>
      PROVE Head(todo) = MaskWrite(job.address, job.bit, job.on)
  BY <1>5
<1>6. todo # <<Fetch(job.address)>>
  BY <1>1 DEF Fetch
<1>7. ASSUME NEW value \in SUBSET Bits, todo = <<WriteBack(job.address, job.bit, value)>>,
             job.op = "bit"
      PROVE Head(todo) = WriteBack(job.address, job.bit, value) /\ Backing(task[t])
  BY <1>7 DEF WriteBack, Backing
<1>8. NeedsBitLock(UnitOf[t], job) => job.op = "bit"
  BY DEF NeedsBitLock
<1> QED
  BY <1>2, <1>3, <1>4, <1>5, <1>6, <1>7, <1>8 DEF ToSend

\* A task that is to write a register back has its lock.
LEMMA BackingLocks ==
    ASSUME ModbusDeviceAssumption, TaskInv, BitLineInv, NEW t \in Tasks, Backing(task[t])
    PROVE /\ NeedsBitLock(UnitOf[t], task[t].job) /\ task[t].at # "bit"
          /\ Head(bitLine[BitLock(t)]) = t
          /\ UnitOf[t] \in Units /\ task[t].job.address \in Registers
<1> DEFINE job == task[t].job
           todo == task[t].todo
<1>1. /\ job.op = "bit" /\ todo # << >> /\ Head(todo).kind = "back"
      /\ job \in Jobs[t] \union {NoJob}
  BY DEF Backing, TaskInv, IsTask
<1>2. ToSend(t, task[t])
  BY <1>1 DEF TaskInv, IsTask
<1>3. todo # <<MaskWrite(job.address, job.bit, job.on)>> /\ todo # <<Fetch(job.address)>>
  BY <1>1 DEF MaskWrite, Fetch
<1>4. NeedsBitLock(UnitOf[t], job) /\ task[t].at # "bit"
  BY <1>1, <1>2, <1>3 DEF ToSend
<1> QED
  BY <1>1, <1>4, JobFacts DEF BitLineInv, ModbusDeviceAssumption

\* A write is done: the unit has its value, and the bits it was not to write are as promised.
LEMMA TakesKeeps ==
    ASSUME ModbusDeviceAssumption, TaskInv, BitLineInv, UnitInv, BackInv, BitsKept,
           NEW t \in Tasks, task[t].job.op \in Requesting, task[t].at # "done",
           NEW told \in BOOLEAN, Writes(t), Takes(t, TRUE, told), bitWriting' = bitWriting,
           NEW now, task' = [task EXCEPT ![t] = now], ~Backing(now)
    PROVE UnitInv' /\ BackInv' /\ BitsKept'
<1> DEFINE u == UnitOf[t]
           job == task[t].job
           a == job.address
           request == Head(task[t].todo)
           value == IF request.kind = "mask"
                    THEN SetBit(register[u][request.address],
                                CHOOSE b \in request.bits : TRUE, request.on)
                    ELSE request.value
           promise(b) == IF ~told \/ request.kind = "write" THEN "nothing"
                         ELSE IF b \in value THEN "on" ELSE "off"
           said == [b \in Bits |-> IF b \in request.bits THEN promise(b) ELSE promised[u][a][b]]
<1>1. /\ u \in Units /\ a \in Registers
      /\ \/ /\ job.op = "register" /\ job.value \in SUBSET Bits
            /\ request = WriteRegister(a, job.value)
         \/ /\ job.op = "bit" /\ ~NeedsBitLock(u, job) /\ job.bit \in Bits
            /\ request = MaskWrite(a, job.bit, job.on)
         \/ /\ NeedsBitLock(u, job) /\ task[t].at # "bit" /\ job.bit \in Bits
            /\ job.op = "bit" /\ Backing(task[t])
            /\ \E v \in SUBSET Bits : request = WriteBack(a, job.bit, v)
  BY WritesWhat
<1>2. /\ request.address = a
      /\ \/ /\ request.kind = "write" /\ request.bits = Bits /\ request.value \in SUBSET Bits
         \/ /\ request.kind = "mask" /\ request.bits = {job.bit} /\ job.bit \in Bits
            /\ job.op = "bit" /\ ~NeedsBitLock(u, job)
         \/ /\ request.kind = "back" /\ request.bits = {job.bit} /\ request.value \in SUBSET Bits
            /\ Backing(task[t])
  <2>1. ASSUME job.value \in SUBSET Bits, request = WriteRegister(a, job.value)
        PROVE /\ request.address = a /\ request.kind = "write" /\ request.bits = Bits
              /\ request.value \in SUBSET Bits
    BY <2>1 DEF WriteRegister
  <2>2. ASSUME request = MaskWrite(a, job.bit, job.on)
        PROVE request.address = a /\ request.kind = "mask" /\ request.bits = {job.bit}
    BY <2>2 DEF MaskWrite
  <2>3. ASSUME NEW v \in SUBSET Bits, request = WriteBack(a, job.bit, v)
        PROVE /\ request.address = a /\ request.kind = "back" /\ request.bits = {job.bit}
              /\ request.value \in SUBSET Bits
    BY <2>3 DEF WriteBack
  <2> HIDE DEF request
  <2> QED
    BY <1>1, <2>1, <2>2, <2>3
<1>3. /\ register' = [register EXCEPT ![u][a] = value]
      /\ promised' = [promised EXCEPT ![u][a] = said]
  BY <1>2 DEF Takes
<1>4. /\ register[u][a] \in SUBSET Bits
      /\ promised[u][a] \in [Bits -> {"on", "off", "nothing"}]
  BY <1>1 DEF UnitInv
<1>5. \A b \in Bits :
        /\ promised[u][a][b] = "on" => b \in register[u][a]
        /\ promised[u][a][b] = "off" => b \notin register[u][a]
  BY <1>1 DEF BitsKept
\* The value, and that of the bits it is not meant to change it changes none, or there is none.
<1>6. /\ value \in SUBSET Bits
      /\ \A b \in Bits \ request.bits :
            /\ promised[u][a][b] = "on" => b \in value
            /\ promised[u][a][b] = "off" => b \notin value
  <2>1. CASE request.kind = "write"
    BY <2>1, <1>2
  <2>2. CASE request.kind = "mask"
    <3>1. (CHOOSE b \in request.bits : TRUE) = job.bit
      BY <2>2, <1>2
    <3>2. value = SetBit(register[u][a], job.bit, request.on)
      BY <2>2, <3>1, <1>2
    <3> HIDE DEF value
    <3>3. \A b \in Bits \ {job.bit} : b \in value <=> b \in register[u][a]
      BY <3>2 DEF SetBit
    <3>4. value \in SUBSET Bits
      BY <3>2, <2>2, <1>2, <1>4 DEF SetBit
    <3> QED
      BY <3>3, <3>4, <2>2, <1>2, <1>5
  <2>3. CASE request.kind = "back"
    <3>1. Agrees(u, job, request.value)
      BY <2>3, <1>2 DEF BackInv
    <3> QED
      BY <3>1, <2>3, <1>2 DEF Agrees
  <2> QED
    BY <1>2, <2>1, <2>2, <2>3
<1>7. /\ said \in [Bits -> {"on", "off", "nothing"}]
      /\ \A b \in Bits : (said[b] = "on" => b \in value) /\ (said[b] = "off" => b \notin value)
      /\ request.kind = "write" => \A b \in Bits : said[b] = "nothing"
  BY <1>2, <1>4, <1>6
<1> HIDE DEF value, said, request
<1>8. UnitInv'
  BY <1>1, <1>3, <1>6, <1>7 DEF UnitInv
<1>9. \A v \in Units, r \in Registers :
        /\ register'[v][r] = IF v = u /\ r = a THEN value ELSE register[v][r]
        /\ promised'[v][r] = IF v = u /\ r = a THEN said ELSE promised[v][r]
  BY <1>1, <1>3 DEF UnitInv
<1>10. BitsKept'
  BY <1>7, <1>9 DEF BitsKept
<1>11. ASSUME NEW w \in Tasks, Backing(task[w])'
       PROVE Agrees(UnitOf[w], task[w].job, Head(task[w].todo).value)'
  <2>1. w # t /\ task'[w] = task[w]
    BY <1>11 DEF TaskInv, Backing
  <2>2. Backing(task[w])
    BY <1>11, <2>1 DEF Backing
  <2>3. Agrees(UnitOf[w], task[w].job, Head(task[w].todo).value)
    BY <2>2 DEF BackInv
  <2>4. /\ NeedsBitLock(UnitOf[w], task[w].job)
        /\ Head(bitLine[BitLock(w)]) = w
        /\ UnitOf[w] \in Units /\ task[w].job.address \in Registers
    BY <2>2, BackingLocks
  <2>5. CASE ~(UnitOf[w] = u /\ task[w].job.address = a)
    <3>1. promised'[UnitOf[w]][task[w].job.address] = promised[UnitOf[w]][task[w].job.address]
      BY <1>9, <2>4, <2>5
    <3> QED
      BY <3>1, <2>1, <2>3 DEF Agrees
  <2>6. CASE UnitOf[w] = u /\ task[w].job.address = a
    <3>1. request.kind # "mask"
      BY <2>4, <2>6, <1>2 DEF NeedsBitLock
    <3>2. request.kind # "back"
      <4>1. ASSUME Backing(task[t]) PROVE FALSE
        BY <4>1, <2>1, <2>4, <2>6, BackingLocks DEF BitLock
      <4> QED
        BY <4>1, <1>2
    <3>3. request.kind = "write"
      BY <3>1, <3>2, <1>2
    <3>4. \A b \in Bits : promised'[u][a][b] = "nothing"
      BY <3>3, <1>1, <1>7, <1>9
    <3> QED
      BY <3>4, <2>1, <2>6 DEF Agrees
  <2> QED
    BY <2>5, <2>6
<1>12. BackInv'
  BY <1>11 DEF BackInv
<1> QED
  BY <1>8, <1>10, <1>12

-----------------------------------------------------------------------------
\* The steps.

\* A task goes on with the same job and the same bit lock.
LEMMA GoesOnKeeps ==
    ASSUME ModbusDeviceAssumption, DeviceInv, NEW t \in Tasks, turn \in {Nobody, t},
           NEW now, IsTask(t, now), now.job = task[t].job, now.at # "bit", Goes(t, now),
           task[t].at = "bit" => Head(bitLine[BitLock(t)]) = t,
           LineStep(t, now), UNCHANGED <<bitLine, bitWriting>>,
           LinkInv', UnitInv', BackInv', BitsKept'
    PROVE DeviceInv'
<1>1. task' = [task EXCEPT ![t] = now] /\ DOMAIN task = Tasks
  BY DEF Goes, DeviceInv, TaskInv
<1>2. TaskInv' /\ TurnInv'
  BY GoesKeepsTasks DEF DeviceInv
<1>3. LineInv'
  BY <1>1, LineStepKeeps DEF DeviceInv
<1>4. BitLineInv'
  BY <1>1, SameBitLines DEF DeviceInv
<1> QED
  BY <1>2, <1>3, <1>4 DEF DeviceInv

\* It goes on as it was.
LEMMA MovesKeeps ==
    ASSUME ModbusDeviceAssumption, DeviceInv, NEW t \in Tasks, turn \in {Nobody, t},
           task[t].at \notin {"idle", "done"}, task[t].job.op \in Requesting,
           NEW place \in Asking, Goes(t, [task[t] EXCEPT !.at = place]),
           task[t].at = "bit" => Head(bitLine[BitLock(t)]) = t,
           LineStep(t, [task[t] EXCEPT !.at = place]),
           UNCHANGED <<bitLine, unitVars>>, LinkInv'
    PROVE DeviceInv'
<1> DEFINE now == [task[t] EXCEPT !.at = place]
<1>1. IsTask(t, task[t])
  BY DEF DeviceInv, TaskInv
<1>2. /\ IsTask(t, now)
      /\ now.at = place /\ now.job = task[t].job /\ now.todo = task[t].todo
  BY <1>1, MovesIsTask
<1>3. Goes(t, now) /\ LineStep(t, now) /\ task' = [task EXCEPT ![t] = now]
  BY DEF Goes
<1>4. UNCHANGED <<register, promised, bitWriting>>
  BY DEF unitVars
<1> HIDE DEF now
<1>5. Backing(now) => Agrees(UnitOf[t], now.job, Head(now.todo).value)
  BY <1>2 DEF DeviceInv, BackInv, Backing
<1>6. UnitInv' /\ BackInv' /\ BitsKept'
  BY <1>3, <1>4, <1>5, SameValues DEF DeviceInv
<1>7. now.at # "bit"
  BY <1>2 DEF Asking
<1> QED
  BY <1>2, <1>3, <1>4, <1>6, <1>7, GoesOnKeeps

\* It goes on with what its request came to, which was not sent, or did not write.
LEMMA ReadsKeeps ==
    ASSUME ModbusDeviceAssumption, DeviceInv, NEW t \in Tasks, turn \in {Nobody, t},
           task[t].at \in {"ask", "ready", "line"}, task[t].job.op \in Requesting,
           NEW code, NEW taken \in BOOLEAN, code = "ok" => taken,
           taken /\ code # "ok" => Outcome(code) = "no_answer",
           Goes(t, Resumes(t, code, taken)), LineStep(t, Resumes(t, code, taken)),
           UNCHANGED <<bitLine, register, promised, bitWriting>>, LinkInv'
    PROVE DeviceInv'
<1> DEFINE now == Resumes(t, code, taken)
           job == task[t].job
           value == SetBit(register[UnitOf[t]][job.address], job.bit, job.on)
<1>1. /\ IsTask(t, now)
      /\ now.at \in {"ask", "busy", "done"}
      /\ now.job = job
      /\ Backing(now) => Head(now.todo) = WriteBack(job.address, job.bit, value)
  BY ResumesIsTask DEF DeviceInv
<1>2. Goes(t, now) /\ LineStep(t, now) /\ task' = [task EXCEPT ![t] = now]
  BY DEF Goes
<1> HIDE DEF now
<1>3. ASSUME Backing(now)
      PROVE Agrees(UnitOf[t], now.job, Head(now.todo).value)
  <2>1. Head(now.todo).value = value
    BY <1>1, <1>3 DEF WriteBack
  <2>2. job.op = "bit" /\ job \in Jobs[t] \union {NoJob}
    BY <1>1, <1>3 DEF Backing, DeviceInv, TaskInv, IsTask
  <2>3. UnitOf[t] \in Units /\ job.address \in Registers
    BY <2>2, JobFacts DEF ModbusDeviceAssumption
  <2>4. \A b \in Bits \ {job.bit} : b \in value <=> b \in register[UnitOf[t]][job.address]
    BY DEF SetBit
  <2> HIDE DEF value
  <2> QED
    BY <2>1, <2>3, <2>4, <1>1 DEF Agrees, DeviceInv, BitsKept
<1>4. UnitInv' /\ BackInv' /\ BitsKept'
  BY <1>2, <1>3, SameValues DEF DeviceInv
<1> QED
  BY <1>1, <1>2, <1>4, GoesOnKeeps

\* The task that has the connection's lock, with a request to send.
LEMMA SendsWhat ==
    ASSUME ModbusDeviceAssumption, DeviceInv, NEW t \in Tasks, Holds(t)
    PROVE /\ task[t].at = "line" /\ line # << >> /\ Head(line) = t /\ turn = Nobody
          /\ Sends(t) => task[t].job.op \in Requesting
<1>1. line # << >> /\ Head(line) = t /\ turn = Nobody
  BY DEF Holds
<1>2. line \in Seq(Tasks) /\ Range(line) = {u \in Tasks : task[u].at = "line"}
  BY DEF DeviceInv, LineInv, Lined
<1>3. t \in Range(line)
  BY <1>1, <1>2 DEF Range
<1>4. task[t].at = "line"
  BY <1>2, <1>3
<1>5. /\ task[t].job \in Jobs[t] \union {NoJob} /\ task[t].job # NoJob
      /\ task[t].job.op \in {"connect", "disconnect"} => task[t].todo = << >>
  BY <1>4 DEF DeviceInv, TaskInv, IsTask
<1> QED
  BY <1>1, <1>4, <1>5, JobFacts DEF Sends, Requesting

\* A request ends, answered or not, and done or not.
LEMMA EndsKeeps ==
    ASSUME ModbusDeviceAssumption, DeviceInv, NEW t \in Tasks, Sends(t),
           NEW code, NEW taken \in BOOLEAN, code = "ok" => taken,
           taken /\ code # "ok" => Outcome(code) = "no_answer",
           Ends(t, code, taken), LinkInv'
    PROVE DeviceInv'
<1> DEFINE now == Resumes(t, code, taken)
<1>1. /\ task[t].at = "line" /\ line # << >> /\ Head(line) = t /\ turn = Nobody
      /\ task[t].job.op \in Requesting
  BY SendsWhat DEF Sends
<1>2. /\ Takes(t, taken, code = "ok") /\ Goes(t, now)
      /\ line' = Tail(line) /\ bitLine' = bitLine /\ bitWriting' = bitWriting
  BY DEF Ends
<1>3. /\ IsTask(t, now)
      /\ now.at \in {"ask", "busy", "done"}
      /\ now.job = task[t].job
      /\ Backing(now) => ~Writes(t)
  BY <1>1, ResumesIsTask DEF DeviceInv
<1>4. LineStep(t, now)
  BY <1>1, <1>2, <1>3 DEF LineStep
<1>5. CASE ~(taken /\ Writes(t))
  <2>1. UNCHANGED <<register, promised>>
    BY <1>2, <1>5 DEF Takes
  <2> QED
    BY <2>1, <1>1, <1>2, <1>4, ReadsKeeps
<1>6. CASE taken /\ Writes(t)
  <2>1. Takes(t, TRUE, code = "ok") /\ ~Backing(now) /\ task' = [task EXCEPT ![t] = now]
    <3>1. taken = TRUE
      BY <1>6
    <3> QED
      BY <3>1, <1>2, <1>3, <1>6 DEF Goes
  <2> HIDE DEF now
  <2>2. (code = "ok") \in BOOLEAN
    OBVIOUS
  <2>3. UnitInv' /\ BackInv' /\ BitsKept'
    BY <2>1, <2>2, <1>1, <1>2, <1>6, TakesKeeps DEF DeviceInv
  <2> QED
    BY <2>3, <1>1, <1>2, <1>3, <1>4, GoesOnKeeps
<1> QED
  BY <1>5, <1>6

\* _send(): the request joins the connection's line, or is refused by the breaker.
LEMMA AttemptKeeps ==
    ASSUME ModbusDeviceAssumption, DeviceInv, NEW t \in Tasks, turn \in {Nobody, t},
           task[t].at \in {"ask", "ready"}, Attempt(t), UNCHANGED <<bitLine, link, unitVars>>
    PROVE DeviceInv'
<1>1. task[t].job.op \in Requesting /\ UnitOf[t] \in Units
  BY DEF DeviceInv, TaskInv, IsTask, Requesting, ModbusDeviceAssumption
<1>2. UNCHANGED <<register, promised, bitWriting>>
  BY DEF unitVars
<1> DEFINE now == [task[t] EXCEPT !.at = "line"]
           probes == breaker[UnitOf[t]].state = "due" /\ breaker[UnitOf[t]].probe = Nobody
<1>3. CASE breaker[UnitOf[t]].state = "closed" \/ probes
  <2>1. /\ breaker' = IF probes THEN [breaker EXCEPT ![UnitOf[t]].probe = t] ELSE breaker
        /\ line' = Append(line, t)
        /\ Goes(t, now)
    BY <1>3 DEF Attempt
  <2>2. LinkInv'
    BY <2>1, <1>1 DEF DeviceInv, LinkInv, BreakerType
  <2>3. now.at = "line"
    BY DEF DeviceInv, TaskInv, IsTask, Fields
  <2>4. LineStep(t, now)
    BY <2>1, <2>3 DEF LineStep
  <2> QED
    BY <2>1, <2>2, <2>4, <1>1, MovesKeeps DEF Asking
<1>4. CASE ~(breaker[UnitOf[t]].state = "closed" \/ probes)
  <2>1. Goes(t, Resumes(t, "unsent", FALSE)) /\ UNCHANGED <<line, breaker>>
    BY <1>4 DEF Attempt
  <2>2. LinkInv'
    BY <2>1 DEF DeviceInv, LinkInv
  <2>3. Resumes(t, "unsent", FALSE).at \in {"ask", "busy", "done"}
    BY <1>1, ResumesIsTask DEF DeviceInv
  <2>4. LineStep(t, Resumes(t, "unsent", FALSE))
    BY <2>1, <2>3 DEF LineStep
  <2> QED
    BY <2>1, <2>2, <2>4, <1>1, <1>2, ReadsKeeps
<1> QED
  BY <1>3, <1>4

LEMMA AskKeeps ==
    ASSUME ModbusDeviceAssumption, DeviceInv, NEW t \in Tasks, Ask(t)
    PROVE DeviceInv'
<1>1. turn = t /\ task[t].at = "ask" /\ UNCHANGED <<bitLine, link, unitVars>>
  BY DEF Ask
<1>2. CASE breaker[UnitOf[t]].state = "due"
  <2> DEFINE now == [task[t] EXCEPT !.at = "ready"]
  <2>1. Goes(t, now) /\ UNCHANGED <<line, breaker>>
    BY <1>2 DEF Ask
  <2>2. task[t].job.op \in Requesting /\ now.at = "ready"
    BY <1>1 DEF DeviceInv, TaskInv, IsTask, Requesting, Fields
  <2>3. LineStep(t, now)
    BY <1>1, <2>1, <2>2 DEF LineStep
  <2>4. LinkInv'
    BY <1>1, <2>1 DEF DeviceInv, LinkInv
  <2> QED
    BY <1>1, <2>1, <2>2, <2>3, <2>4, MovesKeeps DEF Asking
<1>3. CASE ~(breaker[UnitOf[t]].state = "due")
  BY <1>1, <1>3, AttemptKeeps DEF Ask
<1> QED
  BY <1>2, <1>3

LEMMA NotReadyKeeps ==
    ASSUME ModbusDeviceAssumption, DeviceInv, NEW t \in Tasks, NotReady(t)
    PROVE DeviceInv'
<1>1. /\ turn = Nobody /\ task[t].at = "ready"
      /\ breaker' = [breaker EXCEPT ![UnitOf[t]].state = IF @ = "due" THEN "open" ELSE @]
      /\ Goes(t, Resumes(t, "unsent", FALSE))
      /\ UNCHANGED <<line, bitLine, link, unitVars>>
  BY DEF NotReady
<1>2. task[t].job.op \in Requesting /\ UnitOf[t] \in Units
  BY <1>1 DEF DeviceInv, TaskInv, IsTask, Requesting, ModbusDeviceAssumption
<1>3. LinkInv'
  BY <1>1, <1>2 DEF DeviceInv, LinkInv, BreakerType
<1>4. Resumes(t, "unsent", FALSE).at \in {"ask", "busy", "done"}
  BY <1>1, <1>2, ResumesIsTask DEF DeviceInv
<1>5. LineStep(t, Resumes(t, "unsent", FALSE))
  BY <1>1, <1>4 DEF LineStep
<1>6. UNCHANGED <<register, promised, bitWriting>>
  BY <1>1 DEF unitVars
<1> QED
  BY <1>1, <1>2, <1>3, <1>5, <1>6, ReadsKeeps

\* A bit's lock comes, or the pause before a read is sent again is over.
LEMMA GoesOnAskingKeeps ==
    ASSUME ModbusDeviceAssumption, DeviceInv, NEW t \in Tasks, BitLockComes(t) \/ BusyPauseEnds(t)
    PROVE DeviceInv'
<1> DEFINE now == [task[t] EXCEPT !.at = "ask"]
<1>1. /\ turn = Nobody /\ task[t].at \in {"bit", "busy"}
      /\ task[t].at = "bit" => Head(bitLine[BitLock(t)]) = t
      /\ Goes(t, now)
      /\ UNCHANGED <<line, bitLine, link, breaker, unitVars>>
  BY DEF BitLockComes, BusyPauseEnds
<1>2. task[t].job.op \in Requesting /\ now.at = "ask"
  BY <1>1 DEF DeviceInv, TaskInv, IsTask, Requesting, Fields
<1>3. LineStep(t, now)
  BY <1>1, <1>2 DEF LineStep
<1>4. LinkInv'
  BY <1>1 DEF DeviceInv, LinkInv
<1>5. "ask" \in Asking
  BY DEF Asking
<1> QED
  BY <1>1, <1>2, <1>3, <1>4, <1>5, MovesKeeps

\* The ways a request ends.
LEMMA AnsweredKeeps ==
    ASSUME ModbusDeviceAssumption, DeviceInv, NEW t \in Tasks, Answered(t)
    PROVE DeviceInv'
<1>1. Sends(t) /\ link' = "open" /\ breaker' = [breaker EXCEPT ![UnitOf[t]] = Closed]
  BY DEF Answered
<1>2. PICK code : Ends(t, code, code = "ok")
  BY DEF Answered
<1>3. LinkInv'
  BY <1>1 DEF DeviceInv, LinkInv, BreakerType, Closed, ModbusDeviceAssumption
<1> DEFINE taken == code = "ok"
<1>4. /\ taken \in BOOLEAN /\ (code = "ok" => taken)
      /\ taken /\ code # "ok" => Outcome(code) = "no_answer"
      /\ Ends(t, code, taken)
  BY <1>2
<1> HIDE DEF taken
<1> QED
  BY <1>1, <1>3, <1>4, EndsKeeps

LEMMA SilentKeeps ==
    ASSUME ModbusDeviceAssumption, DeviceInv, NEW t \in Tasks,
           NEW code \in {"silent", "gateway_failed"}, NEW taken \in BOOLEAN,
           Silent(t, code, taken), link' \in {"closed", "open", "dead"}
    PROVE DeviceInv'
<1>1. Sends(t) /\ Ends(t, code, taken)
  BY DEF Silent
<1>2. PICK b \in Unanswered(UnitOf[t], t) : breaker' = [breaker EXCEPT ![UnitOf[t]] = b]
  BY DEF Silent
<1>3. UnitOf[t] \in Units /\ breaker[UnitOf[t]] \in BreakerType
  BY DEF ModbusDeviceAssumption, DeviceInv, LinkInv
<1>4. b \in BreakerType
  <2>1. ASSUME b \in Opened(UnitOf[t]) PROVE b \in BreakerType
    BY <2>1 DEF Opened, BreakerType, ModbusDeviceAssumption
  <2>2. \/ b \in Opened(UnitOf[t])
        \/ /\ breaker[UnitOf[t]].state = "closed"
           /\ ~(breaker[UnitOf[t]].unanswered + 1 >= After)
           /\ b = [breaker[UnitOf[t]] EXCEPT !.unanswered = @ + 1]
        \/ b = breaker[UnitOf[t]]
    BY <1>2 DEF Unanswered
  <2>3. ASSUME ~(breaker[UnitOf[t]].unanswered + 1 >= After),
               b = [breaker[UnitOf[t]] EXCEPT !.unanswered = @ + 1]
        PROVE b \in BreakerType
    BY <2>3, <1>3 DEF BreakerType, ModbusDeviceAssumption
  <2> QED
    BY <2>1, <2>2, <2>3, <1>3
<1>5. LinkInv'
  BY <1>2, <1>3, <1>4 DEF DeviceInv, LinkInv
<1>6. code # "ok" /\ Outcome(code) = "no_answer"
  BY OutcomeFacts
<1> QED
  BY <1>1, <1>5, <1>6, EndsKeeps

\* The link is opened or closed.
LEMMA LinkIsSetKeeps ==
    ASSUME ModbusDeviceAssumption, DeviceInv, NEW t \in Tasks, OpenLink(t) \/ CloseLink(t)
    PROVE DeviceInv'
<1>1. PICK outcome \in {"no_answer", "ok"} :
        Goes(t, [task[t] EXCEPT !.at = "done", !.outcome = outcome])
  BY DEF OpenLink, CloseLink
<1> DEFINE now == [task[t] EXCEPT !.at = "done", !.outcome = outcome]
<1>2. /\ Holds(t) /\ task[t].job.op \in {"connect", "disconnect"} /\ line' = Tail(line)
      /\ UNCHANGED <<bitLine, breaker, unitVars>>
  BY DEF OpenLink, CloseLink
<1>3. task[t].at = "line" /\ line # << >> /\ Head(line) = t /\ turn = Nobody
  BY <1>2, SendsWhat
<1>4. IsTask(t, task[t])
  BY DEF DeviceInv, TaskInv
<1>5. /\ DOMAIN now = Fields
      /\ now.at = "done" /\ now.job = task[t].job /\ now.todo = task[t].todo
      /\ now.outcome = outcome /\ now.tries = task[t].tries /\ now.applied = task[t].applied
  BY <1>4 DEF IsTask, Fields
<1> HIDE DEF now
<1>6. IsTask(t, now)
  BY <1>2, <1>3, <1>4, <1>5 DEF IsTask, Places, Outcomes
<1>7. ~Backing(now)
  BY <1>2, <1>5 DEF Backing
<1>8. Goes(t, now) /\ task' = [task EXCEPT ![t] = now]
  BY <1>1 DEF now, Goes
<1>9. UNCHANGED <<register, promised, bitWriting>>
  BY <1>2 DEF unitVars
<1>10. UnitInv' /\ BackInv' /\ BitsKept'
  BY <1>7, <1>8, <1>9, SameValues DEF DeviceInv
<1>11. LinkInv'
  BY <1>2 DEF DeviceInv, LinkInv, OpenLink, CloseLink
<1>12. LineStep(t, now)
  BY <1>2, <1>3, <1>5 DEF LineStep
<1> QED
  BY <1>2, <1>3, <1>5, <1>6, <1>8, <1>9, <1>10, <1>11, <1>12, GoesOnKeeps

\* A task begins a job, or ends one.
LEMMA JobChangesKeeps ==
    ASSUME ModbusDeviceAssumption, DeviceInv, NEW t \in Tasks, turn \in {Nobody, t},
           NEW now, IsTask(t, now), Goes(t, now), LineStep(t, now), bitWriting' = bitWriting,
           BitLineInv', LinkInv', UnitInv', BackInv', BitsKept'
    PROVE DeviceInv'
<1>1. task' = [task EXCEPT ![t] = now] /\ DOMAIN task = Tasks
  BY DEF Goes, DeviceInv, TaskInv
<1>2. TaskInv' /\ TurnInv'
  BY GoesKeepsTasks DEF DeviceInv
<1>3. LineInv'
  BY <1>1, LineStepKeeps DEF DeviceInv
<1> QED
  BY <1>2, <1>3 DEF DeviceInv

LEMMA StartKeeps ==
    ASSUME ModbusDeviceAssumption, DeviceInv, NEW t \in Tasks, NEW j \in Jobs[t], Start(t, j)
    PROVE DeviceInv'
<1> DEFINE u == UnitOf[t]
           lock == <<u, j.address>>
           begun == [Idle EXCEPT !.job = j, !.todo = Requests(u, j)]
           place == IF NeedsBitLock(u, j) THEN IF bitLine[lock] = << >> THEN "ask" ELSE "bit"
                    ELSE IF begun.todo = << >> THEN "done" ELSE "ask"
           now == [begun EXCEPT !.at = place]
<1>1. /\ turn = Nobody /\ task[t].at = "idle" /\ j.op \in Requesting
      /\ UNCHANGED <<line, link, breaker, unitVars>>
      /\ Goes(t, now)
      /\ \/ ~NeedsBitLock(u, j) /\ bitLine' = bitLine
         \/ NeedsBitLock(u, j) /\ bitLine' = [bitLine EXCEPT ![lock] = Append(bitLine[lock], t)]
  BY DEF Start, Requesting
<1>2. /\ DOMAIN now = Fields
      /\ now.at = place /\ now.job = j /\ now.todo = Requests(u, j)
      /\ now.outcome = "none" /\ now.tries = 0 /\ now.applied = 0
      /\ begun.todo = Requests(u, j)
  BY DEF Idle, Fields
<1>3. /\ place \in {"ask", "bit", "done"}
      /\ place = "bit" => NeedsBitLock(u, j)
      /\ place = "done" => ~NeedsBitLock(u, j) /\ Requests(u, j) = << >>
      /\ NeedsBitLock(u, j) => place = IF bitLine[lock] = << >> THEN "ask" ELSE "bit"
  BY <1>2
<1>4. ASSUME j.op = "register"
      PROVE Requests(u, j) = <<WriteRegister(j.address, j.value)>>
  BY <1>4 DEF Requests
<1>5. ASSUME j.op = "bit", ~NeedsBitLock(u, j)
      PROVE Requests(u, j) = <<MaskWrite(j.address, j.bit, j.on)>>
  <2>1. bitWriting[u] = "mask"
    BY <1>5 DEF NeedsBitLock, DeviceInv, UnitInv, ModbusDeviceAssumption
  <2> QED
    BY <2>1, <1>5 DEF Requests
<1>6. ASSUME NeedsBitLock(u, j)
      PROVE j.op = "bit" /\ Requests(u, j) = <<Fetch(j.address)>>
  BY <1>6 DEF Requests, NeedsBitLock
<1> HIDE DEF now, place, begun
<1>7. j.op \in {"register", "bit"} => ToSend(t, now) /\ place # "done"
  <2>0. \A x : <<x>> # << >>
    OBVIOUS
  <2>1. CASE j.op = "register"
    <3>1. now.todo = <<WriteRegister(j.address, j.value)>>
      BY <2>1, <1>2, <1>4
    <3>2. Requests(u, j) # << >>
      BY <2>1, <1>4, <2>0
    <3> QED
      BY <2>1, <3>1, <3>2, <1>2, <1>3 DEF ToSend
  <2>2. CASE j.op = "bit" /\ ~NeedsBitLock(u, j)
    <3>1. now.todo = <<MaskWrite(j.address, j.bit, j.on)>>
      BY <2>2, <1>2, <1>5
    <3>2. Requests(u, j) # << >>
      BY <2>2, <1>5, <2>0
    <3> QED
      BY <2>2, <3>1, <3>2, <1>2, <1>3 DEF ToSend
  <2>3. CASE NeedsBitLock(u, j)
    BY <2>3, <1>2, <1>3, <1>6 DEF ToSend
  <2> QED
    BY <2>1, <2>2, <2>3
<1>8. j # NoJob
  BY <1>1 DEF NoJob, Requesting
<1>9. IsTask(t, now)
  BY <1>1, <1>2, <1>3, <1>7, <1>8 DEF IsTask, Places, Outcomes, Requesting, ModbusDeviceAssumption
<1>10. ~Backing(now)
  <2>1. CASE j.op = "bit" /\ ~NeedsBitLock(u, j)
    BY <2>1, <1>2, <1>5 DEF Backing, MaskWrite
  <2>2. CASE NeedsBitLock(u, j)
    BY <2>2, <1>2, <1>6 DEF Backing, Fetch
  <2>3. CASE j.op # "bit"
    BY <2>3, <1>2 DEF Backing
  <2> QED
    BY <2>1, <2>2, <2>3
<1>11. task' = [task EXCEPT ![t] = now] /\ UNCHANGED <<register, promised, bitWriting>>
  BY <1>1 DEF Goes, unitVars
<1>12. UnitInv' /\ BackInv' /\ BitsKept'
  BY <1>10, <1>11, SameValues DEF DeviceInv
<1>13. task[t].job = NoJob
  BY <1>1 DEF DeviceInv, TaskInv, IsTask
<1>14. BitLineInv'
  BY <1>1, <1>2, <1>3, <1>11, <1>13, BitLockTaken DEF DeviceInv
<1>15. LinkInv'
  BY <1>1 DEF DeviceInv, LinkInv
<1>16. LineStep(t, now)
  BY <1>1, <1>2, <1>3 DEF LineStep
<1> QED
  BY <1>1, <1>9, <1>11, <1>12, <1>14, <1>15, <1>16, JobChangesKeeps

\* connect() and disconnect().
LEMMA ConnectKeeps ==
    ASSUME ModbusDeviceAssumption, DeviceInv, NEW t \in Tasks, NEW j \in Jobs[t],
           Connect(t, j) \/ Disconnect(t, j)
    PROVE DeviceInv'
<1>1. PICK now : /\ \/ now = [Idle EXCEPT !.job = j, !.at = "line"] /\ line' = Append(line, t)
                    \/ now = [Idle EXCEPT !.job = j, !.outcome = "ok", !.at = "done"] /\ line' = line
                 /\ Goes(t, now)
  BY DEF Connect, Disconnect
<1>2. /\ turn = Nobody /\ task[t].at = "idle" /\ j.op \in {"connect", "disconnect"}
      /\ UNCHANGED <<bitLine, link, unitVars>>
      /\ breaker' = breaker \/ breaker' = [breaker EXCEPT ![UnitOf[t]] = Closed]
  BY DEF Connect, Disconnect
<1>3. /\ DOMAIN now = Fields
      /\ now.at \in {"line", "done"} /\ now.job = j /\ now.todo = << >>
      /\ now.outcome \in {"none", "ok"} /\ now.tries = 0 /\ now.applied = 0
      /\ \/ line' = Append(line, t) /\ now.at = "line"
         \/ line' = line /\ now.at = "done"
  BY <1>1 DEF Idle, Fields
<1>4. j # NoJob /\ ~NeedsBitLock(UnitOf[t], j)
  BY <1>2 DEF NoJob, NeedsBitLock
<1>5. IsTask(t, now)
  BY <1>2, <1>3, <1>4 DEF IsTask, Places, Outcomes, ModbusDeviceAssumption
<1>6. ~Backing(now)
  BY <1>3 DEF Backing
<1>7. task' = [task EXCEPT ![t] = now] /\ UNCHANGED <<register, promised, bitWriting>>
  BY <1>1, <1>2 DEF Goes, unitVars
<1>8. UnitInv' /\ BackInv' /\ BitsKept'
  BY <1>6, <1>7, SameValues DEF DeviceInv
<1>9. task[t].job = NoJob
  BY <1>2 DEF DeviceInv, TaskInv, IsTask
<1>10. BitLineInv'
  BY <1>2, <1>3, <1>4, <1>7, <1>9, BitLockTaken DEF DeviceInv
<1>11. LinkInv'
  BY <1>2 DEF DeviceInv, LinkInv, BreakerType, Closed, ModbusDeviceAssumption
<1>12. LineStep(t, now)
  BY <1>2, <1>3 DEF LineStep
<1> QED
  BY <1>1, <1>2, <1>5, <1>7, <1>8, <1>10, <1>11, <1>12, JobChangesKeeps

LEMMA IdleIsTask ==
    ASSUME ModbusDeviceAssumption, NEW t \in Tasks
    PROVE IsTask(t, Idle) /\ ~Backing(Idle) /\ Idle.job = NoJob /\ Idle.at = "idle"
  BY DEF IsTask, Idle, NoJob, Fields, Places, Outcomes, Backing, NeedsBitLock,
         ModbusDeviceAssumption

LEMMA ReturnKeeps ==
    ASSUME ModbusDeviceAssumption, DeviceInv, NEW t \in Tasks, Return(t)
    PROVE DeviceInv'
<1> DEFINE l == BitLock(t)
           rest == Tail(bitLine[l])
<1>1. /\ turn = t /\ task[t].at = "done" /\ Goes(t, Idle)
      /\ UNCHANGED <<line, link, breaker, unitVars>>
      /\ \/ ~NeedsBitLock(UnitOf[t], task[t].job) /\ bitLine' = bitLine
         \/ /\ NeedsBitLock(UnitOf[t], task[t].job)
            /\ bitLine' = [bitLine EXCEPT ![l] = rest]
  BY DEF Return
<1>2. IsTask(t, Idle) /\ ~Backing(Idle) /\ Idle.job = NoJob /\ Idle.at = "idle"
  BY IdleIsTask
<1>3. task' = [task EXCEPT ![t] = Idle] /\ UNCHANGED <<register, promised, bitWriting>>
  BY <1>1 DEF Goes, unitVars
<1>4. UnitInv' /\ BackInv' /\ BitsKept'
  BY <1>2, <1>3, SameValues DEF DeviceInv
<1>5. BitLineInv'
  BY <1>1, <1>2, <1>3, BitLockLeft DEF DeviceInv
<1>6. LinkInv'
  BY <1>1 DEF DeviceInv, LinkInv
<1>7. LineStep(t, Idle)
  BY <1>1, <1>2 DEF LineStep
<1> QED
  BY <1>1, <1>2, <1>3, <1>4, <1>5, <1>6, <1>7, JobChangesKeeps

LEMMA CancelKeeps ==
    ASSUME ModbusDeviceAssumption, DeviceInv, NEW t \in Tasks, Cancel(t)
    PROVE DeviceInv'
<1> DEFINE l == BitLock(t)
           rest == RemoveFirst(bitLine[l], t)
<1>1. /\ turn = Nobody /\ task[t].at \in {"bit", "ready", "busy", "line"} /\ Goes(t, Idle)
      /\ line' = RemoveFirst(line, t)
      /\ \/ ~NeedsBitLock(UnitOf[t], task[t].job) /\ bitLine' = bitLine
         \/ /\ NeedsBitLock(UnitOf[t], task[t].job)
            /\ bitLine' = [bitLine EXCEPT ![l] = rest]
      /\ breaker' = [breaker EXCEPT ![UnitOf[t]] = Released(UnitOf[t], t)]
      /\ bitWriting' = bitWriting
  BY DEF Cancel
<1>2. PICK taken \in BOOLEAN :
        /\ taken => Sends(t) /\ link # "dead"
        /\ IF taken THEN Takes(t, TRUE, FALSE) ELSE UNCHANGED <<register, promised>>
        /\ link' = IF taken THEN "open" ELSE link
  BY DEF Cancel
<1>3. IsTask(t, Idle) /\ ~Backing(Idle) /\ Idle.job = NoJob /\ Idle.at = "idle"
  BY IdleIsTask
<1>4. task' = [task EXCEPT ![t] = Idle]
  BY <1>1 DEF Goes
<1>5. UnitInv' /\ BackInv' /\ BitsKept'
  <2>1. CASE taken /\ Writes(t)
    <3>1. task[t].job.op \in Requesting
      BY <2>1, <1>2, SendsWhat DEF Sends
    <3> QED
      BY <3>1, <2>1, <1>1, <1>2, <1>3, <1>4, TakesKeeps DEF DeviceInv
  <2>2. CASE ~(taken /\ Writes(t))
    <3>1. UNCHANGED <<register, promised>>
      BY <2>2, <1>2 DEF Takes
    <3> QED
      BY <3>1, <1>1, <1>3, <1>4, SameValues DEF DeviceInv
  <2> QED
    BY <2>1, <2>2
<1>6. BitLineInv'
  BY <1>1, <1>3, <1>4, BitLockLeft DEF DeviceInv
<1>7. LinkInv'
  BY <1>1, <1>2 DEF DeviceInv, LinkInv, BreakerType, Released, ModbusDeviceAssumption
<1>8. LineStep(t, Idle)
  BY <1>1, <1>3 DEF LineStep
<1> QED
  BY <1>1, <1>3, <1>4, <1>5, <1>6, <1>7, <1>8, JobChangesKeeps

\* What nobody's task does: the pause of a breaker ends, the link fails, or all settles.
LEMMA OthersKeep ==
    ASSUME ModbusDeviceAssumption, DeviceInv,
           \/ \E u \in Units : PauseEnds(u)
           \/ LinkFails
           \/ Settle
           \/ UNCHANGED vars
    PROVE DeviceInv'
<1>1. UNCHANGED <<task, turn, line, bitLine, bitWriting, register, promised>>
  BY DEF PauseEnds, LinkFails, Settle, vars, unitVars
<1>2. LinkInv'
  BY DEF PauseEnds, LinkFails, Settle, vars, unitVars, DeviceInv, LinkInv, BreakerType,
         ModbusDeviceAssumption
<1>3. /\ \A t, r : IsTask(t, r)' <=> IsTask(t, r)
      /\ \A l \in Units \X Registers : Locking(l)' = Locking(l)
      /\ \A t \in Tasks : BitLock(t)' = BitLock(t)
      /\ \A t, j : NeedsBitLock(UnitOf[t], j)' <=> NeedsBitLock(UnitOf[t], j)
  BY <1>1 DEF IsTask, ToSend, NeedsBitLock, Locking, BitLock
<1>4. TaskInv' /\ TurnInv' /\ LineInv'
  BY <1>1, <1>3 DEF DeviceInv, TaskInv, TurnInv, LineInv, Lined
<1>5. BitLineInv'
  BY <1>1, <1>3 DEF DeviceInv, BitLineInv, Lined
<1>6. UnitInv' /\ BackInv' /\ BitsKept'
  BY <1>1 DEF DeviceInv, UnitInv, BackInv, Backing, Agrees, BitsKept
<1> QED
  BY <1>2, <1>4, <1>5, <1>6 DEF DeviceInv

LEMMA NextKeeps ==
    ASSUME ModbusDeviceAssumption, DeviceInv, [Next]_vars
    PROVE DeviceInv'
<1>1. ASSUME NEW t \in Tasks, NEW j \in Jobs[t], Start(t, j) \/ Connect(t, j) \/ Disconnect(t, j)
      PROVE DeviceInv'
  BY <1>1, StartKeeps, ConnectKeeps
<1>2. ASSUME NEW t \in Tasks, BitLockComes(t) \/ BusyPauseEnds(t) PROVE DeviceInv'
  BY <1>2, GoesOnAskingKeeps
<1>3. ASSUME NEW t \in Tasks, Return(t) PROVE DeviceInv'
  BY <1>3, ReturnKeeps
<1>4. ASSUME NEW t \in Tasks, Ask(t) PROVE DeviceInv'
  BY <1>4, AskKeeps
<1>5. ASSUME NEW t \in Tasks, Ready(t) PROVE DeviceInv'
  BY <1>5, AttemptKeeps DEF Ready
<1>6. ASSUME NEW t \in Tasks, NotReady(t) PROVE DeviceInv'
  BY <1>6, NotReadyKeeps
<1>7. ASSUME NEW t \in Tasks, Answered(t) PROVE DeviceInv'
  BY <1>7, AnsweredKeeps
<1>8. ASSUME NEW t \in Tasks,
             GatewayGivesUp(t) \/ CannotOpen(t) \/ TimesOut(t) \/ NoResponse(t)
      PROVE DeviceInv'
  <2>1. PICK code \in {"silent", "gateway_failed"}, taken \in BOOLEAN : Silent(t, code, taken)
    BY <1>8 DEF GatewayGivesUp, CannotOpen, TimesOut, NoResponse
  <2>2. link' \in {"closed", "open", "dead"}
    BY <1>8 DEF GatewayGivesUp, CannotOpen, TimesOut, NoResponse, DeviceInv, LinkInv
  <2> QED
    BY <2>1, <2>2, SilentKeeps
<1>9. ASSUME NEW t \in Tasks, OpenLink(t) \/ CloseLink(t) PROVE DeviceInv'
  BY <1>9, LinkIsSetKeeps
<1>10. ASSUME NEW t \in Tasks, Cancel(t) PROVE DeviceInv'
  BY <1>10, CancelKeeps
<1> QED
  BY <1>1, <1>2, <1>3, <1>4, <1>5, <1>6, <1>7, <1>8, <1>9, <1>10, OthersKeep DEF Next, TaskStep

LEMMA InitHolds ==
    ASSUME ModbusDeviceAssumption, Init
    PROVE DeviceInv
<1>1. \A t \in Tasks : task[t] = Idle
  BY DEF Init
<1>2. \A t \in Tasks : IsTask(t, Idle) /\ ~Backing(Idle) /\ Idle.job = NoJob /\ Idle.at = "idle"
  BY IdleIsTask
<1>3. TaskInv /\ TurnInv /\ BackInv
  BY <1>1, <1>2 DEF Init, TaskInv, TurnInv, BackInv, ModbusDeviceAssumption
<1>4. Lined(<< >>, {})
  BY DEF Lined, IsInjective, Range
<1>5. LineInv
  <2>1. {t \in Tasks : task[t].at = "line"} = {}
    BY <1>1, <1>2
  <2> QED
    BY <2>1, <1>4 DEF Init, LineInv
<1>6. \A t \in Tasks : ~NeedsBitLock(UnitOf[t], task[t].job)
  BY <1>1, <1>2 DEF NeedsBitLock, NoJob
<1>7. BitLineInv
  <2>1. \A l \in Units \X Registers : Locking(l) = {}
    BY <1>6 DEF Locking
  <2> QED
    BY <2>1, <1>4, <1>6 DEF Init, BitLineInv
<1>8. LinkInv
  BY DEF Init, LinkInv, BreakerType, Closed, ModbusDeviceAssumption
<1>9. UnitInv /\ BitsKept
  BY DEF Init, UnitInv, BitsKept, ModbusDeviceAssumption
<1> QED
  BY <1>3, <1>5, <1>7, <1>8, <1>9 DEF DeviceInv

LEMMA InvHolds == ModbusDeviceAssumption /\ Spec => []DeviceInv
<1> SUFFICES ASSUME ModbusDeviceAssumption PROVE Spec => []DeviceInv
  OBVIOUS
<1>1. Init => DeviceInv
  BY InitHolds
<1>2. DeviceInv /\ [Next]_vars => DeviceInv'
  BY NextKeeps
<1> QED
  BY <1>1, <1>2, PTL DEF Spec

-----------------------------------------------------------------------------
\* In the lines of the connection's lock and of the bit locks are the tasks that hold or wait
\* for them and no others, each once, whoever is cancelled where; tasks, breakers and
\* registers are what they may be.
THEOREM DeviceTypeCorrect == Spec => []TypeOK
<1>1. ASSUME DeviceInv PROVE TypeOK
  <2>1. ASSUME NEW t \in Tasks
        PROVE /\ task[t].at \in {"idle", "bit", "ask", "ready", "line", "busy", "done"}
              /\ task[t].job \in Jobs[t] \union {NoJob}
              /\ task[t].outcome \in {"none", "ok", "missing", "unsupported", "offline", "busy",
                                      "no_answer", "error"}
              /\ task[t].tries \in 0 .. BusyTries - 1
              /\ task[t].applied \in 0 .. 1
    BY <1>1 DEF DeviceInv, TaskInv, IsTask, Places, Outcomes
  <2>2. /\ turn \in Tasks \union {Nobody}
        /\ line \in Seq(Tasks) /\ IsInjective(line)
        /\ Range(line) = {t \in Tasks : task[t].at = "line"}
    BY <1>1 DEF DeviceInv, TurnInv, LineInv, Lined
  <2>3. ASSUME NEW l \in Units \X Registers
        PROVE /\ bitLine[l] \in Seq(Tasks) /\ IsInjective(bitLine[l])
              /\ Range(bitLine[l]) = {t \in Tasks : NeedsBitLock(UnitOf[t], task[t].job)
                                                    /\ BitLock(t) = l}
    BY <1>1 DEF DeviceInv, BitLineInv, Lined, Locking
  <2>4. link \in {"closed", "open", "dead"}
    BY <1>1 DEF DeviceInv, LinkInv
  <2>5. ASSUME NEW u \in Units
        PROVE /\ breaker[u].state \in {"closed", "open", "due", "gave_up"}
              /\ breaker[u].unanswered \in 0 .. After
              /\ breaker[u].probe \in Tasks \union {Nobody}
              /\ \A a \in Registers : register[u][a] \subseteq Bits
    BY <1>1 DEF DeviceInv, LinkInv, BreakerType, UnitInv
  <2> QED
    BY <2>1, <2>2, <2>3, <2>4, <2>5 DEF TypeOK
<1> QED
  BY <1>1, InvHolds, ModbusDeviceAssumption, PTL

\* While a task is between reading a register and writing it back no other task of the
\* device is: `async with lock` (_write_bit).
OneWritesBack ==
    \A t, w \in Tasks :
        /\ NeedsBitLock(UnitOf[t], task[t].job) /\ task[t].at # "bit"
        /\ NeedsBitLock(UnitOf[w], task[w].job) /\ task[w].at # "bit"
        /\ BitLock(t) = BitLock(w)
        => t = w
THEOREM BitLocksHeldByOne == Spec => []OneWritesBack
<1>1. ASSUME DeviceInv PROVE OneWritesBack
  BY <1>1 DEF DeviceInv, BitLineInv, OneWritesBack
<1> QED
  BY <1>1, InvHolds, ModbusDeviceAssumption, PTL

\* What the device took and confirmed of a bit holds until that bit or its register is written
\* again, however the writes of the other bits of the register come between, are cancelled or
\* go unanswered (_write_bit).
THEOREM ConfirmedBitsHold == Spec => []BitsKept
<1>1. ASSUME DeviceInv PROVE BitsKept
  BY <1>1 DEF DeviceInv
<1> QED
  BY <1>1, InvHolds, ModbusDeviceAssumption, PTL

\* A write reported as taken was done once, one refused was not done, and only of one left
\* unanswered nobody can say (write, WriteResult).
THEOREM WritesReported == Spec => []ReportedAsDone
<1>1. ASSUME DeviceInv PROVE ReportedAsDone
  <2>1. ASSUME NEW t \in Tasks, task[t].at = "done", task[t].job.op \in {"register", "bit"}
        PROVE Reported(task[t])
    BY <1>1, <2>1 DEF DeviceInv, TaskInv, IsTask
  <2> QED
    BY <2>1 DEF Reported, ReportedAsDone
<1> QED
  BY <1>1, InvHolds, ModbusDeviceAssumption, PTL

-----------------------------------------------------------------------------
(***************************************************************************)
(* Spans in order: each of them is there, the ones that start first first. *)
(***************************************************************************)

Spans == [table : DOMAIN Limit, start : Nat, count : Nat \ {0}]

\* Finitely many spans of one table.
OfTable(spans, table) ==
    IsFiniteSet(spans) /\ spans \subseteq Spans /\ \A s \in spans : s.table = table

LEMMA MaxIs ==
    ASSUME NEW a \in Int, NEW b \in Int
    PROVE  Max({a, b}) = IF a >= b THEN a ELSE b
<1> DEFINE larger == IF a >= b THEN a ELSE b
<1>1. larger \in {a, b} /\ \A y \in {a, b} : larger >= y
  OBVIOUS
<1>2. \A x \in {a, b} : (\A y \in {a, b} : x >= y) => x = larger
  OBVIOUS
<1> HIDE DEF larger
<1>3. (CHOOSE x \in {a, b} : \A y \in {a, b} : x >= y) = larger
  BY <1>1, <1>2
<1> QED
  BY <1>3 DEF Max, larger

\* An injection between finite sets of one size reaches every element.
LEMMA Onto ==
    ASSUME NEW S, NEW T, NEW f \in [S -> T], \A x, y \in S : f[x] = f[y] => x = y,
           IsFiniteSet(T), Cardinality(S) = Cardinality(T), NEW z \in T
    PROVE  \E x \in S : f[x] = z
<1>1. f \in Injection(S, T)
  BY DEF Injection, IsInjective
<1>2. f \in Surjection(S, T)
  BY <1>1, FS_Injection
<1> QED
  BY <1>2 DEF Surjection

\* How many spans come before one.
Rank(spans, s) == Cardinality({z \in spans : Before(z, s)})

LEMMA RankIs ==
    ASSUME NEW spans, NEW table, OfTable(spans, table)
    PROVE  /\ \A s \in spans : Rank(spans, s) \in 0 .. Cardinality(spans) - 1
           /\ \A s, z \in spans : Before(s, z) => Rank(spans, s) < Rank(spans, z)
           /\ \A s, z \in spans : Rank(spans, s) = Rank(spans, z) => s = z
<1> DEFINE before(s) == {z \in spans : Before(z, s)}
<1>1. IsFiniteSet(spans) /\ Cardinality(spans) \in Nat
  BY FS_CardinalityType DEF OfTable
<1>2. \A s \in spans : s.start \in Nat /\ s.count \in Nat /\ s.table = table
  BY DEF OfTable, Spans
<1>3. ASSUME NEW s \in spans, NEW z \in spans, ~Before(s, z), ~Before(z, s) PROVE s = z
  <2>1. s.start = z.start /\ s.count = z.count /\ s.table = z.table
    BY <1>2, <1>3 DEF Before
  <2>2. s \in Spans /\ z \in Spans
    BY DEF OfTable
  <2> QED
    BY <2>1, <2>2 DEF Spans
<1>4. ASSUME NEW s \in spans
      PROVE /\ IsFiniteSet(before(s)) /\ Cardinality(before(s)) \in Nat
            /\ Cardinality(before(s)) < Cardinality(spans)
  <2>1. s \notin before(s)
    BY <1>2 DEF Before
  <2>2. before(s) \in SUBSET spans /\ before(s) # spans
    BY <2>1
  <2> HIDE DEF before
  <2>3. IsFiniteSet(before(s)) /\ Cardinality(before(s)) <= Cardinality(spans)
        /\ Cardinality(before(s)) # Cardinality(spans)
    BY <1>1, <2>2, FS_Subset
  <2>4. Cardinality(before(s)) \in Nat
    BY <2>3, FS_CardinalityType
  <2> QED
    BY <1>1, <2>3, <2>4
<1>5. ASSUME NEW s \in spans, NEW z \in spans, Before(s, z)
      PROVE Cardinality(before(s)) < Cardinality(before(z))
  <2>1. before(s) \subseteq before(z)
    BY <1>2, <1>5 DEF Before
  <2>2. s \in before(z) /\ s \notin before(s)
    BY <1>2, <1>5 DEF Before
  <2>3. before(s) \in SUBSET before(z) /\ before(s) # before(z)
    BY <2>1, <2>2
  <2> HIDE DEF before
  <2>4. Cardinality(before(s)) <= Cardinality(before(z))
        /\ Cardinality(before(s)) # Cardinality(before(z))
    BY <1>4, <2>3, FS_Subset
  <2> QED
    BY <1>4, <2>4
<1>6. \A s : Rank(spans, s) = Cardinality(before(s))
  BY DEF Rank
<1> HIDE DEF before
<1>7. \A s \in spans : Rank(spans, s) \in 0 .. Cardinality(spans) - 1
  BY <1>1, <1>4, <1>6
<1>8. \A s, z \in spans : Before(s, z) => Rank(spans, s) < Rank(spans, z)
  BY <1>5, <1>6
<1>9. \A s, z \in spans : Rank(spans, s) = Rank(spans, z) => s = z
  BY <1>3, <1>7, <1>8
<1> QED
  BY <1>7, <1>8, <1>9

LEMMA OrderedIs ==
    ASSUME NEW spans, NEW table, OfTable(spans, table)
    PROVE  /\ Ordered(spans) \in Seq(spans)
           /\ Len(Ordered(spans)) = Cardinality(spans)
           /\ Range(Ordered(spans)) = spans
           /\ \A i, k \in 1 .. Cardinality(spans) :
                  i < k => Ordered(spans)[i].start <= Ordered(spans)[k].start
<1> DEFINE N == Cardinality(spans)
           ordered == Ordered(spans)
           rank == [s \in spans |-> Rank(spans, s)]
<1>1. IsFiniteSet(spans) /\ N \in Nat
  BY FS_CardinalityType DEF OfTable
<1>2. /\ \A s \in spans : Rank(spans, s) \in 0 .. N - 1
      /\ \A s, z \in spans : Before(s, z) => Rank(spans, s) < Rank(spans, z)
      /\ \A s, z \in spans : Rank(spans, s) = Rank(spans, z) => s = z
  BY RankIs
<1>3. ASSUME NEW k \in 0 .. N - 1 PROVE \E s \in spans : Rank(spans, s) = k
  <2>1. rank \in [spans -> 0 .. N - 1] /\ \A s, z \in spans : rank[s] = rank[z] => s = z
    BY <1>2
  <2>2. IsFiniteSet(0 .. N - 1) /\ Cardinality(0 .. N - 1) = N
    <3>1. 0 \in Int /\ N - 1 \in Int
      BY <1>1
    <3>2. /\ IsFiniteSet(0 .. N - 1)
          /\ Cardinality(0 .. N - 1) = IF 0 > N - 1 THEN 0 ELSE N - 1 - 0 + 1
      BY <3>1, FS_Interval
    <3> HIDE DEF N
    <3> QED
      BY <1>1, <3>2
  <2> DEFINE T == 0 .. N - 1
  <2>3. /\ rank \in [spans -> T] /\ \A s, z \in spans : rank[s] = rank[z] => s = z
        /\ IsFiniteSet(T) /\ Cardinality(spans) = Cardinality(T) /\ k \in T
    BY <2>1, <2>2
  <2> HIDE DEF rank, T
  <2>4. \E s \in spans : rank[s] = k
    BY <2>3, Onto
  <2> USE DEF rank
  <2> QED
    BY <2>4
<1>4. ordered = [i \in 1 .. N |-> CHOOSE s \in spans : Rank(spans, s) = i - 1]
  BY DEF Ordered, Rank
<1> HIDE DEF N, ordered
<1>5. ASSUME NEW i \in 1 .. N PROVE ordered[i] \in spans /\ Rank(spans, ordered[i]) = i - 1
  <2>1. i - 1 \in 0 .. N - 1
    BY <1>1
  <2>2. \E s \in spans : Rank(spans, s) = i - 1
    BY <1>3, <2>1
  <2>3. ordered[i] = CHOOSE s \in spans : Rank(spans, s) = i - 1
    BY <1>4
  <2> QED
    BY <2>2, <2>3
<1>6. ordered \in [1 .. N -> spans]
  BY <1>4, <1>5
<1>7. ordered \in Seq(spans) /\ Len(ordered) = N /\ DOMAIN ordered = 1 .. N
  BY <1>1, <1>6, IsASeq, LenProperties
<1>8. Range(ordered) = spans
  <2>1. ASSUME NEW s \in spans PROVE \E i \in 1 .. N : ordered[i] = s
    <3> DEFINE i == Rank(spans, s) + 1
    <3>1. i \in 1 .. N /\ i - 1 = Rank(spans, s)
      BY <1>1, <1>2
    <3> HIDE DEF i
    <3>2. Rank(spans, ordered[i]) = Rank(spans, s) /\ ordered[i] \in spans
      BY <1>5, <3>1
    <3>3. ordered[i] = s
      BY <1>2, <3>2
    <3> QED
      BY <3>1, <3>3
  <2> QED
    BY <1>5, <1>7, <2>1 DEF Range
<1>9. ASSUME NEW i \in 1 .. N, NEW k \in 1 .. N, i < k PROVE ordered[i].start <= ordered[k].start
  <2>1. ~Before(ordered[k], ordered[i])
    <3>1. Rank(spans, ordered[i]) = i - 1 /\ Rank(spans, ordered[k]) = k - 1
          /\ ordered[i] \in spans /\ ordered[k] \in spans
      BY <1>5
    <3>2. ~(k - 1 < i - 1)
      BY <1>9
    <3> QED
      BY <1>2, <3>1, <3>2
  <2>2. ordered[i].start \in Nat /\ ordered[k].start \in Nat
    BY <1>5 DEF OfTable, Spans
  <2> QED
    BY <2>1, <2>2 DEF Before
<1> QED
  BY <1>7, <1>8, <1>9 DEF N, ordered

-----------------------------------------------------------------------------
(***************************************************************************)
(* The requests of a read: they ask for its spans, for no other address,   *)
(* and for no more than the limit unless one span alone is longer.         *)
(***************************************************************************)

Reads == [kind : {"read"}, table : DOMAIN Limit, start : Nat, end : Nat, spans : SUBSET Spans]

IsRead(r, limit) ==
    /\ r.spans # {} /\ OfTable(r.spans, r.table)
    /\ r.start .. r.end - 1 = UNION {Addresses(s) : s \in r.spans}
    /\ r.end - r.start <= limit \/ Cardinality(r.spans) = 1

SpansOf(batches) == UNION {batches[i].spans : i \in DOMAIN batches}

BatchedIn(batches, table, limit) ==
    /\ batches \in Seq(Reads)
    /\ \A i \in DOMAIN batches : batches[i].table = table /\ IsRead(batches[i], limit)

LEMMA ReadIs ==
    ASSUME NEW r \in Reads, NEW limit, IsRead(r, limit)
    PROVE  /\ \A s \in r.spans : /\ r.start <= s.start /\ End(s) <= r.end
                                 /\ s.start \in Nat /\ s.count \in Nat \ {0} /\ End(s) \in Nat
                                 /\ s.table = r.table
           /\ \E s \in r.spans : s.start <= r.start
           /\ r.start < r.end /\ r.start \in Nat /\ r.end \in Nat
<1>1. r.start \in Nat /\ r.end \in Nat
  BY DEF Reads
<1>2. \A s \in r.spans : s.start \in Nat /\ s.count \in Nat \ {0} /\ s.table = r.table
  BY DEF IsRead, OfTable, Spans
<1>3. ASSUME NEW s \in r.spans
      PROVE r.start <= s.start /\ End(s) <= r.end /\ End(s) \in Nat /\ r.start < r.end
  <2>1. Addresses(s) \subseteq r.start .. r.end - 1
    BY DEF IsRead
  <2>2. s.start \in Addresses(s) /\ End(s) - 1 \in Addresses(s) /\ End(s) \in Nat
    BY <1>2 DEF Addresses, End
  <2>3. s.start \in r.start .. r.end - 1 /\ End(s) - 1 \in r.start .. r.end - 1
    BY <2>1, <2>2
  <2> QED
    BY <1>1, <1>2, <2>2, <2>3
<1>4. PICK z \in r.spans : TRUE
  BY DEF IsRead
<1>5. r.start < r.end
  BY <1>3, <1>4
<1>6. \E s \in r.spans : s.start <= r.start
  <2>1. r.start \in r.start .. r.end - 1
    BY <1>1, <1>5
  <2>2. PICK s \in r.spans : r.start \in Addresses(s)
    BY <2>1 DEF IsRead
  <2>3. s.start <= r.start
    BY <1>1, <1>2, <2>2 DEF Addresses, End
  <2> QED
    BY <2>3
<1> QED
  BY <1>1, <1>2, <1>3, <1>5, <1>6

LEMMA NewBatchIs ==
    ASSUME NEW span \in Spans, NEW limit
    PROVE  /\ NewBatch(span) \in Reads /\ IsRead(NewBatch(span), limit)
           /\ NewBatch(span).spans = {span} /\ NewBatch(span).table = span.table
<1> DEFINE r == NewBatch(span)
<1>1. span.start \in Nat /\ span.count \in Nat \ {0} /\ span.table \in DOMAIN Limit
  BY DEF Spans
<1>2. End(span) \in Nat
  BY <1>1 DEF End
<1>3. /\ r.kind = "read" /\ r.table = span.table /\ r.start = span.start /\ r.end = End(span)
      /\ r.spans = {span}
      /\ r = [kind |-> "read", table |-> span.table, start |-> span.start, end |-> End(span),
              spans |-> {span}]
  BY DEF NewBatch
<1> HIDE DEF r
<1>4. r \in Reads
  BY <1>1, <1>2, <1>3 DEF Reads
<1>5. OfTable({span}, span.table) /\ Cardinality({span}) = 1
  BY FS_Singleton DEF OfTable
<1>6. r.start .. r.end - 1 = UNION {Addresses(s) : s \in {span}}
  BY <1>3 DEF Addresses
<1> QED
  BY <1>3, <1>4, <1>5, <1>6 DEF IsRead, r

LEMMA JoinedIs ==
    ASSUME NEW r \in Reads, NEW span \in Spans
    PROVE  /\ Joined(r, span) \in Reads
           /\ Joined(r, span).spans = r.spans \union {span} /\ Joined(r, span).table = r.table
           /\ Joined(r, span).start = r.start
           /\ Joined(r, span).end = IF r.end >= End(span) THEN r.end ELSE End(span)
<1> DEFINE last == IF r.end >= End(span) THEN r.end ELSE End(span)
           all == r.spans \union {span}
<1>1. /\ r.kind = "read" /\ r.table \in DOMAIN Limit /\ r.start \in Nat /\ r.end \in Nat
      /\ r.spans \in SUBSET Spans
  BY DEF Reads
<1>2. End(span) \in Nat
  BY DEF End, Spans
<1>3. Max({r.end, End(span)}) = last /\ last \in Nat
  BY <1>1, <1>2, MaxIs
<1>4. Joined(r, span) = [r EXCEPT !.end = last, !.spans = all]
  BY <1>3 DEF Joined
<1>5. all \in SUBSET Spans
  BY <1>1
<1> HIDE DEF last, all
<1>6. Joined(r, span) = [kind |-> "read", table |-> r.table, start |-> r.start, end |-> last,
                         spans |-> all]
  BY <1>4 DEF Reads
<1> QED
  BY <1>1, <1>3, <1>5, <1>6 DEF Reads, last, all

\* A span that touches or overlaps a request and leaves it short enough is asked for with it.
LEMMA JoinedIsRead ==
    ASSUME NEW r \in Reads, NEW limit, IsRead(r, limit), NEW span \in Spans,
           span.table = r.table, r.start <= span.start, Joins(r, span, limit)
    PROVE  IsRead(Joined(r, span), limit)
<1> DEFINE next == Joined(r, span)
<1>1. /\ next \in Reads /\ next.spans = r.spans \union {span} /\ next.table = r.table
      /\ next.start = r.start /\ next.end = IF r.end >= End(span) THEN r.end ELSE End(span)
  BY JoinedIs
<1> HIDE DEF next
<1>2. r.start \in Nat /\ r.end \in Nat /\ r.start < r.end
  BY ReadIs
<1>3. span.start \in Nat /\ End(span) \in Nat /\ span.start < End(span)
  BY DEF End, Spans
<1>4. next.end = Max({r.end, End(span)})
  BY <1>1, <1>2, <1>3, MaxIs
<1>5. span.start <= r.end /\ next.end - next.start <= limit
  BY <1>1, <1>4 DEF Joins
<1>6. OfTable(next.spans, next.table)
  <2>1. IsFiniteSet(r.spans \union {span})
    BY FS_AddElement DEF IsRead, OfTable
  <2> QED
    BY <1>1, <2>1 DEF IsRead, OfTable
<1>7. next.start .. next.end - 1 = (r.start .. r.end - 1) \union Addresses(span)
  BY <1>1, <1>2, <1>3, <1>5 DEF Addresses
<1>8. next.start .. next.end - 1 = UNION {Addresses(s) : s \in next.spans}
  <2>1. r.start .. r.end - 1 = UNION {Addresses(s) : s \in r.spans}
    BY DEF IsRead
  <2>2. UNION {Addresses(s) : s \in r.spans \union {span}}
            = (UNION {Addresses(s) : s \in r.spans}) \union Addresses(span)
    OBVIOUS
  <2> QED
    BY <1>1, <1>7, <2>1, <2>2
<1>9. next.spans # {}
  BY <1>1
<1> QED
  BY <1>5, <1>6, <1>8, <1>9 DEF IsRead, next

\* One more span: it joins the last request, or starts one.
Grown(batches, span, limit) ==
    IF batches # << >> /\ Joins(Last(batches), span, limit)
    THEN [batches EXCEPT ![Len(batches)] = Joined(@, span)]
    ELSE Append(batches, NewBatch(span))

LEMMA GrownIs ==
    ASSUME NEW batches \in Seq(Reads), NEW span \in Spans, NEW limit
    PROVE  Grown(batches, span, limit) \in Seq(Reads)
<1> DEFINE L == Len(batches)
<1>1. L \in Nat /\ DOMAIN batches = 1 .. L
  BY LenProperties
<1>2. CASE ~(batches # << >> /\ Joins(Last(batches), span, limit))
  <2>1. NewBatch(span) \in Reads
    BY NewBatchIs
  <2> QED
    BY <1>2, <2>1, AppendProperties DEF Grown
<1>3. CASE batches # << >> /\ Joins(Last(batches), span, limit)
  <2>1. L \in 1 .. L
    BY <1>1, <1>3, EmptySeq
  <2>2. Joined(batches[L], span) \in Reads
    BY <2>1, ElementOfSeq, JoinedIs
  <2>3. Grown(batches, span, limit) = [batches EXCEPT ![L] = Joined(batches[L], span)]
    BY <1>3 DEF Grown
  <2> QED
    BY <2>1, <2>2, <2>3, ExceptSeq
<1> QED
  BY <1>2, <1>3

LEMMA GrownBatched ==
    ASSUME NEW batches, NEW table, NEW limit, BatchedIn(batches, table, limit),
           NEW span \in Spans, span.table = table,
           \A s \in SpansOf(batches) : s.start <= span.start
    PROVE  /\ BatchedIn(Grown(batches, span, limit), table, limit)
           /\ SpansOf(Grown(batches, span, limit)) = SpansOf(batches) \union {span}
<1> DEFINE L == Len(batches)
           grown == Grown(batches, span, limit)
<1>1. batches \in Seq(Reads) /\ L \in Nat /\ DOMAIN batches = 1 .. L
  BY LenProperties DEF BatchedIn
<1>2. \A i \in 1 .. L : batches[i].table = table /\ IsRead(batches[i], limit) /\ batches[i] \in Reads
  BY <1>1, ElementOfSeq DEF BatchedIn
<1>3. grown \in Seq(Reads)
  BY <1>1, GrownIs
<1>4. CASE ~(batches # << >> /\ Joins(Last(batches), span, limit))
  <2> DEFINE new == NewBatch(span)
  <2>1. new.table = table /\ IsRead(new, limit) /\ new.spans = {span}
    BY NewBatchIs
  <2>2. grown = Append(batches, new)
    BY <1>4 DEF Grown
  <2> HIDE DEF new, grown, L
  <2>3. /\ DOMAIN grown = 1 .. L + 1 /\ grown[L + 1] = new
        /\ \A i \in 1 .. L : grown[i] = batches[i]
    BY <1>1, <2>2, AppendProperties, LenProperties DEF L
  <2>4. \A i \in 1 .. L + 1 : i = L + 1 \/ i \in 1 .. L
    BY <1>1
  <2>5. \A i \in 1 .. L + 1 : grown[i].table = table /\ IsRead(grown[i], limit)
    BY <1>2, <2>1, <2>3, <2>4
  <2>6. UNION {grown[i].spans : i \in 1 .. L + 1}
            = (UNION {batches[i].spans : i \in 1 .. L}) \union {span}
    <3>1. L + 1 \in 1 .. L + 1 /\ \A i \in 1 .. L : i \in 1 .. L + 1
      BY <1>1
    <3> QED
      BY <2>1, <2>3, <2>4, <3>1
  <2> QED
    BY <1>1, <1>3, <2>3, <2>5, <2>6 DEF BatchedIn, SpansOf, grown
<1>5. CASE batches # << >> /\ Joins(Last(batches), span, limit)
  <2> DEFINE new == Joined(batches[L], span)
  <2>1. L \in 1 .. L /\ Last(batches) = batches[L]
    BY <1>1, <1>5, EmptySeq DEF Last
  <2>2. batches[L].start <= span.start
    <3>1. PICK s \in batches[L].spans : s.start <= batches[L].start
      BY <1>2, <2>1, ReadIs
    <3>2. batches[L].start <= s.start /\ batches[L].start \in Nat /\ s.start \in Nat
      BY <1>2, <2>1, ReadIs
    <3>3. s \in SpansOf(batches)
      BY <1>1, <2>1 DEF SpansOf
    <3>4. span.start \in Nat
      BY DEF Spans
    <3> QED
      BY <3>2, <3>3, <3>4
  <2>3. /\ IsRead(new, limit) /\ new.table = table
        /\ new.spans = batches[L].spans \union {span}
    BY <1>2, <1>5, <2>1, <2>2, JoinedIs, JoinedIsRead
  <2>4. grown = [batches EXCEPT ![L] = new]
    BY <1>5 DEF Grown
  <2> HIDE DEF new, grown, L
  <2>5. /\ DOMAIN grown = 1 .. L /\ grown[L] = new
        /\ \A i \in 1 .. L : i # L => grown[i] = batches[i]
    BY <1>1, <2>1, <2>4
  <2>6. \A i \in 1 .. L : grown[i].table = table /\ IsRead(grown[i], limit)
    BY <1>2, <2>3, <2>5
  <2>7. UNION {grown[i].spans : i \in 1 .. L}
            = (UNION {batches[i].spans : i \in 1 .. L}) \union {span}
    BY <2>1, <2>3, <2>5
  <2> QED
    BY <1>1, <1>3, <2>5, <2>6, <2>7 DEF BatchedIn, SpansOf, grown
<1> QED
  BY <1>4, <1>5

\* _batches() asks for the spans of one table, and for nothing else.
LEMMA BatchesAre ==
    ASSUME NEW spans, NEW table, OfTable(spans, table), NEW limit
    PROVE  BatchedIn(Batches(spans, limit), table, limit) /\ SpansOf(Batches(spans, limit)) = spans
<1> DEFINE ordered == Ordered(spans)
           L == Len(ordered)
           V == Seq(Reads)
           Solves(f) == f = [n \in 0 .. L |->
                    IF n = 0 THEN << >>
                    ELSE IF f[n - 1] # << >> /\ Joins(Last(f[n - 1]), ordered[n], limit)
                         THEN [f[n - 1] EXCEPT ![Len(f[n - 1])] = Joined(@, ordered[n])]
                         ELSE Append(f[n - 1], NewBatch(ordered[n]))]
           E == [n \in 0 .. L |-> [v \in V |-> IF n = 0 THEN v ELSE Grown(v, ordered[n], limit)]]
<1>1. /\ ordered \in Seq(spans) /\ L = Cardinality(spans) /\ Range(ordered) = spans
      /\ \A i, k \in 1 .. L : i < k => ordered[i].start <= ordered[k].start
  BY OrderedIs
<1>2. /\ L \in Nat /\ 0 <= L /\ DOMAIN ordered = 1 .. L /\ 0 \in Nat /\ 0 \in 0 .. L
      /\ L \in 0 .. L
  BY <1>1, LenProperties
<1>3. \A n \in 0 .. L : n # 0 => /\ n \in 1 .. L /\ n - 1 \in 0 .. L
                                 /\ ordered[n] \in Spans /\ ordered[n].table = table
  <2>1. ASSUME NEW n \in 0 .. L, n # 0 PROVE n \in 1 .. L /\ n - 1 \in 0 .. L
    BY <1>2, <2>1
  <2>2. \A n \in 1 .. L : ordered[n] \in spans
    BY <1>1, ElementOfSeq
  <2> QED
    BY <2>1, <2>2 DEF OfTable
<1> HIDE DEF L, ordered
<1>4. \E f : Solves(f)
  <2>1. \A n \in 0 .. L :
            [v \in V |-> IF n = 0 THEN v ELSE Grown(v, ordered[n], limit)] \in [V -> V]
    BY <1>3, GrownIs
  <2>2. E \in [0 .. L -> [V -> V]]
    BY <2>1
  <2>3. << >> \in V
    BY EmptySeq
  <2>4. \A n \in 0 .. L : n # 0 => \A v \in V : E[n][v] = Grown(v, ordered[n], limit)
    OBVIOUS
  <2> HIDE DEF E, V, Solves
  <2>5. PICK f \in [0 .. L -> V] : Unfolds(f, 0, L, << >>, E)
    BY <1>2, <2>2, <2>3, Recursive
  <2>6. f[0] = << >> /\ \A n \in 0 .. L : n # 0 => f[n] = Grown(f[n - 1], ordered[n], limit)
    BY <1>3, <2>4, <2>5 DEF Unfolds
  <2>7. Solves(f)
    BY <2>5, <2>6 DEF Solves, Grown
  <2> QED
    BY <2>7
<1> DEFINE batches == CHOOSE f : Solves(f)
<1>5. Batches(spans, limit) = batches[L]
  BY DEF Batches, L, ordered
<1>6. Solves(batches)
  BY <1>4
<1> HIDE DEF batches
<1>7. /\ batches[0] = << >>
      /\ \A n \in 0 .. L : n # 0 => batches[n] = Grown(batches[n - 1], ordered[n], limit)
  BY <1>2, <1>6 DEF Grown
<1> HIDE DEF Solves
<1> DEFINE S == {n \in 0 .. L : /\ BatchedIn(batches[n], table, limit)
                                /\ SpansOf(batches[n]) = {ordered[i] : i \in 1 .. n}}
<1>8. 0 \in S
  <2>1. 1 .. 0 = {} /\ DOMAIN << >> = {}
    OBVIOUS
  <2>2. {ordered[i] : i \in 1 .. 0} = {}
    BY <2>1
  <2>3. BatchedIn(<< >>, table, limit) /\ SpansOf(<< >>) = {}
    BY <2>1, EmptySeq DEF BatchedIn, SpansOf
  <2> QED
    BY <1>2, <1>7, <2>2, <2>3
<1>9. ASSUME NEW n \in 0 .. L, n # 0, n - 1 \in S PROVE n \in S
  <2>1. /\ BatchedIn(batches[n - 1], table, limit)
        /\ SpansOf(batches[n - 1]) = {ordered[i] : i \in 1 .. n - 1}
    BY <1>9
  <2>2. n \in 1 .. L /\ \A i \in 1 .. n - 1 : i \in 1 .. L /\ i < n
    BY <1>2, <1>9
  <2>3. ordered[n] \in Spans /\ ordered[n].table = table
    BY <1>3, <1>9
  <2>4. \A s \in SpansOf(batches[n - 1]) : s.start <= ordered[n].start
    BY <1>1, <2>1, <2>2
  <2> DEFINE before == batches[n - 1]
             span == ordered[n]
  <2>5. BatchedIn(before, table, limit) /\ span \in Spans /\ span.table = table
        /\ \A s \in SpansOf(before) : s.start <= span.start
    BY <2>1, <2>3, <2>4
  <2> HIDE DEF before, span
  <2>6. /\ BatchedIn(Grown(before, span, limit), table, limit)
        /\ SpansOf(Grown(before, span, limit)) = SpansOf(before) \union {span}
    BY <2>5, GrownBatched
  <2>7. 1 .. n = (1 .. n - 1) \union {n}
    BY <2>2
  <2>8. {ordered[i] : i \in 1 .. n} = {ordered[i] : i \in 1 .. n - 1} \union {span}
    BY <2>7 DEF span
  <2>9. batches[n] = Grown(before, span, limit)
    BY <1>7, <1>9 DEF before, span
  <2> QED
    BY <1>9, <2>1, <2>6, <2>8, <2>9 DEF before
<1> HIDE DEF S
<1>10. 0 .. L \subseteq S
  BY <1>2, <1>8, <1>9, UpTo
<1>11. BatchedIn(batches[L], table, limit) /\ SpansOf(batches[L]) = {ordered[i] : i \in 1 .. L}
  BY <1>2, <1>10 DEF S
<1>12. spans = {ordered[i] : i \in 1 .. L}
  BY <1>1, <1>2 DEF Range
<1> QED
  BY <1>5, <1>11, <1>12

\* What a read still asks for.
Requested(batches, spans) ==
    /\ batches \in Seq(Reads)
    /\ \A i \in DOMAIN batches : IsRead(batches[i], Limit[batches[i].table])
    /\ SpansOf(batches) = spans

LEMMA BatchedRequested ==
    ASSUME ModbusDeviceAssumption, NEW batches, NEW table \in DOMAIN Limit, NEW limit \in Int,
           limit <= Limit[table], BatchedIn(batches, table, limit)
    PROVE  Requested(batches, SpansOf(batches))
<1>1. Limit[table] \in Int
  BY DEF ModbusDeviceAssumption
<1>2. ASSUME NEW i \in DOMAIN batches PROVE IsRead(batches[i], Limit[batches[i].table])
  <2>1. batches[i].table = table /\ IsRead(batches[i], limit)
    BY DEF BatchedIn
  <2>2. batches[i] \in Reads
    BY ElementOfSeq, LenProperties DEF BatchedIn
  <2>3. batches[i].end - batches[i].start \in Int
    BY <2>2 DEF Reads
  <2>4. \/ batches[i].end - batches[i].start <= Limit[table]
        \/ Cardinality(batches[i].spans) = 1
    BY <1>1, <2>1, <2>3 DEF IsRead
  <2> QED
    BY <2>1, <2>4 DEF IsRead
<1> QED
  BY <1>2 DEF Requested, BatchedIn

LEMMA JoinedRequested ==
    ASSUME NEW a, NEW b, NEW S, NEW T, Requested(a, S), Requested(b, T)
    PROVE  Requested(a \o b, S \union T)
<1> DEFINE M == Len(a)
           N == Len(b)
           c == a \o b
<1>1. /\ a \in Seq(Reads) /\ M \in Nat /\ DOMAIN a = 1 .. M
      /\ b \in Seq(Reads) /\ N \in Nat /\ DOMAIN b = 1 .. N
  BY LenProperties DEF Requested
<1>2. c \in Seq(Reads) /\ DOMAIN c = 1 .. M + N
  BY <1>1, ConcatProperties, LenProperties
<1>3. /\ \A i \in 1 .. M : c[i] = a[i]
      /\ \A i \in M + 1 .. M + N : c[i] = b[i - M] /\ i - M \in 1 .. N
  BY <1>1, ConcatProperties
<1>4. /\ \A i \in 1 .. M : IsRead(a[i], Limit[a[i].table])
      /\ \A i \in 1 .. N : IsRead(b[i], Limit[b[i].table])
      /\ S = UNION {a[i].spans : i \in 1 .. M}
      /\ T = UNION {b[i].spans : i \in 1 .. N}
  BY <1>1 DEF Requested, SpansOf
<1> HIDE DEF M, N, c
<1>5. \A i \in 1 .. M + N : i \in 1 .. M \/ i \in M + 1 .. M + N
  BY <1>1
<1>6. \A i \in 1 .. M + N : IsRead(c[i], Limit[c[i].table])
  BY <1>3, <1>4, <1>5
<1>7. S \union T = UNION {c[i].spans : i \in 1 .. M + N}
  <2>1. ASSUME NEW i \in 1 .. M PROVE i \in 1 .. M + N /\ c[i].spans = a[i].spans
    BY <1>1, <1>3
  <2>2. ASSUME NEW i \in 1 .. N PROVE \E k \in 1 .. M + N : c[k].spans = b[i].spans
    <3> DEFINE k == M + i
    <3>1. k \in M + 1 .. M + N /\ k - M = i /\ k \in 1 .. M + N
      BY <1>1
    <3> HIDE DEF k
    <3> QED
      BY <1>3, <3>1
  <2>3. ASSUME NEW i \in 1 .. M + N PROVE c[i].spans \subseteq S \union T
    <3>1. CASE i \in 1 .. M
      BY <1>3, <1>4, <3>1
    <3>2. CASE i \in M + 1 .. M + N
      <4>1. c[i] = b[i - M] /\ i - M \in 1 .. N
        BY <1>3, <3>2
      <4> QED
        BY <1>4, <4>1
    <3> QED
      BY <1>5, <3>1, <3>2
  <2>4. ASSUME NEW s \in S \union T PROVE \E i \in 1 .. M + N : s \in c[i].spans
    <3>1. CASE s \in S
      BY <1>4, <2>1, <3>1
    <3>2. CASE s \in T
      BY <1>4, <2>2, <3>2
    <3> QED
      BY <3>1, <3>2
  <2> QED
    BY <2>3, <2>4
<1> QED
  BY <1>2, <1>6, <1>7 DEF Requested, SpansOf, c

\* The first request, and those that are left when it was answered.
LEMMA RestRequested ==
    ASSUME NEW batches, NEW S, Requested(batches, S), batches # << >>
    PROVE  /\ Head(batches) \in Reads
           /\ IsRead(Head(batches), Limit[Head(batches).table])
           /\ Requested(Tail(batches), SpansOf(Tail(batches)))
           /\ S = Head(batches).spans \union SpansOf(Tail(batches))
<1> DEFINE L == Len(batches)
           rest == Tail(batches)
<1>1. /\ batches \in Seq(Reads) /\ L \in Nat /\ DOMAIN batches = 1 .. L
      /\ 1 \in 1 .. L /\ Head(batches) = batches[1]
  BY EmptySeq, LenProperties DEF Requested
<1>2. /\ rest \in Seq(Reads) /\ DOMAIN rest = 1 .. L - 1
      /\ \A i \in 1 .. L - 1 : rest[i] = batches[i + 1]
  BY <1>1, HeadTailProperties, LenProperties
<1>3. /\ \A i \in 1 .. L : IsRead(batches[i], Limit[batches[i].table]) /\ batches[i] \in Reads
      /\ S = UNION {batches[i].spans : i \in 1 .. L}
  BY <1>1, ElementOfSeq DEF Requested, SpansOf
<1> HIDE DEF L, rest
<1>4. \A i \in 1 .. L - 1 : i + 1 \in 1 .. L /\ rest[i] = batches[i + 1]
  BY <1>1, <1>2
<1>5. \A i \in 1 .. L : i = 1 \/ (i - 1 \in 1 .. L - 1 /\ i - 1 + 1 = i)
  BY <1>1
<1>6. S = batches[1].spans \union UNION {rest[i].spans : i \in 1 .. L - 1}
  <2>1. ASSUME NEW s \in S
        PROVE s \in batches[1].spans \/ \E i \in 1 .. L - 1 : s \in rest[i].spans
    <3>1. PICK k \in 1 .. L : s \in batches[k].spans
      BY <1>3
    <3>2. CASE k = 1
      BY <3>1, <3>2
    <3>3. CASE k # 1
      <4>1. k - 1 \in 1 .. L - 1 /\ k - 1 + 1 = k
        BY <1>5, <3>3
      <4>2. rest[k - 1] = batches[k]
        BY <1>4, <4>1
      <4> QED
        BY <3>1, <4>1, <4>2
    <3> QED
      BY <3>2, <3>3
  <2>2. ASSUME NEW i \in 1 .. L - 1 PROVE rest[i].spans \subseteq S
    BY <1>3, <1>4
  <2>3. batches[1].spans \subseteq S
    BY <1>1, <1>3
  <2> QED
    BY <2>1, <2>2, <2>3
<1>7. Requested(rest, SpansOf(rest))
  BY <1>2, <1>3, <1>4 DEF Requested
<1>8. SpansOf(rest) = UNION {rest[i].spans : i \in 1 .. L - 1}
  BY <1>2 DEF SpansOf
<1> QED
  BY <1>1, <1>3, <1>6, <1>7, <1>8 DEF rest

LEMMA NothingRequested == Requested(<< >>, {})
<1>1. DOMAIN << >> = {} /\ << >> \in Seq(Reads)
  BY EmptySeq
<1> QED
  BY <1>1 DEF Requested, SpansOf

\* SetToSeq leaves out no element.
LEMMA SetToSeqIs ==
    ASSUME NEW S, IsFiniteSet(S)
    PROVE  /\ SetToSeq(S) \in [1 .. Cardinality(S) -> S]
           /\ \A x \in S : \E i \in 1 .. Cardinality(S) : SetToSeq(S)[i] = x
<1> DEFINE N == Cardinality(S)
           seq == SetToSeq(S)
<1>1. N \in Nat /\ ExistsBijection(1 .. N, S)
  BY FS_CardinalityType
<1>2. \E f \in [1 .. N -> S] : IsInjective(f)
  BY <1>1 DEF ExistsBijection, Bijection, Injection
<1>3. seq = CHOOSE f \in [1 .. N -> S] : IsInjective(f)
  BY DEF SetToSeq
<1> HIDE DEF seq
<1>4. seq \in [1 .. N -> S] /\ IsInjective(seq)
  BY <1>2, <1>3
<1>5. \A i, k \in 1 .. N : seq[i] = seq[k] => i = k
  BY <1>4 DEF IsInjective
<1>6. Cardinality(1 .. N) = N
  <2>1. 1 \in Int /\ N \in Int
    BY <1>1
  <2>2. Cardinality(1 .. N) = IF 1 > N THEN 0 ELSE N - 1 + 1
    BY <2>1, FS_Interval
  <2> HIDE DEF N
  <2> QED
    BY <1>1, <2>2
<1> DEFINE T == 1 .. N
<1>7. seq \in [T -> S] /\ (\A i, k \in T : seq[i] = seq[k] => i = k) /\ Cardinality(T) = Cardinality(S)
  BY <1>4, <1>5, <1>6
<1> HIDE DEF T, N
<1>8. \A x \in S : \E i \in T : seq[i] = x
  BY <1>7, Onto
<1> QED
  BY <1>4, <1>8 DEF T, N, seq

\* read() asks for every span.
LEMMA RequestsAre ==
    ASSUME ModbusDeviceAssumption, NEW spans, IsFiniteSet(spans), spans \subseteq Spans
    PROVE  Requested(ReadRequests(spans), spans)
<1> DEFINE tables == {s.table : s \in spans}
           L == Cardinality(tables)
           seq == SetToSeq(tables)
           of(i) == {s \in spans : s.table = seq[i]}
           seqs == [i \in 1 .. L |-> Batches(of(i), Limit[seq[i]])]
<1>1. IsFiniteSet(tables)
  <2>1. [s \in spans |-> s.table] \in Surjection(spans, tables)
    BY DEF Surjection
  <2> QED
    BY <2>1, FS_Surjection
<1>2. L \in Nat /\ seq \in [1 .. L -> tables] /\ \A x \in tables : \E i \in 1 .. L : seq[i] = x
  BY <1>1, SetToSeqIs, FS_CardinalityType
<1>3. ReadRequests(spans) = FlattenSeq(seqs)
  BY DEF ReadRequests
<1>4. \A i \in 1 .. L : seq[i] \in DOMAIN Limit
  <2>1. tables \subseteq DOMAIN Limit
    BY DEF Spans
  <2> QED
    BY <1>2, <2>1
<1>5. spans = UNION {of(i) : i \in 1 .. L}
  <2>1. ASSUME NEW s \in spans PROVE \E i \in 1 .. L : s \in of(i)
    <3>1. s.table \in tables
      OBVIOUS
    <3>2. PICK i \in 1 .. L : seq[i] = s.table
      BY <1>2, <3>1
    <3> QED
      BY <3>2
  <2>2. \A i \in 1 .. L : of(i) \subseteq spans
    OBVIOUS
  <2> HIDE DEF of
  <2> QED
    BY <2>1, <2>2
<1> HIDE DEF L, seq, tables
<1>6. ASSUME NEW i \in 1 .. L PROVE Requested(seqs[i], of(i))
  <2> DEFINE part == of(i)
             table == seq[i]
             batches == Batches(part, Limit[table])
  <2>1. part \in SUBSET spans
    OBVIOUS
  <2>2. OfTable(part, table)
    BY <2>1, FS_Subset DEF OfTable
  <2>3. table \in DOMAIN Limit /\ Limit[table] \in Int /\ Limit[table] <= Limit[table]
    BY <1>4 DEF ModbusDeviceAssumption
  <2>4. seqs[i] = batches
    OBVIOUS
  <2> HIDE DEF part, table, seqs
  <2>5. BatchedIn(batches, table, Limit[table]) /\ SpansOf(batches) = part
    BY <2>2, BatchesAre
  <2> HIDE DEF batches
  <2>6. Requested(batches, part)
    BY <2>3, <2>5, BatchedRequested
  <2> QED
    BY <2>4, <2>6 DEF part
<1>7. seqs = [i \in 1 .. L |-> seqs[i]]
  OBVIOUS
<1> HIDE DEF seqs
<1>8. seqs \in Seq(Seq(Reads)) /\ Len(seqs) = L
  <2>1. seqs \in [1 .. L -> Seq(Reads)]
    BY <1>6, <1>7 DEF Requested
  <2> QED
    BY <1>2, <2>1, IsASeq, LenProperties
<1>9. CASE L = 0
  <2>1. seqs = << >> /\ FlattenSeq(seqs) = seqs
    BY <1>8, <1>9, EmptySeq DEF FlattenSeq
  <2>2. 1 .. L = {}
    BY <1>9
  <2>3. spans = {}
    BY <1>5, <2>2
  <2> QED
    BY <1>3, <2>1, <2>3, NothingRequested
<1>10. CASE L # 0
  <2>1. seqs # << >> /\ L = Len(seqs) /\ 1 \in 1 .. L /\ L \in 1 .. L /\ 1 <= L
    BY <1>2, <1>8, <1>10, EmptySeq
  <2>2. PICK f \in [1 .. L -> Seq(Reads)] :
          /\ FlattenSeq(seqs) = f[L]
          /\ f[1] = seqs[1]
          /\ \A n \in 1 .. L : n # 1 => f[n] = f[n - 1] \o seqs[n]
    <3>1. seqs \in Seq(Seq(Reads)) /\ seqs # << >> /\ L = Len(seqs)
      BY <1>8, <2>1
    <3> QED
      BY <3>1, Flattened
  <2> DEFINE S == {n \in 1 .. L : Requested(f[n], UNION {of(i) : i \in 1 .. n})}
  <2>3. 1 \in S
    <3>1. 1 .. 1 = {1}
      OBVIOUS
    <3>2. UNION {of(i) : i \in 1 .. 1} = of(1)
      BY <3>1
    <3> HIDE DEF of
    <3> QED
      BY <1>6, <2>1, <2>2, <3>2
  <2>4. ASSUME NEW n \in 1 .. L, n # 1, n - 1 \in S PROVE n \in S
    <3> HIDE DEF of
    <3> DEFINE before == UNION {of(i) : i \in 1 .. n - 1}
    <3>1. Requested(f[n - 1], before) /\ Requested(seqs[n], of(n)) /\ f[n] = f[n - 1] \o seqs[n]
      BY <1>6, <2>2, <2>4
    <3>2. 1 .. n = (1 .. n - 1) \union {n}
      BY <1>2
    <3>3. before \union of(n) = UNION {of(i) : i \in 1 .. n}
      BY <3>2
    <3> HIDE DEF before
    <3>4. Requested(f[n - 1] \o seqs[n], before \union of(n))
      BY <3>1, JoinedRequested
    <3> QED
      BY <2>4, <3>1, <3>3, <3>4
  <2> HIDE DEF S
  <2>5. 1 .. L \subseteq S
    BY <1>2, <2>1, <2>3, <2>4, UpTo
  <2>6. Requested(f[L], UNION {of(i) : i \in 1 .. L})
    BY <2>1, <2>5 DEF S
  <2> QED
    BY <1>3, <1>5, <2>2, <2>6
<1> QED
  BY <1>9, <1>10

LEMMA PartRange ==
    ASSUME NEW V, NEW seq \in Seq(V), NEW m \in Nat \ {0}, NEW n \in m .. Len(seq)
    PROVE  Range(SubSeq(seq, m, n)) = {seq[i] : i \in m .. n}
<1> DEFINE part == SubSeq(seq, m, n)
           L == n - m + 1
<1>1. Len(seq) \in Nat /\ DOMAIN seq = 1 .. Len(seq)
  BY LenProperties
<1>2. m \in Int /\ n \in Int /\ m <= n /\ L \in Nat
  BY <1>1
<1>3. \A i \in m .. n : i \in 1 .. Len(seq) /\ seq[i] \in V
  BY <1>1, ElementOfSeq
<1>4. /\ part \in Seq(V) /\ Len(part) = L
      /\ \A i \in 1 .. L : part[i] = seq[m + i - 1]
  BY <1>2, <1>3, SubSeqProperties
<1> HIDE DEF part
<1>5. DOMAIN part = 1 .. L
  BY <1>4, LenProperties
<1>6. \A i \in 1 .. L : m + i - 1 \in m .. n
  BY <1>1
<1>7. ASSUME NEW i \in m .. n PROVE seq[i] \in {part[k] : k \in 1 .. L}
  <2>1. i - m + 1 \in 1 .. L /\ m + (i - m + 1) - 1 = i
    BY <1>1
  <2>2. part[i - m + 1] = seq[m + (i - m + 1) - 1]
    BY <1>4, <2>1
  <2> QED
    BY <2>1, <2>2
<1>8. Range(part) = {part[i] : i \in 1 .. L}
  BY <1>5 DEF Range
<1>9. \A i \in 1 .. L : part[i] \in {seq[k] : k \in m .. n}
  BY <1>4, <1>6
<1>10. {part[i] : i \in 1 .. L} = {seq[i] : i \in m .. n}
  BY <1>7, <1>9
<1> QED
  BY <1>8, <1>10 DEF part

\* The two halves of a request that is refused ask for its spans.
LEMMA HalvesAre ==
    ASSUME ModbusDeviceAssumption, NEW r \in Reads, IsRead(r, Limit[r.table]),
           Cardinality(r.spans) > 1
    PROVE  Requested(Halves(r), r.spans)
<1> DEFINE ordered == Ordered(r.spans)
           L == Len(ordered)
           middle == L \div 2
           limit == r.end - r.start
           left == SubSeq(ordered, 1, middle)
           right == SubSeq(ordered, middle + 1, L)
           part(half) == Batches(Range(half), limit)
<1>1. OfTable(r.spans, r.table) /\ r.table \in DOMAIN Limit
  BY DEF IsRead, Reads
<1>2. /\ ordered \in Seq(r.spans) /\ L = Cardinality(r.spans) /\ Range(ordered) = r.spans
      /\ L \in Nat /\ DOMAIN ordered = 1 .. L
  BY <1>1, OrderedIs, LenProperties
<1>3. limit \in Int /\ limit <= Limit[r.table]
  <2>1. Cardinality(r.spans) # 1
    BY <1>2
  <2> QED
    BY <2>1 DEF IsRead, Reads
<1>4. Halves(r) = part(left) \o part(right)
  BY DEF Halves
<1>5. L \in Nat /\ L > 1
  BY <1>2
<1>6. middle \in 1 .. L - 1
  <2> HIDE DEF L
  <2> QED
    BY <1>5
<1> HIDE DEF L, middle, ordered, limit
<1>7. \A i \in 1 .. L : ordered[i] \in r.spans
  BY <1>2, ElementOfSeq
<1>8. Range(left) = {ordered[i] : i \in 1 .. middle}
  <2>1. 1 \in Nat \ {0} /\ middle \in 1 .. Len(ordered)
    BY <1>5, <1>6 DEF L
  <2> QED
    BY <1>2, <2>1, PartRange
<1>9. Range(right) = {ordered[i] : i \in middle + 1 .. L}
  <2>1. middle + 1 \in Nat \ {0} /\ L \in middle + 1 .. Len(ordered)
    BY <1>5, <1>6 DEF L
  <2> QED
    BY <1>2, <2>1, PartRange
<1> HIDE DEF left, right
<1>10. r.spans = Range(left) \union Range(right)
  <2>1. 1 .. L = (1 .. middle) \union (middle + 1 .. L)
    BY <1>5, <1>6
  <2>2. r.spans = {ordered[i] : i \in 1 .. L}
    BY <1>2 DEF Range
  <2> QED
    BY <1>8, <1>9, <2>1, <2>2
<1>11. ASSUME NEW half, half \in SUBSET r.spans PROVE Requested(Batches(half, limit), half)
  <2>1. OfTable(half, r.table)
    BY <1>1, <1>11, FS_Subset DEF OfTable
  <2>2. BatchedIn(Batches(half, limit), r.table, limit) /\ SpansOf(Batches(half, limit)) = half
    BY <2>1, BatchesAre
  <2> DEFINE batches == Batches(half, limit)
  <2>3. BatchedIn(batches, r.table, limit) /\ SpansOf(batches) = half
    BY <2>2
  <2> HIDE DEF batches
  <2>4. Requested(batches, SpansOf(batches))
    BY <1>1, <1>3, <2>3, BatchedRequested
  <2> QED
    BY <2>3, <2>4 DEF batches
<1>12. Requested(part(left), Range(left)) /\ Requested(part(right), Range(right))
  BY <1>10, <1>11
<1> HIDE DEF part
<1> QED
  BY <1>4, <1>10, <1>12, JoinedRequested

-----------------------------------------------------------------------------
(***************************************************************************)
(* What a read has of the answers.                                         *)
(***************************************************************************)

Own(s) == [i \in 1 .. s.count |-> <<s.table, s.start + i - 1>>]

IsResult(t, s, result) ==
    /\ result.outcome = "ok" => result.words = Own(s)
    /\ result.outcome = "missing" => Range(Own(s)) \intersect absent[UnitOf[t]] # {}

AreResults(t, results) == \A s \in DOMAIN results : IsResult(t, s, results[s])

\* Each span of a read has its result, or is asked for yet.
IsReading(t, now) ==
    /\ now.job.op = "read" =>
        /\ Requested(now.todo, SpansOf(now.todo))
        /\ now.job.spans = SpansOf(now.todo) \union DOMAIN now.results
        /\ AreResults(t, now.results)
        /\ now.at = "done" <=> now.todo = << >>
    /\ now.job = NoJob => now.todo = << >>

ReadInv == \A t \in Tasks : IsReading(t, task[t])

\* _deliver() gives each span its own part of the values, wherever in the request it is.
LEMMA WordsAre ==
    ASSUME NEW r \in Reads, NEW limit, IsRead(r, limit), NEW s \in r.spans
    PROVE  SubSeq([i \in 1 .. r.end - r.start |-> <<r.table, r.start + i - 1>>],
                  s.start - r.start + 1, End(s) - r.start) = Own(s)
<1> DEFINE L == r.end - r.start
           m == s.start - r.start + 1
           n == End(s) - r.start
           W == {<<r.table, a>> : a \in Nat}
           word(i) == <<r.table, r.start + i - 1>>
           words == [i \in 1 .. L |-> word(i)]
           part == SubSeq(words, m, n)
           N == s.count
<1>1. /\ r.start <= s.start /\ End(s) <= r.end /\ r.start \in Nat /\ r.end \in Nat
      /\ s.start \in Nat /\ N \in Nat /\ N # 0 /\ s.table = r.table /\ End(s) = s.start + N
  BY ReadIs DEF End
<1>2. m \in Nat /\ m >= 1 /\ n \in Nat /\ L \in Nat /\ n <= L /\ n - m + 1 = N /\ m <= n
  BY <1>1
<1>3. /\ \A i \in 1 .. L : r.start + i - 1 \in Nat
      /\ \A i \in m .. n : i \in 1 .. L
      /\ \A i \in 1 .. N : m + i - 1 \in 1 .. L /\ r.start + (m + i - 1) - 1 = s.start + i - 1
  BY <1>1
<1>4. \A i \in 1 .. L : words[i] = word(i) /\ word(i) \in W
  BY <1>3
<1>5. \A i \in 1 .. N : word(m + i - 1) = <<s.table, s.start + i - 1>>
  BY <1>1, <1>3
<1> HIDE DEF m, n, L, words, word, W, N
<1>6. \A i \in m .. n : words[i] \in W
  BY <1>3, <1>4
<1>7. /\ part \in Seq(W) /\ Len(part) = N
      /\ \A i \in 1 .. N : part[i] = words[m + i - 1]
  <2>1. m \in Int /\ n \in Int
    BY <1>2
  <2>2. /\ part \in Seq(W) /\ Len(part) = IF m <= n THEN n - m + 1 ELSE 0
        /\ \A i \in 1 .. n - m + 1 : part[i] = words[m + i - 1]
    BY <1>6, <2>1, SubSeqProperties
  <2> HIDE DEF part
  <2> QED
    BY <1>2, <2>2
<1>8. \A i \in 1 .. N : part[i] = <<s.table, s.start + i - 1>>
  BY <1>3, <1>4, <1>5, <1>7
<1>9. part = [i \in 1 .. N |-> part[i]]
  BY <1>7, LenProperties
<1>10. part = Own(s)
  BY <1>8, <1>9 DEF Own, N
<1> QED
  BY <1>10 DEF part, words, word, L, m, n

LEMMA MissingIs ==
    ASSUME NEW code, Outcome(code) = "missing"
    PROVE  code = "illegal_address"
  BY DEF Outcome, OutcomeByCode

\* What a span has of a request answered so, or not answered.
Answer(r, code, s) ==
    [outcome |-> Outcome(code),
     words |-> IF code # "ok" THEN << >>
               ELSE SubSeq([i \in 1 .. r.end - r.start |-> <<r.table, r.start + i - 1>>],
                           s.start - r.start + 1, End(s) - r.start)]

LEMMA AnswerIs ==
    ASSUME NEW t \in Tasks, NEW r \in Reads, NEW limit, IsRead(r, limit), NEW s \in r.spans,
           NEW code, code = "illegal_address" => Lacks(UnitOf[t], r) /\ ~(Cardinality(r.spans) > 1)
    PROVE  IsResult(t, s, Answer(r, code, s))
<1> DEFINE result == Answer(r, code, s)
<1>1. /\ result.outcome = Outcome(code)
      /\ code = "ok" => result.words = Own(s)
  BY WordsAre DEF Answer
<1>2. result.outcome = "ok" => result.words = Own(s)
  BY <1>1, OutcomeFacts
<1>3. ASSUME result.outcome = "missing" PROVE Range(Own(s)) \intersect absent[UnitOf[t]] # {}
  <2>1. Lacks(UnitOf[t], r) /\ ~(Cardinality(r.spans) > 1)
    BY <1>1, <1>3, MissingIs
  <2>2. r.spans = {s}
    <3>1. IsFiniteSet(r.spans)
      BY DEF IsRead, OfTable
    <3>2. IsFiniteSet({s}) /\ Cardinality({s}) = 1 /\ {s} \in SUBSET r.spans
      BY FS_Singleton
    <3>3. Cardinality({s}) <= Cardinality(r.spans) /\ Cardinality(r.spans) \in Nat
      BY <3>1, <3>2, FS_Subset, FS_CardinalityType
    <3>4. Cardinality(r.spans) = Cardinality({s})
      BY <2>1, <3>2, <3>3
    <3> QED
      BY <3>1, <3>2, <3>4, FS_Subset
  <2>3. r.start .. r.end - 1 = Addresses(s)
    BY <2>2 DEF IsRead
  <2>4. PICK a \in Addresses(s) : <<r.table, a>> \in absent[UnitOf[t]]
    BY <2>1, <2>3 DEF Lacks, Reads
  <2>5. s.start \in Nat /\ s.count \in Nat /\ s.table = r.table
    BY ReadIs
  <2> DEFINE k == a - s.start + 1
  <2>6. k \in 1 .. s.count /\ s.start + k - 1 = a
    BY <2>5 DEF Addresses, End
  <2> HIDE DEF k
  <2>7. Own(s)[k] = <<r.table, a>> /\ k \in DOMAIN Own(s)
    BY <2>5, <2>6 DEF Own
  <2>8. <<r.table, a>> \in Range(Own(s))
    BY <2>7 DEF Range
  <2> QED
    BY <2>4, <2>8
<1> QED
  BY <1>2, <1>3 DEF IsResult

LEMMA DeliverIs ==
    ASSUME NEW t \in Tasks, NEW r \in Reads, NEW limit, IsRead(r, limit),
           NEW code, code = "illegal_address" => Lacks(UnitOf[t], r) /\ ~(Cardinality(r.spans) > 1),
           NEW results, AreResults(t, results)
    PROVE  /\ DOMAIN Deliver(r, code, results) = r.spans \union DOMAIN results
           /\ AreResults(t, Deliver(r, code, results))
<1> DEFINE next == Deliver(r, code, results)
<1>1. next = [s \in r.spans \union DOMAIN results |->
                IF s \notin r.spans THEN results[s] ELSE Answer(r, code, s)]
  BY DEF Deliver, Answer
<1> HIDE DEF next
<1>2. ASSUME NEW s \in DOMAIN next PROVE IsResult(t, s, next[s])
  <2>1. CASE s \in r.spans
    <3>1. next[s] = Answer(r, code, s)
      BY <1>1, <2>1
    <3> QED
      BY <2>1, <3>1, AnswerIs
  <2>2. CASE s \notin r.spans
    <3>1. next[s] = results[s] /\ s \in DOMAIN results
      BY <1>1, <1>2, <2>2
    <3> QED
      BY <3>1 DEF AreResults
  <2> QED
    BY <2>1, <2>2
<1> QED
  BY <1>1, <1>2 DEF AreResults, next

\* A read goes on: it asks again, asks for the halves, or has what came of its request.
LEMMA ResumesIsReading ==
    ASSUME ModbusDeviceAssumption, NEW t \in Tasks, IsTask(t, task[t]), IsReading(t, task[t]),
           task[t].job.op = "read", task[t].at # "done", NEW code, NEW taken,
           code = "illegal_address" => Lacks(UnitOf[t], Head(task[t].todo))
    PROVE  IsReading(t, Resumes(t, code, taken))
<1> DEFINE next == Resumes(t, code, taken)
           was == task[t]
           job == task[t].job
           request == Head(task[t].todo)
           rest == Tail(task[t].todo)
           now == [task[t] EXCEPT !.applied = IF taken /\ Writes(t) THEN @ + 1 ELSE @,
                                  !.tries = 0, !.at = "ask"]
           again == code = "busy" /\ Repeats(t) /\ was.tries + 1 < BusyTries
           fetched == job.op = "bit" /\ request.kind = "fetch" /\ code = "ok"
           halved == job.op = "read" /\ code = "illegal_address" /\ Cardinality(request.spans) > 1
           place == IF rest = << >> THEN "done" ELSE "ask"
           results == Deliver(request, code, was.results)
           tries == [now EXCEPT !.at = "busy", !.tries = was.tries + 1]
           back == [now EXCEPT !.todo = <<WriteBack(request.address, job.bit,
                            SetBit(register[UnitOf[t]][request.address], job.bit, job.on))>>]
           halves == [now EXCEPT !.todo = Halves(request) \o rest]
           read == [now EXCEPT !.todo = rest, !.results = Deliver(request, code, @),
                               !.at = IF rest = << >> THEN "done" ELSE "ask"]
           ends == [now EXCEPT !.todo = << >>, !.outcome = Outcome(code), !.at = "done"]
<1>1. /\ DOMAIN was = Fields /\ was.at # "done" /\ job # NoJob
      /\ was.todo # << >> /\ Requested(was.todo, SpansOf(was.todo))
      /\ job.spans = SpansOf(was.todo) \union DOMAIN was.results
      /\ AreResults(t, was.results)
  BY DEF IsTask, IsReading, NoJob
<1>2. /\ request \in Reads /\ IsRead(request, Limit[request.table])
      /\ Requested(rest, SpansOf(rest))
      /\ SpansOf(was.todo) = request.spans \union SpansOf(rest)
  BY <1>1, RestRequested
<1>3. /\ DOMAIN now = Fields
      /\ now.job = job /\ now.todo = was.todo /\ now.results = was.results
  BY <1>1 DEF Fields
<1>4. /\ again => next = tries
      /\ halved => next = halves
      /\ ~again /\ ~halved => next = read
  <2>1. next = CASE again -> tries
                 [] fetched -> back
                 [] halved -> halves
                 [] job.op = "read" /\ ~again /\ ~halved -> read
                 [] OTHER -> ends
    BY DEF Resumes
  <2>2. /\ again \in BOOLEAN /\ fetched \in BOOLEAN /\ halved \in BOOLEAN
        /\ ~(again /\ fetched) /\ ~(again /\ halved) /\ ~(fetched /\ halved)
        /\ job.op = "read" /\ ~fetched
    OBVIOUS
  <2> HIDE DEF next, again, fetched, halved, tries, back, halves, read, ends
  <2> QED
    BY <2>1, <2>2
<1>5. ASSUME again PROVE IsReading(t, next)
  <2>1. next = tries
    BY <1>4, <1>5
  <2>2. next.at = "busy" /\ next.job = job /\ next.todo = was.todo /\ next.results = was.results
    <3> HIDE DEF next, now, again, fetched, halved, halves, read, back, ends
    <3> QED
      BY <1>3, <2>1 DEF Fields
  <2> HIDE DEF next
  <2> QED
    BY <1>1, <2>2 DEF IsReading
<1>6. ASSUME halved PROVE IsReading(t, next)
  <2> DEFINE todo == Halves(request) \o rest
  <2>1. next = halves
    BY <1>4, <1>6
  <2>2. next.at = "ask" /\ next.job = job /\ next.todo = todo /\ next.results = was.results
    <3>1. now.at = "ask"
      BY <1>1 DEF Fields
    <3> HIDE DEF next, now, again, fetched, halved, read, back, ends, tries
    <3> QED
      BY <1>3, <2>1, <3>1 DEF Fields
  <2>3. Requested(Halves(request), request.spans)
    BY <1>2, <1>6, HalvesAre
  <2> HIDE DEF next, request, rest
  <2>4. Requested(todo, request.spans \union SpansOf(rest))
    BY <1>2, <2>3, JoinedRequested
  <2>5. SpansOf(todo) = SpansOf(was.todo)
    BY <1>2, <2>4 DEF Requested
  <2>6. todo # << >>
    <3>1. request.spans # {}
      BY <1>2 DEF IsRead
    <3>2. SpansOf(todo) # {}
      BY <1>2, <2>5, <3>1
    <3> HIDE DEF todo
    <3> QED
      BY <3>2 DEF SpansOf
  <2> HIDE DEF todo
  <2> QED
    BY <1>1, <1>2, <2>2, <2>4, <2>5, <2>6 DEF IsReading
<1>7. ASSUME ~again, ~halved PROVE IsReading(t, next)
  <2>1. next = read
    BY <1>4, <1>7
  <2>2. next.at = place /\ next.job = job /\ next.todo = rest /\ next.results = results
    <3> HIDE DEF next, now, again, fetched, halved, halves, back, ends, tries, request, rest
    <3> QED
      BY <1>3, <2>1 DEF Fields
  <2>3. code = "illegal_address" => Lacks(UnitOf[t], request) /\ ~(Cardinality(request.spans) > 1)
    BY <1>7
  <2>4. DOMAIN results = request.spans \union DOMAIN was.results /\ AreResults(t, results)
    BY <1>1, <1>2, <2>3, DeliverIs
  <2> HIDE DEF next, request, rest, results
  <2>5. next.at = "done" <=> next.todo = << >>
    BY <2>2
  <2> QED
    BY <1>1, <1>2, <2>2, <2>4, <2>5 DEF IsReading
<1> QED
  BY <1>5, <1>6, <1>7

LEMMA GoesIsReading ==
    ASSUME DeviceInv, ReadInv, NEW t \in Tasks, NEW now, Goes(t, now), IsReading(t, now),
           absent' = absent
    PROVE  ReadInv'
<1>1. /\ DOMAIN task = Tasks /\ task' = [task EXCEPT ![t] = now]
  BY DEF Goes, DeviceInv, TaskInv
<1>2. ASSUME NEW w \in Tasks PROVE IsReading(w, task'[w])
  <2>1. CASE w = t
    BY <1>1, <2>1
  <2>2. CASE w # t
    BY <1>1, <2>2 DEF ReadInv
  <2> QED
    BY <2>1, <2>2
<1>3. ASSUME NEW w \in Tasks PROVE IsReading(w, task[w])'
  BY <1>2 DEF IsReading, AreResults, IsResult
<1> QED
  BY <1>3 DEF ReadInv

\* What came of a request that was sent, or refused by the breaker.
LEMMA AnsweredIsReading ==
    ASSUME ModbusDeviceAssumption, DeviceInv, ReadInv, NEW t \in Tasks,
           task[t].at \in {"ask", "ready", "line"}, task[t].job.op \in Requesting,
           NEW code, NEW taken \in BOOLEAN, code = "ok" => taken,
           taken /\ code # "ok" => Outcome(code) = "no_answer",
           code = "illegal_address" => Lacks(UnitOf[t], Head(task[t].todo))
    PROVE  IsReading(t, Resumes(t, code, taken))
<1>1. IsTask(t, task[t]) /\ IsReading(t, task[t]) /\ task[t].at # "done"
  BY DEF DeviceInv, TaskInv, ReadInv
<1>2. CASE task[t].job.op = "read"
  BY <1>1, <1>2, ResumesIsReading
<1>3. CASE task[t].job.op # "read"
  <2>1. Resumes(t, code, taken).job = task[t].job
    BY ResumesIsTask DEF DeviceInv
  <2>2. task[t].job # NoJob
    BY DEF NoJob, Requesting
  <2> QED
    BY <1>3, <2>1, <2>2 DEF IsReading
<1> QED
  BY <1>2, <1>3

LEMMA IdleIsReading ==
    ASSUME NEW t \in Tasks
    PROVE  IsReading(t, Idle)
  BY DEF IsReading, Idle, NoJob

LEMMA SpansOfJob ==
    ASSUME ModbusDeviceAssumption, NEW t \in Tasks, NEW j \in Jobs[t], j.op = "read"
    PROVE  IsFiniteSet(j.spans) /\ j.spans \subseteq Spans
<1>1. Job(j)
  BY DEF ModbusDeviceAssumption
<1>2. j \notin [op : {"bit"}, address : Registers, bit : Bits, on : BOOLEAN]
  OBVIOUS
<1>3. j \notin [op : {"register"}, address : Registers, value : SUBSET Bits]
  OBVIOUS
<1>4. j \notin [op : {"connect", "disconnect"}]
  OBVIOUS
<1> QED
  BY <1>1, <1>2, <1>3, <1>4 DEF Job, Spans

\* A task that waits on has what it had.
LEMMA MovesIsReading ==
    ASSUME DeviceInv, ReadInv, NEW t \in Tasks, task[t].at # "done", NEW place \in Asking
    PROVE  IsReading(t, [task[t] EXCEPT !.at = place])
<1> DEFINE next == [task[t] EXCEPT !.at = place]
<1>1. DOMAIN task[t] = Fields /\ IsReading(t, task[t])
  BY DEF DeviceInv, TaskInv, IsTask, ReadInv
<1>2. /\ next.at = place /\ next.job = task[t].job /\ next.todo = task[t].todo
      /\ next.results = task[t].results
  BY <1>1 DEF Fields
<1>3. place # "done"
  BY DEF Asking
<1> HIDE DEF next
<1>4. IsReading(t, next)
  BY <1>1, <1>2, <1>3 DEF IsReading
<1> QED
  BY <1>4 DEF next

LEMMA StartReads ==
    ASSUME ModbusDeviceAssumption, DeviceInv, ReadInv, NEW t \in Tasks, NEW j \in Jobs[t],
           Start(t, j)
    PROVE  ReadInv'
<1> DEFINE u == UnitOf[t]
           begun == [Idle EXCEPT !.job = j, !.todo = Requests(u, j)]
           place == IF NeedsBitLock(u, j)
                    THEN IF bitLine[<<u, j.address>>] = << >> THEN "ask" ELSE "bit"
                    ELSE IF begun.todo = << >> THEN "done" ELSE "ask"
           now == [begun EXCEPT !.at = place]
<1>1. Goes(t, now) /\ absent' = absent /\ j.op \in {"read", "register", "bit"}
  BY DEF Start, unitVars
<1>2. begun.todo = Requests(u, j)
  BY DEF Idle
<1>3. now.job = j /\ now.todo = Requests(u, j) /\ now.results = << >> /\ now.at = place
  BY DEF Idle
<1>4. j # NoJob
  BY <1>1 DEF NoJob
<1>5. ASSUME j.op = "read" PROVE IsReading(t, now)
  <2>1. Requests(u, j) = ReadRequests(j.spans) /\ ~NeedsBitLock(u, j)
    BY <1>5 DEF Requests, NeedsBitLock
  <2>2. Requested(now.todo, j.spans)
    BY <1>3, <1>5, <2>1, SpansOfJob, RequestsAre
  <2>3. place = IF Requests(u, j) = << >> THEN "done" ELSE "ask"
    BY <1>2, <2>1
  <2> HIDE DEF now, place, begun
  <2>4. SpansOf(now.todo) = j.spans
    BY <2>2 DEF Requested
  <2>5. DOMAIN now.results = {}
    BY <1>3
  <2>6. now.at = "done" <=> now.todo = << >>
    BY <1>3, <2>3
  <2> QED
    BY <1>3, <1>4, <2>2, <2>4, <2>5, <2>6 DEF IsReading, AreResults
<1> HIDE DEF now
<1>6. IsReading(t, now)
  <2>1. CASE j.op = "read"
    BY <1>5, <2>1
  <2>2. CASE j.op # "read"
    BY <1>3, <1>4, <2>2 DEF IsReading
  <2> QED
    BY <2>1, <2>2
<1> QED
  BY <1>1, <1>6, GoesIsReading

\* A task that has its connection opened or closed reads nothing.
LEMMA NoReadIsReading ==
    ASSUME NEW t, NEW now, now.job.op \in {"connect", "disconnect"}
    PROVE  IsReading(t, now)
  BY DEF IsReading, NoJob

LEMMA OtherReads ==
    ASSUME ModbusDeviceAssumption, DeviceInv, ReadInv, NEW t \in Tasks,
           \/ \E j \in Jobs[t] : Connect(t, j) \/ Disconnect(t, j)
           \/ OpenLink(t)
           \/ CloseLink(t)
    PROVE  ReadInv'
<1>1. DOMAIN task[t] = Fields
  BY DEF DeviceInv, TaskInv, IsTask
<1>2. PICK now : Goes(t, now) /\ absent' = absent /\ now.job.op \in {"connect", "disconnect"}
  <2>1. ASSUME NEW j \in Jobs[t], Connect(t, j) \/ Disconnect(t, j)
        PROVE \E now : Goes(t, now) /\ absent' = absent /\ now.job.op \in {"connect", "disconnect"}
    <3>1. j.op \in {"connect", "disconnect"} /\ absent' = absent
      BY <2>1 DEF Connect, Disconnect, unitVars
    <3>2. \/ Goes(t, [Idle EXCEPT !.job = j, !.at = "line"])
          \/ Goes(t, [Idle EXCEPT !.job = j, !.outcome = "ok", !.at = "done"])
      BY <2>1 DEF Connect, Disconnect
    <3>3. /\ [Idle EXCEPT !.job = j, !.at = "line"].job = j
          /\ [Idle EXCEPT !.job = j, !.outcome = "ok", !.at = "done"].job = j
      BY DEF Idle
    <3> QED
      BY <3>1, <3>2, <3>3
  <2>2. ASSUME OpenLink(t) \/ CloseLink(t)
        PROVE \E now : Goes(t, now) /\ absent' = absent /\ now.job.op \in {"connect", "disconnect"}
    <3>1. /\ task[t].job.op \in {"connect", "disconnect"} /\ absent' = absent
          /\ \E o : Goes(t, [task[t] EXCEPT !.at = "done", !.outcome = o])
      BY <2>2 DEF OpenLink, CloseLink, unitVars
    <3>2. PICK o : Goes(t, [task[t] EXCEPT !.at = "done", !.outcome = o])
      BY <3>1
    <3>3. [task[t] EXCEPT !.at = "done", !.outcome = o].job = task[t].job
      BY <1>1 DEF Fields
    <3> QED
      BY <3>1, <3>2, <3>3
  <2> QED
    BY <2>1, <2>2
<1>3. IsReading(t, now)
  BY <1>2, NoReadIsReading
<1> QED
  BY <1>2, <1>3, GoesIsReading

\* A task waits for another lock, for the pause of a busy unit, or for the reconnect.
LEMMA WaitsReads ==
    ASSUME ModbusDeviceAssumption, DeviceInv, ReadInv, NEW t \in Tasks,
           NEW place \in Asking, task[t].at # "done",
           Goes(t, [task[t] EXCEPT !.at = place]), absent' = absent
    PROVE  ReadInv'
<1>1. IsReading(t, [task[t] EXCEPT !.at = place])
  BY MovesIsReading
<1> DEFINE now == [task[t] EXCEPT !.at = place]
<1>2. Goes(t, now) /\ IsReading(t, now)
  BY <1>1
<1> HIDE DEF now
<1> QED
  BY <1>2, GoesIsReading

LEMMA ResumesReads ==
    ASSUME ModbusDeviceAssumption, DeviceInv, ReadInv, NEW t \in Tasks,
           task[t].at \in {"ask", "ready", "line"}, task[t].job.op \in Requesting,
           NEW code, NEW taken \in BOOLEAN, code = "ok" => taken,
           taken /\ code # "ok" => Outcome(code) = "no_answer",
           code = "illegal_address" => Lacks(UnitOf[t], Head(task[t].todo)),
           Goes(t, Resumes(t, code, taken)), absent' = absent
    PROVE  ReadInv'
<1> DEFINE now == Resumes(t, code, taken)
<1>1. Goes(t, now) /\ IsReading(t, now)
  BY AnsweredIsReading
<1> HIDE DEF now
<1> QED
  BY <1>1, GoesIsReading

LEMMA UnansweredReads ==
    ASSUME ModbusDeviceAssumption, DeviceInv, ReadInv, NEW t \in Tasks,
           NEW code \in {"silent", "gateway_failed"}, NEW taken \in BOOLEAN, Silent(t, code, taken)
    PROVE  ReadInv'
<1>1. Sends(t) /\ Goes(t, Resumes(t, code, taken)) /\ absent' = absent
  BY DEF Silent, Ends
<1>2. task[t].at = "line" /\ task[t].job.op \in Requesting
  BY <1>1, SendsWhat DEF Sends
<1>3. Outcome(code) = "no_answer" /\ code # "ok" /\ code # "illegal_address"
  BY OutcomeFacts
<1> QED
  BY <1>1, <1>2, <1>3, ResumesReads

LEMMA AnsweredReads ==
    ASSUME ModbusDeviceAssumption, DeviceInv, ReadInv, NEW t \in Tasks, Answered(t)
    PROVE  ReadInv'
<1> DEFINE request == Head(task[t].todo)
<1>1. Sends(t)
  BY DEF Answered
<1>2. task[t].at = "line" /\ task[t].job.op \in Requesting
  BY <1>1, SendsWhat DEF Sends
<1>3. PICK code \in {IF Lacks(UnitOf[t], request) THEN "illegal_address" ELSE "ok"} \union Codes :
        Ends(t, code, code = "ok")
  BY DEF Answered
<1>4. code = "illegal_address" => Lacks(UnitOf[t], request)
  BY <1>3 DEF ModbusDeviceAssumption, Exceptions
<1> DEFINE taken == code = "ok"
<1>5. Goes(t, Resumes(t, code, taken)) /\ absent' = absent /\ taken \in BOOLEAN
  BY <1>3 DEF Ends
<1>6. (code = "ok" => taken) /\ (taken => code = "ok")
  OBVIOUS
<1> HIDE DEF taken
<1> QED
  BY <1>2, <1>4, <1>5, <1>6, ResumesReads

LEMMA AttemptReads ==
    ASSUME ModbusDeviceAssumption, DeviceInv, ReadInv, NEW t \in Tasks,
           task[t].at \in {"ask", "ready"}, Attempt(t) \/ Goes(t, Resumes(t, "unsent", FALSE)),
           absent' = absent
    PROVE  ReadInv'
<1>1. task[t].job.op \in Requesting
  BY DEF DeviceInv, TaskInv, IsTask, Requesting
<1>2. \/ Goes(t, [task[t] EXCEPT !.at = "line"])
      \/ Goes(t, Resumes(t, "unsent", FALSE))
  BY DEF Attempt
<1>3. CASE Goes(t, [task[t] EXCEPT !.at = "line"])
  BY <1>3, WaitsReads DEF Asking
<1>4. CASE Goes(t, Resumes(t, "unsent", FALSE))
  <2>1. FALSE \in BOOLEAN /\ "unsent" # "ok" /\ "unsent" # "illegal_address"
    OBVIOUS
  <2> QED
    BY <1>1, <1>4, <2>1, ResumesReads
<1> QED
  BY <1>2, <1>3, <1>4

LEMMA ReadStep ==
    ASSUME ModbusDeviceAssumption, DeviceInv, ReadInv, [Next]_vars
    PROVE  ReadInv'
<1>1. ASSUME NEW t \in Tasks, NEW j \in Jobs[t], Start(t, j) PROVE ReadInv'
  BY <1>1, StartReads
<1>2. ASSUME NEW t \in Tasks,
             \/ \E j \in Jobs[t] : Connect(t, j) \/ Disconnect(t, j)
             \/ OpenLink(t) \/ CloseLink(t)
      PROVE ReadInv'
  BY <1>2, OtherReads
<1>3. ASSUME NEW t \in Tasks, BitLockComes(t) \/ BusyPauseEnds(t) PROVE ReadInv'
  <2>1. /\ task[t].at \in {"bit", "busy"} /\ Goes(t, [task[t] EXCEPT !.at = "ask"])
        /\ absent' = absent
    BY <1>3 DEF BitLockComes, BusyPauseEnds, unitVars
  <2>2. task[t].at # "done" /\ "ask" \in Asking
    BY <2>1 DEF Asking
  <2> QED
    BY <2>1, <2>2, WaitsReads
<1>4. ASSUME NEW t \in Tasks, Return(t) \/ Cancel(t) PROVE ReadInv'
  <2>1. Goes(t, Idle) /\ absent' = absent
    BY <1>4 DEF Return, Cancel, unitVars
  <2> QED
    BY <2>1, IdleIsReading, GoesIsReading
<1>5. ASSUME NEW t \in Tasks, Ask(t) PROVE ReadInv'
  <2>1. task[t].at = "ask" /\ absent' = absent
    BY <1>5 DEF Ask, unitVars
  <2>2. \/ Goes(t, [task[t] EXCEPT !.at = "ready"])
        \/ Attempt(t)
    BY <1>5 DEF Ask
  <2>3. task[t].at # "done" /\ "ready" \in Asking
    BY <2>1 DEF Asking
  <2>4. CASE Goes(t, [task[t] EXCEPT !.at = "ready"])
    BY <2>1, <2>3, <2>4, WaitsReads
  <2>5. CASE Attempt(t)
    BY <2>1, <2>5, AttemptReads
  <2> QED
    BY <2>2, <2>4, <2>5
<1>6. ASSUME NEW t \in Tasks, Ready(t) \/ NotReady(t) PROVE ReadInv'
  BY <1>6, AttemptReads DEF Ready, NotReady, unitVars
<1>7. ASSUME NEW t \in Tasks, Answered(t) PROVE ReadInv'
  BY <1>7, AnsweredReads
<1>8. ASSUME NEW t \in Tasks,
             GatewayGivesUp(t) \/ CannotOpen(t) \/ TimesOut(t) \/ NoResponse(t)
      PROVE ReadInv'
  <2>1. PICK code \in {"silent", "gateway_failed"}, taken \in BOOLEAN : Silent(t, code, taken)
    BY <1>8 DEF GatewayGivesUp, CannotOpen, TimesOut, NoResponse
  <2> QED
    BY <2>1, UnansweredReads
<1>9. ASSUME \/ \E u \in Units : PauseEnds(u)
             \/ LinkFails
             \/ Settle
             \/ UNCHANGED vars
      PROVE ReadInv'
  <2>1. task' = task /\ absent' = absent
    BY <1>9 DEF PauseEnds, LinkFails, Settle, vars, unitVars
  <2>2. ASSUME NEW t \in Tasks PROVE IsReading(t, task[t])'
    <3>1. IsReading(t, task[t])
      BY DEF ReadInv
    <3> QED
      BY <2>1, <3>1 DEF IsReading, AreResults, IsResult
  <2> QED
    BY <2>2 DEF ReadInv
<1> QED
  BY <1>1, <1>2, <1>3, <1>4, <1>5, <1>6, <1>7, <1>8, <1>9 DEF Next, TaskStep

LEMMA ReadInvHolds == ModbusDeviceAssumption /\ Spec => [](DeviceInv /\ ReadInv)
<1> SUFFICES ASSUME ModbusDeviceAssumption PROVE Spec => [](DeviceInv /\ ReadInv)
  OBVIOUS
<1>1. Init => ReadInv
  BY IdleIsReading DEF Init, ReadInv
<1>2. DeviceInv /\ ReadInv /\ [Next]_vars => ReadInv'
  BY ReadStep
<1>3. Init => DeviceInv
  BY InitHolds
<1>4. DeviceInv /\ [Next]_vars => DeviceInv'
  BY NextKeeps
<1> QED
  BY <1>1, <1>2, <1>3, <1>4, PTL DEF Spec

\* Every point read has its result, however the requests were joined, halved, repeated or left
\* unanswered: its own registers, in order, from one reply; and it is missing only if the unit
\* lacks one of its own registers (_read_batch, _deliver).
THEOREM ReadsAnswerEachPoint == Spec => []EachItsOwn
<1>1. ASSUME DeviceInv, ReadInv PROVE EachItsOwn
  <2>1. ASSUME NEW t \in Tasks, task[t].at = "done", task[t].job.op = "read"
        PROVE /\ DOMAIN task[t].results = task[t].job.spans
              /\ AreResults(t, task[t].results)
    <3>1. /\ task[t].todo = << >> /\ AreResults(t, task[t].results)
          /\ task[t].job.spans = SpansOf(task[t].todo) \union DOMAIN task[t].results
      BY <1>1, <2>1 DEF ReadInv, IsReading
    <3>2. SpansOf(<< >>) = {}
      BY NothingRequested DEF Requested
    <3> QED
      BY <3>1, <3>2
  <2> QED
    BY <2>1 DEF EachItsOwn, AreResults, IsResult, Own
<1> QED
  BY <1>1, ReadInvHolds, ModbusDeviceAssumption, PTL

\* No request asks for a register that no point needs, or for more than the unit takes at once,
\* the halves of one refused no more than the rest (_batches, _read_batch).
THEOREM ReadsAskForNoMore == Spec => []AsksOnlyWhatIsRead
<1>0. ModbusDeviceAssumption
  BY ModbusDeviceAssumption
<1>1. ASSUME DeviceInv, ReadInv PROVE AsksOnlyWhatIsRead
  <2> SUFFICES ASSUME NEW t \in Tasks, NEW i \in DOMAIN task[t].todo,
                      task[t].todo[i].kind = "read"
               PROVE  IsRead(task[t].todo[i], Limit[task[t].todo[i].table])
    BY DEF AsksOnlyWhatIsRead, IsRead
  <2>1. IsTask(t, task[t]) /\ IsReading(t, task[t])
    BY <1>1 DEF DeviceInv, TaskInv, ReadInv
  <2>2. task[t].job.op = "read"
    <3>1. task[t].todo # << >>
      OBVIOUS
    <3>2. task[t].job.op \in {"read", "register", "bit"}
      <4>1. /\ task[t].job \in Jobs[t] \union {NoJob}
            /\ task[t].job.op \notin {"connect", "disconnect"}
            /\ task[t].job # NoJob
        BY <2>1, <3>1 DEF IsTask, IsReading
      <4> DEFINE job == task[t].job
      <4>2. /\ job \in Jobs[t] \union {NoJob} /\ job # NoJob
            /\ job.op \notin {"connect", "disconnect"}
        BY <4>1
      <4> HIDE DEF job
      <4>3. job.op \in {"read", "register", "bit"}
        BY <1>0, <4>2, JobFacts
      <4> QED
        BY <4>3 DEF job
    <3>3. ASSUME task[t].job.op \in {"register", "bit"} PROVE task[t].todo[i].kind # "read"
      <4>1. ToSend(t, task[t])
        BY <2>1, <3>1, <3>3 DEF IsTask
      <4>2. PICK r : task[t].todo = <<r>> /\ r.kind \in {"write", "mask", "fetch", "back"}
        <5> DEFINE job == task[t].job
        <5>1. \/ task[t].todo = <<WriteRegister(job.address, job.value)>>
              \/ task[t].todo = <<MaskWrite(job.address, job.bit, job.on)>>
              \/ task[t].todo = <<Fetch(job.address)>>
              \/ \E value : task[t].todo = <<WriteBack(job.address, job.bit, value)>>
          BY <4>1 DEF ToSend
        <5>2. /\ \A a, v : WriteRegister(a, v).kind = "write"
              /\ \A a, b, on : MaskWrite(a, b, on).kind = "mask"
              /\ \A a : Fetch(a).kind = "fetch"
              /\ \A a, b, v : WriteBack(a, b, v).kind = "back"
          BY DEF WriteRegister, MaskWrite, Fetch, WriteBack
        <5> HIDE DEF job
        <5> QED
          BY <5>1, <5>2
      <4>3. i = 1
        BY <4>2
      <4> QED
        BY <4>2, <4>3
    <3> QED
      BY <3>2, <3>3
  <2> QED
    BY <2>1, <2>2 DEF IsReading, Requested
<1> QED
  BY <1>1, ReadInvHolds, ModbusDeviceAssumption, PTL
=============================================================================
