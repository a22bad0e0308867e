---------------------------- MODULE ModbusDevice ----------------------------
(***************************************************************************)
(* Modbus devices that share a connection (modbus/_device.py and           *)
(* modbus/_connection.py): tasks that read, write, connect and disconnect, *)
(* each one's requests sent one at a time over one link, the breaker of    *)
(* each device, and the lock under which a bit is written by reading its   *)
(* register first.  asyncio runs one task until it waits: `turn` is a task *)
(* in the middle of its turn, when nothing else steps.                     *)
(***************************************************************************)
EXTENDS ModbusBatches

CONSTANTS
    Tasks,
    Units,
    UnitOf,        \* the unit whose device each task uses
    Jobs,          \* what each task may be asked to do
    Registers,     \* the addresses of the holding registers written
    Bits,
    BitWritings,   \* ModbusOptions.bit_write of a unit: "mask" or "rmw"
    Reconnect,     \* when a device is asked again: "never", "tries" (a while) or "always"
    After,         \* _UNANSWERED_BEFORE_PAUSE
    BusyTries,     \* how often a read answered "busy" is tried
    AbsentSets,    \* the registers of a read a unit may lack, as sets of <<table, address>>
    Codes,         \* what else a unit may answer before it settles
    LinkFailures,  \* how a link fails by itself: "closed" by the other side, or "dead"
    MaySettle,     \* whether the network and the units ever do
    Nobody

\* "uncoded" is an error without an exception code, or with one nothing is known of.
Exceptions ==
    {"illegal_function", "illegal_value", "failure", "busy", "gateway_failed", "uncoded"}

\* What a task may be asked to do: read() and write() of the registers, connect(), disconnect().
Job(j) ==
    \/ j \in [op : {"bit"}, address : Registers, bit : Bits, on : BOOLEAN]
    \/ j \in [op : {"register"}, address : Registers, value : SUBSET Bits]
    \/ j \in [op : {"connect", "disconnect"}]
    \/ /\ j \in [op : {"read"}, spans : {j.spans}] /\ IsFiniteSet(j.spans)
       /\ \A s \in j.spans : s \in [table : DOMAIN Limit, start : Nat, count : Nat \ {0}]

ModbusDeviceAssumption ==
    /\ Limit \in [DOMAIN Limit -> Nat \ {0}]
    /\ UnitOf \in [Tasks -> Units]
    /\ \A t \in Tasks : \A j \in Jobs[t] : Job(j)
    /\ BitWritings \subseteq {"mask", "rmw"}
    /\ LinkFailures \subseteq {"closed", "dead"}
    /\ Reconnect \in [Units -> {"never", "tries", "always"}]
    /\ After \in Nat \ {0} /\ BusyTries \in Nat \ {0}
    /\ Codes \subseteq Exceptions \union {"short"}
    /\ MaySettle \in BOOLEAN
    /\ Nobody \notin Tasks

ASSUME ModbusDeviceAssumption

VARIABLES
    task,       \* each task: where it is, and what it has of the answers
    turn,       \* the task in the middle of its turn, or Nobody
    line,       \* the connection's lock: who holds it, then who waits for it
    bitLine,    \* _bit_locks, the same
    link,       \* the TCP link: "closed", "open", or open and "dead"
    breaker,    \* _breaker of each device
    bitWriting, \* how each unit's bits are written
    absent,     \* the registers each unit lacks
    register,   \* the bits on in each holding register
    promised,   \* what the last write of a bit that the device took said of it
    settled     \* the network and the units disturb nothing any more

vars == <<task, turn, line, bitLine, link, breaker, bitWriting, absent, register,
          promised, settled>>
unitVars == <<bitWriting, absent, register, promised, settled>>

-----------------------------------------------------------------------------
\* Requests.

\* `value` is what a write makes of the register, `bits` those it is meant to write.
Fetch(a) == [kind |-> "fetch", address |-> a]
WriteRegister(a, value) == [kind |-> "write", address |-> a, value |-> value, bits |-> Bits]
WriteBack(a, bit, value) == [kind |-> "back", address |-> a, value |-> value, bits |-> {bit}]
MaskWrite(a, bit, on) == [kind |-> "mask", address |-> a, on |-> on, bits |-> {bit}]

SetBit(value, bit, on) == IF on THEN value \union {bit} ELSE value \ {bit}

\* The requests a job begins with.
Requests(u, j) ==
    CASE j.op = "read" -> ReadRequests(j.spans)
      [] j.op = "register" -> <<WriteRegister(j.address, j.value)>>
      [] j.op = "bit" -> IF bitWriting[u] = "mask" THEN <<MaskWrite(j.address, j.bit, j.on)>>
                                                    ELSE <<Fetch(j.address)>>
      [] OTHER -> << >>

\* Whether what a task sends next writes: what a read sends does not, nor does the read of
\* the register a bit is in.
Writes(t) == task[t].job.op # "read" /\ Head(task[t].todo).kind # "fetch"

\* Mutant: bits are written without the lock.
NoBitLock(u, j) == FALSE

\* Without a mask write the register is read, changed and written back, under its lock.
NeedsBitLock(u, j) == j.op = "bit" /\ bitWriting[u] = "rmw"
BitLock(t) == <<UnitOf[t], task[t].job.address>>

\* Mutant: a device behind a gateway that did not answer is only offline.
GatewayIsOffline ==
    [illegal_function |-> "unsupported", illegal_address |-> "missing", failure |-> "offline",
     busy |-> "busy", gateway_failed |-> "offline"]

\* _OUTCOME_BY_CODE: what an exception means.
OutcomeByCode ==
    [illegal_function |-> "unsupported", illegal_address |-> "missing", failure |-> "offline",
     busy |-> "busy", gateway_failed |-> "no_answer"]

\* _outcome(); "short" is a reply with values missing, "unsent" a request the breaker refused.
Outcome(code) ==
    CASE code = "ok" -> "ok"
      [] code \in {"silent", "unsent"} -> "no_answer"
      [] code \in DOMAIN OutcomeByCode -> OutcomeByCode[code]
      [] OTHER -> "error"

\* Whether a unit lacks a register a request asks for.
Lacks(u, request) ==
    \/ /\ request.kind = "read"
       /\ \E a \in request.start .. request.end - 1 : <<request.table, a>> \in absent[u]
    \/ request.kind # "read" /\ <<"holding", request.address>> \in absent[u]

NoJob == [op |-> "none"]
Idle == [at |-> "idle", job |-> NoJob, todo |-> << >>, results |-> << >>, outcome |-> "none",
         tries |-> 0, applied |-> 0]

Closed == [state |-> "closed", unanswered |-> 0, probe |-> Nobody]

Init ==
    /\ task = [t \in Tasks |-> Idle]
    /\ turn = Nobody
    /\ line = << >>
    /\ bitLine = [l \in Units \X Registers |-> << >>]
    /\ link = "closed"
    /\ breaker = [u \in Units |-> Closed]
    /\ bitWriting \in [Units -> BitWritings]
    /\ absent \in [Units -> AbsentSets]
    /\ register = [u \in Units |-> [a \in Registers |-> {}]]
    /\ promised = [u \in Units |-> [a \in Registers |-> [b \in Bits |-> "nothing"]]]
    /\ settled = FALSE

-----------------------------------------------------------------------------
\* The breaker (event_connect's CircuitBreaker, as the code and its tests use it).

\* The pause after the unanswered request that opened it, or no more tries.
Opened(u) ==
    {[state |-> s, unanswered |-> After, probe |-> Nobody] :
        s \in CASE Reconnect[u] = "never" -> {"gave_up"}
               [] Reconnect[u] = "tries" -> {"open", "gave_up"}
               [] OTHER -> {"open"}}

\* attempt.unanswered(): one sent before the breaker opened changes nothing any more.
Unanswered(u, t) ==
    LET b == breaker[u]
        opens == b.probe = t \/ (b.state = "closed" /\ b.unanswered + 1 >= After) IN
    IF opens THEN Opened(u)
    ELSE {IF b.state = "closed" THEN [b EXCEPT !.unanswered = @ + 1] ELSE b}

\* A probe that is neither answered nor unanswered lets the next one through.
Released(u, t) == [breaker[u] EXCEPT !.probe = IF @ = t THEN Nobody ELSE @]

\* The reconnect's pause is over.
PauseEnds(u) ==
    /\ breaker[u].state = "open"
    /\ breaker' = [breaker EXCEPT ![u].state = "due"]
    /\ UNCHANGED <<task, turn, line, bitLine, link, unitVars>>

-----------------------------------------------------------------------------
\* What becomes of a request in its task.

Goes(t, now) ==
    /\ task' = [task EXCEPT ![t] = now]
    /\ turn' = IF now.at \in {"ask", "done"} THEN t ELSE Nobody

\* A write is sent once: only a read is sent again when the answer is "busy".
Repeats(t) == ~Writes(t)

\* _deliver(): each span's own part of the values, or what came of the request instead, beside
\* the results before.
Deliver(request, code, results) ==
    LET words == [i \in 1 .. request.end - request.start |->
                     <<request.table, request.start + i - 1>>] IN
    [s \in request.spans \union DOMAIN results |->
        IF s \notin request.spans THEN results[s]
        ELSE [outcome |-> Outcome(code),
              words |-> IF code # "ok" THEN << >>
                        ELSE SubSeq(words, s.start - request.start + 1, End(s) - request.start)]]

\* The task after its request was answered with code, or not, and done by the unit or not.
Resumes(t, code, taken) ==
    LET request == Head(task[t].todo)
        job == task[t].job
        rest == Tail(task[t].todo)
        now == [task[t] EXCEPT !.applied = IF taken /\ Writes(t) THEN @ + 1 ELSE @,
                               !.tries = 0, !.at = "ask"]
        again == code = "busy" /\ Repeats(t) /\ task[t].tries + 1 < BusyTries
        fetched == job.op = "bit" /\ request.kind = "fetch" /\ code = "ok"
        halved == job.op = "read" /\ code = "illegal_address" /\ Cardinality(request.spans) > 1 IN
    CASE again -> [now EXCEPT !.at = "busy", !.tries = task[t].tries + 1]
      [] fetched ->
            [now EXCEPT !.todo = <<WriteBack(request.address, job.bit,
                                     SetBit(register[UnitOf[t]][request.address], job.bit, job.on))>>]
      [] halved -> [now EXCEPT !.todo = Halves(request) \o rest]
      [] job.op = "read" /\ ~again /\ ~halved ->
            [now EXCEPT !.todo = rest, !.results = Deliver(request, code, @),
                        !.at = IF rest = << >> THEN "done" ELSE "ask"]
      [] OTHER -> [now EXCEPT !.todo = << >>, !.outcome = Outcome(code), !.at = "done"]

\* What a unit that takes a write makes of it.  A write of the whole register promises
\* nothing of its bits: it does not take the bits' lock.
Takes(t, taken, told) ==
    LET u == UnitOf[t]
        request == Head(task[t].todo)
        value == IF request.kind = "mask"
                 THEN SetBit(register[u][request.address],
                             CHOOSE b \in request.bits : TRUE, request.on)
                 ELSE request.value
        promise(b) == IF ~told \/ request.kind = "write" THEN "nothing"
                      ELSE IF b \in value THEN "on" ELSE "off" IN
    IF taken /\ Writes(t)
    THEN /\ register' = [register EXCEPT ![u][request.address] = value]
         /\ promised' = [promised EXCEPT ![u][request.address] =
                            [b \in Bits |-> IF b \in request.bits THEN promise(b) ELSE @[b]]]
    ELSE UNCHANGED <<register, promised>>

-----------------------------------------------------------------------------
\* A job, and its locks.

\* read() and write().  A bit whose register is read first waits for that register's lock.
Start(t, j) ==
    LET u == UnitOf[t]
        now == [Idle EXCEPT !.job = j, !.todo = Requests(u, j)]
        lock == <<u, j.address>> IN
    /\ turn = Nobody /\ task[t].at = "idle" /\ j.op \in {"read", "register", "bit"}
    /\ IF NeedsBitLock(u, j)
       THEN /\ bitLine' = [bitLine EXCEPT ![lock] = Append(@, t)]
            /\ Goes(t, [now EXCEPT !.at = IF bitLine[lock] = << >> THEN "ask" ELSE "bit"])
       ELSE /\ bitLine' = bitLine
            /\ Goes(t, [now EXCEPT !.at = IF now.todo = << >> THEN "done" ELSE "ask"])
    /\ UNCHANGED <<line, link, breaker, unitVars>>

BitLockComes(t) ==
    /\ turn = Nobody /\ task[t].at = "bit"
    /\ Head(bitLine[BitLock(t)]) = t
    /\ Goes(t, [task[t] EXCEPT !.at = "ask"])
    /\ UNCHANGED <<line, bitLine, link, breaker, unitVars>>

\* connect(): the device is asked again, and a closed link is opened.
Connect(t, j) ==
    /\ turn = Nobody /\ task[t].at = "idle" /\ j.op = "connect"
    /\ breaker' = [breaker EXCEPT ![UnitOf[t]] = Closed]
    /\ IF link = "closed"
       THEN /\ line' = Append(line, t)
            /\ Goes(t, [Idle EXCEPT !.job = j, !.at = "line"])
       ELSE /\ line' = line
            /\ Goes(t, [Idle EXCEPT !.job = j, !.outcome = "ok", !.at = "done"])
    /\ UNCHANGED <<bitLine, link, unitVars>>

\* disconnect() of a device that owns the connection.
Disconnect(t, j) ==
    /\ turn = Nobody /\ task[t].at = "idle" /\ j.op = "disconnect"
    /\ line' = Append(line, t)
    /\ Goes(t, [Idle EXCEPT !.job = j, !.at = "line"])
    /\ UNCHANGED <<bitLine, link, breaker, unitVars>>

\* Mutant: the lock is kept.
ReturnLocked(t) ==
    /\ turn = t /\ task[t].at = "done"
    /\ Goes(t, Idle)
    /\ UNCHANGED <<line, bitLine, link, breaker, unitVars>>

\* The caller has its results, and the bit's lock is let go.
Return(t) ==
    /\ turn = t /\ task[t].at = "done"
    /\ Goes(t, Idle)
    /\ bitLine' = IF NeedsBitLock(UnitOf[t], task[t].job)
                  THEN [bitLine EXCEPT ![BitLock(t)] = Tail(@)] ELSE bitLine
    /\ UNCHANGED <<line, link, breaker, unitVars>>

-----------------------------------------------------------------------------
\* _send(): a request is put on the connection, unless the breaker refuses it.

\* breaker.attempt(): one probe once the pause is over, and the rest refused.
Attempt(t) ==
    LET u == UnitOf[t]
        probes == breaker[u].state = "due" /\ breaker[u].probe = Nobody IN
    IF breaker[u].state = "closed" \/ probes
    THEN /\ breaker' = IF probes THEN [breaker EXCEPT ![u].probe = t] ELSE breaker
         /\ line' = Append(line, t)
         /\ Goes(t, [task[t] EXCEPT !.at = "line"])
    ELSE /\ Goes(t, Resumes(t, "unsent", FALSE))
         /\ UNCHANGED <<line, breaker>>

\* _ready_to_probe(): reconnect.ready() is awaited when a probe is due.
Ask(t) ==
    /\ turn = t /\ task[t].at = "ask"
    /\ IF breaker[UnitOf[t]].state = "due"
       THEN /\ Goes(t, [task[t] EXCEPT !.at = "ready"])
            /\ UNCHANGED <<line, breaker>>
       ELSE Attempt(t)
    /\ UNCHANGED <<bitLine, link, unitVars>>

Ready(t) ==
    /\ turn = Nobody /\ task[t].at = "ready"
    /\ Attempt(t)
    /\ UNCHANGED <<bitLine, link, unitVars>>

\* Mutant: the task waits until it is ready.
NotReadyYet(t) ==
    /\ turn = Nobody /\ task[t].at = "ready" /\ ~settled
    /\ Goes(t, [task[t] EXCEPT !.at = "ask"])
    /\ UNCHANGED <<line, bitLine, link, breaker, unitVars>>

\* reconnect.ready() refuses: the probe waits another pause.
NotReady(t) ==
    LET u == UnitOf[t] IN
    /\ turn = Nobody /\ task[t].at = "ready" /\ ~settled
    /\ breaker' = [breaker EXCEPT ![u].state = IF @ = "due" THEN "open" ELSE @]
    /\ Goes(t, Resumes(t, "unsent", FALSE))
    /\ UNCHANGED <<line, bitLine, link, unitVars>>

BusyPauseEnds(t) ==
    /\ turn = Nobody /\ task[t].at = "busy"
    /\ Goes(t, [task[t] EXCEPT !.at = "ask"])
    /\ UNCHANGED <<line, bitLine, link, breaker, unitVars>>

-----------------------------------------------------------------------------
\* The connection: the task at the head of its line has the lock.

Holds(t) == turn = Nobody /\ line # << >> /\ Head(line) = t
Sends(t) == Holds(t) /\ task[t].todo # << >>

\* The task goes on with what came of its request, and the next one has the lock.
Ends(t, code, taken) ==
    /\ Takes(t, taken, code = "ok")
    /\ Goes(t, Resumes(t, code, taken))
    /\ line' = Tail(line)
    /\ UNCHANGED <<bitLine, bitWriting, absent, settled>>

\* The device answers, if only with an exception or a reply that is too short.
Answered(t) ==
    LET u == UnitOf[t]
        request == Head(task[t].todo) IN
    /\ Sends(t) /\ link # "dead"
    /\ \E code \in {IF Lacks(u, request) THEN "illegal_address" ELSE "ok"}
                   \union (IF settled THEN {} ELSE Codes \ {"gateway_failed"}) :
        /\ code = "short" => ~Writes(t)
        /\ Ends(t, code, code = "ok")
    /\ link' = "open"
    /\ breaker' = [breaker EXCEPT ![u] = Closed]

\* attempt.unanswered().  What reached the unit it has done by now: a request given up is taken
\* not to be done later, when another task has the lock.
Silent(t, code, taken) ==
    /\ Sends(t)
    /\ \E b \in Unanswered(UnitOf[t], t) : breaker' = [breaker EXCEPT ![UnitOf[t]] = b]
    /\ Ends(t, code, taken)

GatewayGivesUp(t) ==
    /\ link # "dead" /\ ~settled /\ "gateway_failed" \in Codes
    /\ \E taken \in BOOLEAN : Silent(t, "gateway_failed", taken)
    /\ link' = "open"

CannotOpen(t) ==
    /\ link = "closed" /\ ~settled
    /\ Silent(t, "silent", FALSE)
    /\ link' = link

\* Mutant: the link is kept.
TimesOutOnLink(t) ==
    /\ link = "dead" \/ ~settled
    /\ \E taken \in BOOLEAN : (link = "dead" => ~taken) /\ Silent(t, "silent", taken)
    /\ link' = link

\* No answer in time, or pymodbus raises: the link is dropped.
TimesOut(t) ==
    /\ link = "dead" \/ ~settled
    /\ \E taken \in BOOLEAN : (link = "dead" => ~taken) /\ Silent(t, "silent", taken)
    /\ link' = "closed"

\* pymodbus returns nothing: the link stays.
NoResponse(t) ==
    /\ ~settled
    /\ \E taken \in BOOLEAN : (link = "dead" => ~taken) /\ Silent(t, "silent", taken)
    /\ link' = IF link = "closed" THEN "open" ELSE link

OpenLink(t) ==
    /\ Holds(t) /\ task[t].job.op = "connect"
    /\ link' \in IF link = "closed" /\ ~settled THEN {"closed", "open"}
                 ELSE IF link = "closed" THEN {"open"} ELSE {link}
    /\ line' = Tail(line)
    /\ Goes(t, [task[t] EXCEPT !.at = "done",
                               !.outcome = IF link' = "closed" THEN "no_answer" ELSE "ok"])
    /\ UNCHANGED <<bitLine, breaker, unitVars>>

CloseLink(t) ==
    /\ Holds(t) /\ task[t].job.op = "disconnect"
    /\ link' = "closed"
    /\ line' = Tail(line)
    /\ Goes(t, [task[t] EXCEPT !.at = "done", !.outcome = "ok"])
    /\ UNCHANGED <<bitLine, breaker, unitVars>>

-----------------------------------------------------------------------------
\* What disturbs them, until the network and the units settle.

\* A task that waits is cancelled: it lets go of its locks and its probe.  A request it
\* sent may have been done.
Cancel(t) ==
    LET u == UnitOf[t] IN
    /\ turn = Nobody /\ task[t].at \in {"bit", "ready", "busy", "line"} /\ ~settled
    /\ \E taken \in BOOLEAN :
        /\ taken => Sends(t) /\ link # "dead"
        /\ IF taken THEN Takes(t, TRUE, FALSE)
                    ELSE UNCHANGED <<register, promised>>
        /\ link' = IF taken THEN "open" ELSE link
    /\ Goes(t, Idle)
    /\ line' = RemoveFirst(line, t)
    /\ bitLine' = IF NeedsBitLock(u, task[t].job)
                  THEN [bitLine EXCEPT ![BitLock(t)] = RemoveFirst(@, t)] ELSE bitLine
    /\ breaker' = [breaker EXCEPT ![u] = Released(u, t)]
    /\ UNCHANGED <<bitWriting, absent, settled>>

\* The link is closed by the other side, or dies without a sign.
LinkFails ==
    /\ turn = Nobody /\ link = "open" /\ ~settled
    /\ link' \in LinkFailures
    /\ UNCHANGED <<task, turn, line, bitLine, breaker, unitVars>>

Settle ==
    /\ MaySettle /\ ~settled
    /\ settled' = TRUE
    /\ UNCHANGED <<task, turn, line, bitLine, link, breaker, bitWriting, absent, register,
                   promised>>

TaskStep(t) ==
    \/ \E j \in Jobs[t] : Start(t, j) \/ Connect(t, j) \/ Disconnect(t, j)
    \/ BitLockComes(t) \/ Return(t)
    \/ Ask(t) \/ Ready(t) \/ NotReady(t) \/ BusyPauseEnds(t)
    \/ Answered(t) \/ GatewayGivesUp(t) \/ CannotOpen(t) \/ TimesOut(t) \/ NoResponse(t)
    \/ OpenLink(t) \/ CloseLink(t)

Next ==
    \/ \E t \in Tasks : TaskStep(t) \/ Cancel(t)
    \/ \E u \in Units : PauseEnds(u)
    \/ LinkFails
    \/ Settle

Spec == Init /\ [][Next]_vars

\* asyncio runs the tasks that can run in turn, so each goes on however often the others
\* have theirs; every wait for an answer ends, and a task that polls asks again.
FairSpec ==
    /\ Spec
    /\ \A t \in Tasks : SF_vars(TaskStep(t))
    /\ \A u \in Units : WF_vars(PauseEnds(u))

-----------------------------------------------------------------------------
TypeOK ==
    /\ \A t \in Tasks :
        /\ task[t].at \in {"idle", "bit", "ask", "ready", "line", "busy", "done"}
        /\ task[t].job \in Jobs[t] \union {NoJob}
        /\ task[t].outcome \in {"none", "ok", "missing", "unsupported", "offline", "busy",
                                "no_answer", "error"}
        /\ task[t].tries \in 0 .. BusyTries - 1
        /\ task[t].applied \in 0 .. 1
    /\ turn \in Tasks \union {Nobody}
    /\ line \in Seq(Tasks) /\ IsInjective(line)
    /\ Range(line) = {t \in Tasks : task[t].at = "line"}
    /\ \A l \in Units \X Registers :
        /\ bitLine[l] \in Seq(Tasks) /\ IsInjective(bitLine[l])
        /\ Range(bitLine[l]) = {t \in Tasks : NeedsBitLock(UnitOf[t], task[t].job) /\ BitLock(t) = l}
    /\ link \in {"closed", "open", "dead"}
    /\ \A u \in Units :
        /\ breaker[u].state \in {"closed", "open", "due", "gave_up"}
        /\ breaker[u].unanswered \in 0 .. After
        /\ breaker[u].probe \in Tasks \union {Nobody}
        /\ \A a \in Registers : register[u][a] \subseteq Bits

\* Two bits of one register written at once are both kept: what the device took and
\* confirmed of a bit holds until that bit, or the whole register, is written again
\* (_write_bit: "the second write puts back the first one's bit").
BitsKept ==
    \A u \in Units, a \in Registers, b \in Bits :
        /\ promised[u][a][b] = "on" => b \in register[u][a]
        /\ promised[u][a][b] = "off" => b \notin register[u][a]

\* A write reported as taken was done, once, one reported as refused was not done, and
\* only of one left unanswered nobody can say (write, WriteResult).
ReportedAsDone ==
    \A t \in Tasks :
        task[t].at = "done" /\ task[t].job.op \in {"register", "bit"} =>
            CASE task[t].outcome = "ok" -> task[t].applied = 1
              [] task[t].outcome = "no_answer" -> task[t].applied <= 1
              [] OTHER -> task[t].applied = 0

\* Every point read has its result: its own registers, in order, from one reply; and one
\* reported missing has a register the unit lacks, whatever it was read together with.
EachItsOwn ==
    \A t \in Tasks :
        task[t].at = "done" /\ task[t].job.op = "read" =>
            /\ DOMAIN task[t].results = task[t].job.spans
            /\ \A s \in task[t].job.spans :
                LET result == task[t].results[s]
                    own == [i \in 1 .. s.count |-> <<s.table, s.start + i - 1>>] IN
                /\ result.outcome = "ok" => result.words = own
                /\ result.outcome = "missing" => Range(own) \intersect absent[UnitOf[t]] # {}

\* A read asks for no register that no point needs, and for no more than the unit takes at
\* once, unless one point alone is longer (_batches).
AsksOnlyWhatIsRead ==
    \A t \in Tasks : \A i \in DOMAIN task[t].todo :
        LET request == task[t].todo[i] IN
        request.kind = "read" =>
            /\ request.start .. request.end - 1 = UNION {Addresses(s) : s \in request.spans}
            /\ request.end - request.start <= Limit[request.table] \/ Cardinality(request.spans) = 1

\* Once the network and the devices work again, every device is soon asked, answers, and
\* is not given up on: a dead link was dropped, and no cancelled probe bars the next.
Recovers == \A u \in Units : settled ~> [](breaker[u].state = "closed")

\* Every call returns, whatever the devices do and whoever is cancelled: the bit locks and
\* the connection's lock are let go by each that held them.
EveryCallReturns == \A t \in Tasks : task[t].at # "idle" ~> task[t].at = "idle"
=============================================================================
