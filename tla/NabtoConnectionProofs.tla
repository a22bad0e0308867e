----------------------- MODULE NabtoConnectionProofs -----------------------
(***************************************************************************)
(* What NabtoConnection promises, proved for any tasks, commands, retries  *)
(* and sequence numbers.  A task that does anything but wait for the lock  *)
(* holds it, so the exchange under way is its own; what may still come     *)
(* with the number of that exchange is its own request or nothing.         *)
(***************************************************************************)
EXTENDS NabtoConnection, SequenceTheorems, TLAPS

Fresh == {"closed", "due"}
Sent == Commands \union {"connect", "ping", None}
JobType == Commands \union {"open", None}
What == {"none", "accepted", "refused", "denied", "identity", "other", "values", "zeros", "done",
         "error"}
AnswerType == [request : Sent \union {"open"}, what : What]
TaskType ==
    [at : {"idle", "line", "ready", "endpoint", "discover", "exchange"}, job : JobType,
     again : BOOLEAN, found : BOOLEAN]
ExchangeType ==
    [request : Sent, sequence : Nat, sending : Nat,
     phase : {"none", "wait", "acknowledged", "later"}, received : BOOLEAN, answer : AnswerType,
     first : AnswerType]
ConnType ==
    [server : BOOLEAN, transport : BOOLEAN, address : {"right", "wrong", None}, sequence : Nat,
     breaker : Fresh \union {"pausing", "gave up"}]

TypeInv ==
    /\ task \in [Tasks -> TaskType]
    /\ returned \in [job : JobType, answer : AnswerType]
    /\ line \in Seq(Tasks)
    /\ exchange \in ExchangeType
    /\ conn \in ConnType
    /\ air \in [1 .. SequenceMax -> Sent]

\* Only the first of the line does anything, and what it was called for.
Holder ==
    \A u \in Tasks :
        /\ task[u].at \notin {"idle", "line"} => line # << >> /\ u = Head(line)
        /\ task[u].at # "idle" => task[u].job # None

\* The exchange under way is that of the first of the line, and so is what came of it.
Own ==
    /\ exchange.request # None <=> (line # << >> /\ task[Head(line)].at = "exchange")
    /\ exchange.request = None <=> exchange.phase = "none"
    /\ exchange.phase = "later" => exchange.request \in Commands
    /\ exchange.request # None =>
        /\ exchange.sequence \in 1 .. SequenceMax
        /\ air[exchange.sequence] \in {exchange.request, None}
        /\ exchange.request \in Commands => task[Head(line)].job = exchange.request
        /\ exchange.answer.what # "none" => exchange.answer.request = exchange.request
        /\ exchange.first.what # "none" => exchange.first.request = exchange.request

\* A handshake is under way only while the breaker allows it.
Allowed ==
    /\ exchange.request \in {"connect", "ping"} => conn.breaker \in Fresh
    /\ \A u \in Tasks : task[u].at \in {"ready", "endpoint", "discover"} => conn.breaker \in Fresh

IInv == TypeInv /\ Holder /\ Own /\ Allowed /\ AnswersItsOwn

\* Task t has the lock.
Has(t) == t \in Tasks /\ line # << >> /\ t = Head(line) /\ task[t].at # "idle"

\* The parts of a task's step keep the invariant: it goes on to another await,
LEMMA GoesKeeps ==
    ASSUME NabtoConnectionAssumption, IInv, NEW t, Has(t), NEW now \in TaskType, NEW c \in ConnType,
           now.at # "exchange", now.at \in {"ready", "endpoint", "discover"} => c.breaker \in Fresh,
           now.job # None,
           Goes(t, now, c)
    PROVE IInv'
<1> USE NabtoConnectionAssumption DEF NabtoConnectionAssumption
<1>1. /\ task' = [task EXCEPT ![t] = now]
      /\ returned' = Nothing
      /\ exchange' = NoExchange
      /\ conn' = c
      /\ line' = line
      /\ air' = air
  BY DEF Goes
<1>2. TypeInv'
  BY <1>1 DEF IInv, TypeInv, Has, Nothing, NoExchange, NoAnswer, Answer, ExchangeType, AnswerType,
              What, Sent, JobType
<1>3. Holder'
  BY <1>1 DEF IInv, TypeInv, Has, Holder
<1>4. Own'
  BY <1>1 DEF IInv, TypeInv, Has, Own, NoExchange, NoAnswer, Answer
<1>5. Allowed'
  <2>1. exchange'.request = None
    BY <1>1 DEF NoExchange
  <2>2. ASSUME NEW u \in Tasks, task'[u].at \in {"ready", "endpoint", "discover"}
        PROVE conn'.breaker \in Fresh
    BY <2>2, <1>1 DEF IInv, TypeInv, Has, Holder
  <2> QED
    BY <2>1, <2>2 DEF Allowed
<1>6. AnswersItsOwn'
  BY <1>1 DEF AnswersItsOwn, Nothing, NoAnswer, Answer
<1> QED
  BY <1>2, <1>3, <1>4, <1>5, <1>6 DEF IInv

\* or its call returns,
LEMMA ReturnsKeeps ==
    ASSUME NabtoConnectionAssumption, IInv, NEW t, Has(t), NEW c \in ConnType,
           NEW answer \in AnswerType,
           answer.what \in {"values", "zeros", "done"} => answer.request = task[t].job,
           Returns(t, answer, c)
    PROVE IInv'
<1> USE NabtoConnectionAssumption DEF NabtoConnectionAssumption
<1>1. /\ task' = [task EXCEPT ![t] = Idle]
      /\ returned' = [job |-> task[t].job, answer |-> answer]
      /\ exchange' = NoExchange
      /\ conn' = c
      /\ line' = Tail(line)
      /\ air' = air
  BY DEF Returns
<1>2. TypeInv'
  <2>1. task' \in [Tasks -> TaskType]
    BY <1>1 DEF IInv, TypeInv, Has, Idle, TaskType, JobType
  <2>2. returned' \in [job : JobType, answer : AnswerType]
    BY <1>1 DEF IInv, TypeInv, Has, TaskType
  <2>3. line' \in Seq(Tasks)
    BY <1>1 DEF IInv, TypeInv, Has
  <2>4. exchange' \in ExchangeType
    BY <1>1 DEF NoExchange, NoAnswer, Answer, ExchangeType, AnswerType, What, Sent
  <2> QED
    BY <2>1, <2>2, <2>3, <2>4, <1>1 DEF IInv, TypeInv
<1>3. \A u \in Tasks : task'[u].at \in {"idle", "line"}
  BY <1>1 DEF IInv, TypeInv, Has, Holder, Idle, TaskType
<1>4. Holder'
  <2>1. ASSUME NEW u \in Tasks, task'[u].at # "idle"
        PROVE task'[u].job # None
    BY <2>1, <1>1 DEF IInv, TypeInv, Has, Holder, Idle
  <2> QED
    BY <1>3, <2>1 DEF Holder
<1>5. Own'
  <2>1. line' # << >> => Head(line') \in Tasks
    BY <1>2 DEF TypeInv
  <2> QED
    BY <2>1, <1>1, <1>3 DEF Own, NoExchange, NoAnswer, Answer
<1>6. Allowed'
  BY <1>1, <1>3 DEF Allowed, NoExchange
<1>7. AnswersItsOwn'
  BY <1>1 DEF AnswersItsOwn
<1> QED
  BY <1>2, <1>4, <1>5, <1>6, <1>7 DEF IInv

\* A sequence number is one of the numbers there are.
LEMMA SequenceInRange ==
    ASSUME NEW n \in Nat, NEW m \in Nat \ {0}
    PROVE (n % m) + 1 \in 1 .. m
<1>1. n % m \in 0 .. m - 1
  BY SMTT(30)
<1> QED
  BY <1>1

\* or it begins an exchange.
LEMMA ExchangesKeeps ==
    ASSUME NabtoConnectionAssumption, IInv, NEW t, Has(t), NEW now \in TaskType, NEW c \in ConnType,
           NEW request \in Commands \union {"connect", "ping"},
           now.job # None, request \in Commands => request = now.job,
           request \in {"connect", "ping"} => c.breaker \in Fresh,
           Exchanges(t, now, request, c)
    PROVE IInv'
<1> USE NabtoConnectionAssumption DEF NabtoConnectionAssumption
<1> DEFINE s == NextSequence(c.sequence)
<1>0. s \in 1 .. SequenceMax
  BY SequenceInRange DEF NextSequence, ConnType
<1>1. /\ task' = [task EXCEPT ![t] = [now EXCEPT !.at = "exchange"]]
      /\ returned' = Nothing
      /\ exchange' = [NoExchange EXCEPT !.request = request, !.sequence = s, !.phase = "wait"]
      /\ conn' = [c EXCEPT !.sequence = s]
      /\ air' = [air EXCEPT ![s] = IF Reaches(c) THEN request ELSE None]
      /\ line' = line
  BY DEF Exchanges
<1>2. TypeInv'
  <2>1. task' \in [Tasks -> TaskType]
    BY <1>1 DEF IInv, TypeInv, TaskType
  <2>2. returned' \in [job : JobType, answer : AnswerType]
    BY <1>1 DEF Nothing, NoAnswer, Answer, AnswerType, JobType, What, Sent
  <2>3. exchange' \in ExchangeType
    <3>1. NoAnswer \in AnswerType
      BY DEF NoAnswer, Answer, AnswerType, What, Sent
    <3>2. NoExchange \in ExchangeType
      BY <3>1 DEF NoExchange, ExchangeType, Sent
    <3>3. s \in Nat /\ request \in Sent
      BY <1>0 DEF Sent
    <3> HIDE DEF s
    <3>4. [NoExchange EXCEPT !.request = request, !.sequence = s, !.phase = "wait"] \in ExchangeType
      BY <3>2, <3>3 DEF ExchangeType
    <3> QED
      BY <3>4, <1>1
  <2>4. conn' \in ConnType
    <3>1. s \in Nat
      BY <1>0
    <3>2. [c EXCEPT !.sequence = s] \in ConnType
      BY <3>1 DEF ConnType
    <3> QED
      BY <3>2, <1>1
  <2>5. air' \in [1 .. SequenceMax -> Sent]
    BY <1>0, <1>1 DEF IInv, TypeInv, Sent
  <2> QED
    BY <2>1, <2>2, <2>3, <2>4, <2>5, <1>1 DEF IInv, TypeInv
<1>3. Holder'
  BY <1>1 DEF IInv, TypeInv, Has, Holder
<1>4. Own'
  <2>1. exchange'.request = request /\ exchange'.sequence = s /\ exchange'.phase = "wait"
        /\ exchange'.answer = NoAnswer /\ exchange'.first = NoAnswer
    BY <1>1 DEF NoExchange
  <2>2. air'[s] \in {request, None}
    BY <1>0, <1>1 DEF IInv, TypeInv
  <2>3. task'[Head(line')].at = "exchange" /\ task'[Head(line')].job = now.job
    BY <1>1 DEF IInv, TypeInv, Has, TaskType
  <2> QED
    BY <2>1, <2>2, <2>3, <1>0, <1>1 DEF Own, NoAnswer, Answer, Has
<1>5. Allowed'
  <2>1. conn'.breaker = c.breaker /\ exchange'.request = request
    BY <1>1 DEF ConnType, NoExchange
  <2>2. ASSUME NEW u \in Tasks
        PROVE task'[u].at \notin {"ready", "endpoint", "discover"}
    BY <1>1 DEF IInv, TypeInv, Has, Holder, TaskType
  <2> QED
    BY <2>1, <2>2 DEF Allowed
<1>6. AnswersItsOwn'
  BY <1>1 DEF AnswersItsOwn, Nothing, NoAnswer, Answer
<1> QED
  BY <1>2, <1>3, <1>4, <1>5, <1>6 DEF IInv

LEMMA NoAnswerType == NoAnswer \in AnswerType /\ NoAnswer.what = "none"
BY DEF NoAnswer, Answer, AnswerType, Sent, What

\* A task that has the lock is a task, called for something.
LEMMA HasTask ==
    ASSUME NabtoConnectionAssumption, IInv, NEW t, Has(t)
    PROVE task[t] \in TaskType /\ task[t].job # None /\ conn \in ConnType
BY DEF IInv, TypeInv, Has, Holder

\* A call that returns without an answer keeps it,
LEMMA GivesUpKeeps ==
    ASSUME NabtoConnectionAssumption, IInv, NEW t, Has(t), NEW c \in ConnType,
           Returns(t, NoAnswer, c)
    PROVE IInv'
BY ReturnsKeeps, NoAnswerType

\* also with another breaker,
LEMMA UnansweredKeeps ==
    ASSUME NabtoConnectionAssumption, IInv, NEW t, Has(t), NEW c \in ConnType,
           Unanswered(t, c)
    PROVE IInv'
<1>1. PICK state \in {"pausing", "gave up"} : Returns(t, NoAnswer, [c EXCEPT !.breaker = state])
  BY DEF Unanswered
<1>2. [c EXCEPT !.breaker = state] \in ConnType
  BY DEF ConnType
<1> QED
  BY <1>1, <1>2, GivesUpKeeps

\* and so do the parts of a handshake.
LEMMA HandshakeFailsKeeps ==
    ASSUME NabtoConnectionAssumption, IInv, NEW t, Has(t), NEW c \in ConnType,
           c.breaker \in Fresh, HandshakeFails(t, c)
    PROVE IInv'
<1>1. CASE HasId /\ ~task[t].found
  <2>1. Goes(t, [task[t] EXCEPT !.at = "discover"], c)
    BY <1>1 DEF HandshakeFails
  <2>2. /\ [task[t] EXCEPT !.at = "discover"] \in TaskType
        /\ [task[t] EXCEPT !.at = "discover"].at = "discover"
        /\ [task[t] EXCEPT !.at = "discover"].job # None
    BY HasTask DEF TaskType
  <2> QED
    BY <2>1, <2>2, GoesKeeps
<1>2. CASE ~(HasId /\ ~task[t].found)
  BY <1>2, UnansweredKeeps DEF HandshakeFails
<1> QED
  BY <1>1, <1>2

LEMMA HandshakeKeeps ==
    ASSUME NabtoConnectionAssumption, IInv, NEW t, Has(t), NEW now \in TaskType, now.job # None,
           NEW c \in ConnType, c.breaker \in Fresh, Handshake(t, now, c)
    PROVE IInv'
<1>1. CASE c.address = None
  <2> DEFINE next == [now EXCEPT !.at = "discover", !.found = FALSE]
  <2>1. Goes(t, next, c)
    BY <1>1 DEF Handshake
  <2>2. next \in TaskType /\ next.at = "discover" /\ next.job # None
    BY DEF TaskType
  <2> QED
    BY <2>1, <2>2, GoesKeeps
<1>2. CASE c.address # None
  <2> DEFINE next == [now EXCEPT !.found = FALSE]
  <2>1. Exchanges(t, next, "connect", c)
    BY <1>2 DEF Handshake
  <2>2. next \in TaskType /\ next.job # None
    BY DEF TaskType
  <2>3. "connect" \notin Commands
    BY DEF NabtoConnectionAssumption
  <2> HIDE DEF next
  <2> QED
    BY <2>1, <2>2, <2>3, ExchangesKeeps
<1> QED
  BY <1>1, <1>2

LEMMA TryKeeps ==
    ASSUME NabtoConnectionAssumption, IInv, NEW t, Has(t), NEW now \in TaskType, now.job # None,
           NEW c \in ConnType, Try(t, now, c)
    PROVE IInv'
<1> DEFINE anew == [c EXCEPT !.server = FALSE]
<1>1. anew \in ConnType /\ anew.breaker = c.breaker
  BY DEF ConnType, Fresh
<1>2. CASE c.breaker \notin Fresh
  <2>1. Returns(t, NoAnswer, c)
    BY <1>2 DEF Try, Fresh
  <2> QED
    BY <2>1, GivesUpKeeps
<1>3. CASE c.breaker \in Fresh /\ c.transport
  <2>1. Handshake(t, now, anew)
    BY <1>3 DEF Try, Fresh
  <2> QED
    BY <2>1, <1>1, <1>3, HandshakeKeeps
<1>4. CASE c.breaker \in Fresh /\ ~c.transport
  <2> DEFINE next == [now EXCEPT !.at = "endpoint"]
  <2>1. Goes(t, next, anew)
    BY <1>4 DEF Try, Fresh
  <2>2. next \in TaskType /\ next.at = "endpoint" /\ next.job # None
    BY DEF TaskType
  <2> QED
    BY <2>1, <2>2, <1>1, <1>4, GoesKeeps
<1> QED
  BY <1>2, <1>3, <1>4

LEMMA EstablishKeeps ==
    ASSUME NabtoConnectionAssumption, IInv, NEW t, Has(t), NEW now \in TaskType, now.job # None,
           NEW c \in ConnType, Establish(t, now, c)
    PROVE IInv'
<1>1. CASE c.breaker = "due"
  <2> DEFINE next == [now EXCEPT !.at = "ready"]
  <2>1. Goes(t, next, c)
    BY <1>1 DEF Establish
  <2>2. next \in TaskType /\ next.at = "ready" /\ next.job # None
    BY DEF TaskType
  <2>3. c.breaker \in Fresh
    BY <1>1 DEF Fresh
  <2> QED
    BY <2>1, <2>2, <2>3, GoesKeeps
<1>2. CASE c.breaker # "due"
  BY <1>2, TryKeeps DEF Establish
<1> QED
  BY <1>1, <1>2

LEMMA NotAnsweredKeeps ==
    ASSUME NabtoConnectionAssumption, IInv, NEW t, Has(t), NEW c \in ConnType, NotAnswered(t, c)
    PROVE IInv'
<1>1. CASE task[t].again
  BY <1>1, GivesUpKeeps DEF NotAnswered
<1>2. CASE ~task[t].again
  <2> DEFINE next == [task[t] EXCEPT !.again = TRUE]
  <2>1. Establish(t, next, c)
    BY <1>2 DEF NotAnswered
  <2>2. next \in TaskType /\ next.job # None
    BY HasTask DEF TaskType
  <2> QED
    BY <2>1, <2>2, EstablishKeeps
<1> QED
  BY <1>1, <1>2

LEMMA DataKeeps ==
    ASSUME NabtoConnectionAssumption, IInv, NEW t, Has(t), task[t].job # "open",
           NEW c \in ConnType, Data(t, task[t], c)
    PROVE IInv'
<1>1. CASE c.server
  <2>1. task[t].job \in Commands /\ task[t] \in TaskType
    BY HasTask DEF TaskType, JobType
  <2>2. task[t].job \notin {"connect", "ping"}
    BY <2>1 DEF NabtoConnectionAssumption
  <2>3. Exchanges(t, task[t], task[t].job, c)
    BY <1>1 DEF Data
  <2> QED
    BY <2>1, <2>2, <2>3, HasTask, ExchangesKeeps
<1>2. CASE ~c.server
  BY <1>2, NotAnsweredKeeps DEF Data
<1> QED
  BY <1>1, <1>2

LEMMA EstablishedKeeps ==
    ASSUME NabtoConnectionAssumption, IInv, NEW t, Has(t), NEW c \in ConnType, Established(t, c)
    PROVE IInv'
<1>1. CASE task[t].job = "open"
  <2>1. Returns(t, Answer("open", "identity"), c)
    BY <1>1 DEF Established
  <2>2. /\ Answer("open", "identity") \in AnswerType
        /\ Answer("open", "identity").what = "identity"
    BY DEF Answer, AnswerType, What
  <2> QED
    BY <2>1, <2>2, ReturnsKeeps
<1>2. CASE task[t].job # "open"
  BY <1>2, DataKeeps DEF Established
<1> QED
  BY <1>1, <1>2

\* The end of an exchange keeps it, if what is taken for its answer is one to its request.
LEMMA EndsKeeps ==
    ASSUME NabtoConnectionAssumption, IInv, NEW t, Has(t), task[t].at = "exchange",
           NEW answer \in AnswerType,
           answer.what # "none" => answer.request = exchange.request,
           Ends(t, answer)
    PROVE IInv'
<1> DEFINE request == exchange.request
           what == answer.what
<1>1. /\ request \in Commands \union {"connect", "ping"}
      /\ request \in Commands => task[t].job = request
      /\ request \in {"connect", "ping"} => conn.breaker \in Fresh
  BY DEF IInv, TypeInv, Own, Allowed, Has, ExchangeType, Sent
<1>2. {"connect", "ping"} \cap Commands = {} /\ what \in What
  BY DEF NabtoConnectionAssumption, AnswerType
<1>3. task[t] \in TaskType /\ task[t].job # None /\ conn \in ConnType
  BY HasTask
<1>4. CASE request = "connect" /\ what = "accepted"
  <2> DEFINE c == [conn EXCEPT !.server = TRUE]
  <2>1. Exchanges(t, task[t], "ping", c)
    BY <1>2, <1>4 DEF Ends
  <2>2. c \in ConnType /\ c.breaker \in Fresh
    BY <1>1, <1>3, <1>4 DEF ConnType
  <2> QED
    BY <2>1, <2>2, <1>2, <1>3, ExchangesKeeps
<1>5. CASE request = "connect" /\ what = "denied"
  <2>1. PICK taken \in {Answer("open", "denied"), NoAnswer} : Returns(t, taken, conn)
    BY <1>2, <1>5 DEF Ends
  <2>2. ASSUME taken = Answer("open", "denied")
        PROVE  /\ taken \in AnswerType
               /\ taken.what \notin {"values", "zeros", "done"}
    BY <2>2 DEF Answer, AnswerType, What
  <2> QED
    BY <2>1, <2>2, <1>3, NoAnswerType, ReturnsKeeps
<1>6. CASE request = "connect" /\ what \in {"refused", "none"}
  <2>1. HandshakeFails(t, conn)
    BY <1>2, <1>6 DEF Ends
  <2> QED
    BY <2>1, <1>1, <1>3, <1>6, HandshakeFailsKeeps
<1>7. CASE request = "ping" /\ what = "identity"
  <2> DEFINE c == [conn EXCEPT !.breaker = "closed"]
  <2>1. Established(t, c)
    BY <1>2, <1>7 DEF Ends
  <2>2. c \in ConnType
    BY <1>3 DEF ConnType, Fresh
  <2> QED
    BY <2>1, <2>2, EstablishedKeeps
<1>8. CASE request = "ping" /\ what # "identity"
  <2> DEFINE c == [conn EXCEPT !.server = FALSE]
  <2>1. HandshakeFails(t, c)
    BY <1>2, <1>8 DEF Ends
  <2>2. c \in ConnType /\ c.breaker \in Fresh
    BY <1>1, <1>3, <1>8 DEF ConnType
  <2> QED
    BY <2>1, <2>2, HandshakeFailsKeeps
<1>9. CASE request \in Commands /\ what # "none"
  <2>1. request \notin {"connect", "ping"}
    BY <1>2, <1>9
  <2>2. Returns(t, answer, conn)
    BY <2>1, <1>9 DEF Ends
  <2> QED
    BY <2>2, <1>1, <1>3, <1>9, ReturnsKeeps
<1>10. CASE request \in Commands /\ what = "none"
  <2>1. request \notin {"connect", "ping"}
    BY <1>2, <1>10
  <2>2. NotAnswered(t, conn)
    BY <2>1, <1>10 DEF Ends
  <2> QED
    BY <2>2, <1>3, NotAnsweredKeeps
<1> QED
  BY <1>4, <1>5, <1>6, <1>7, <1>8, <1>9, <1>10 DEF Ends

-----------------------------------------------------------------------------
\* The steps of the task that has the lock.
LEMMA HoldsHas ==
    ASSUME NEW t \in Tasks, NEW where, where # "idle", Holds(t, where)
    PROVE Has(t) /\ task[t].at = where
BY DEF Holds, Has

LEMMA BeginsKeeps ==
    ASSUME NabtoConnectionAssumption, IInv, NEW t \in Tasks, OpenBegins(t) \/ RequestBegins(t)
    PROVE IInv'
<1>1. Has(t)
  BY HoldsHas DEF OpenBegins, RequestBegins
<1>2. task[t] \in TaskType /\ task[t].job # None /\ conn \in ConnType
  BY <1>1, HasTask
<1>3. CASE OpenBegins(t)
  <2> DEFINE c == [conn EXCEPT !.breaker = "closed"]
  <2>1. Establish(t, task[t], c)
    BY <1>3 DEF OpenBegins
  <2>2. c \in ConnType
    BY <1>2 DEF ConnType, Fresh
  <2> QED
    BY <1>1, <1>2, <2>1, <2>2, EstablishKeeps
<1>4. CASE RequestBegins(t)
  <2>1. task[t].job # "open" /\ (Data(t, task[t], conn) \/ Establish(t, task[t], conn))
    BY <1>4 DEF RequestBegins
  <2> QED
    BY <1>1, <1>2, <2>1, DataKeeps, EstablishKeeps
<1> QED
  BY <1>3, <1>4

LEMMA ReadyKeeps ==
    ASSUME NabtoConnectionAssumption, IInv, NEW t \in Tasks, Ready(t) \/ NotReady(t)
    PROVE IInv'
<1>1. Has(t)
  BY HoldsHas DEF Ready, NotReady
<1>2. task[t] \in TaskType /\ task[t].job # None /\ conn \in ConnType
  BY <1>1, HasTask
<1>3. CASE Ready(t)
  BY <1>1, <1>2, <1>3, TryKeeps DEF Ready
<1>4. CASE NotReady(t)
  <2> DEFINE c == [conn EXCEPT !.breaker = "pausing"]
  <2>1. Returns(t, NoAnswer, c)
    BY <1>4 DEF NotReady
  <2>2. c \in ConnType
    BY <1>2 DEF ConnType
  <2> QED
    BY <1>1, <2>1, <2>2, GivesUpKeeps
<1> QED
  BY <1>3, <1>4

LEMMA EndpointOpensKeeps ==
    ASSUME NabtoConnectionAssumption, IInv, NEW t \in Tasks, EndpointOpens(t)
    PROVE IInv'
<1>1. Has(t) /\ task[t].at = "endpoint"
  BY HoldsHas DEF EndpointOpens
<1>2. task[t] \in TaskType /\ task[t].job # None /\ conn \in ConnType
  BY <1>1, HasTask
<1> DEFINE c == [conn EXCEPT !.transport = TRUE]
<1>3. Handshake(t, task[t], c)
  BY DEF EndpointOpens
<1>4. conn.breaker \in Fresh
  BY <1>1 DEF IInv, Allowed
<1>5. c \in ConnType /\ c.breaker \in Fresh
  BY <1>2, <1>4 DEF ConnType
<1> QED
  BY <1>1, <1>2, <1>3, <1>5, HandshakeKeeps

LEMMA EndpointFailsKeeps ==
    ASSUME NabtoConnectionAssumption, IInv, NEW t \in Tasks, EndpointFails(t)
    PROVE IInv'
<1>1. Has(t)
  BY HoldsHas DEF EndpointFails
<1>2. Answer(None, "error") \in AnswerType /\ Answer(None, "error").what = "error"
  BY DEF Answer, AnswerType, Sent, What
<1> QED
  BY <1>1, <1>2, HasTask, ReturnsKeeps DEF EndpointFails

LEMMA DiscoversKeeps ==
    ASSUME NabtoConnectionAssumption, IInv, NEW t \in Tasks, Discovers(t)
    PROVE IInv'
<1>1. Has(t) /\ task[t].at = "discover"
  BY HoldsHas DEF Discovers
<1>2. task[t] \in TaskType /\ task[t].job # None /\ conn \in ConnType
  BY <1>1, HasTask
<1> DEFINE now == [task[t] EXCEPT !.found = TRUE]
           c == [conn EXCEPT !.address = "right"]
<1>3. CASE Unanswered(t, conn)
  BY <1>1, <1>2, <1>3, UnansweredKeeps
<1>4. CASE Exchanges(t, now, "connect", c)
  <2>1. conn.breaker \in Fresh
    BY <1>1 DEF IInv, Allowed
  <2>2. now \in TaskType /\ now.job # None /\ c \in ConnType /\ c.breaker \in Fresh
    BY <1>2, <2>1 DEF TaskType, ConnType
  <2>3. "connect" \notin Commands
    BY DEF NabtoConnectionAssumption
  <2> HIDE DEF now, c
  <2> QED
    BY <1>1, <1>4, <2>2, <2>3, ExchangesKeeps
<1> QED
  BY <1>3, <1>4 DEF Discovers

\* A step that leaves the tasks and the line alone keeps the invariant, if what it leaves of the
\* exchange is still that of the same request.
LEMMA SameLineKeeps ==
    ASSUME NabtoConnectionAssumption, IInv,
           task' = task, line' = line, returned' = Nothing,
           exchange' \in ExchangeType, conn' \in ConnType, air' \in [1 .. SequenceMax -> Sent],
           exchange'.request = exchange.request, exchange'.sequence = exchange.sequence,
           exchange'.phase = "none" <=> exchange.phase = "none",
           exchange'.phase = "later" => exchange.request \in Commands,
           exchange.request # None =>
              /\ air'[exchange.sequence] \in {exchange.request, None}
              /\ exchange'.answer.what # "none" => exchange'.answer.request = exchange.request
              /\ exchange'.first.what # "none" => exchange'.first.request = exchange.request,
           conn.breaker \in Fresh => conn'.breaker \in Fresh
    PROVE IInv'
<1>1. TypeInv'
  BY DEF IInv, TypeInv, Nothing, NoAnswer, Answer, AnswerType, JobType, What, Sent
<1>2. Holder'
  BY DEF IInv, Holder
<1>3. Own'
  BY DEF IInv, Own
<1>4. Allowed'
  BY DEF IInv, Allowed
<1>5. AnswersItsOwn'
  BY DEF AnswersItsOwn, Nothing, NoAnswer, Answer
<1> QED
  BY <1>1, <1>2, <1>3, <1>4, <1>5 DEF IInv

\* What the exchange under way is, while its task waits for an answer.
LEMMA WaitsOwn ==
    ASSUME NabtoConnectionAssumption, IInv, NEW t \in Tasks, NEW phase, Waits(t, phase)
    PROVE /\ Has(t) /\ task[t].at = "exchange"
          /\ exchange \in ExchangeType /\ exchange.request # None
          /\ exchange.answer \in AnswerType /\ exchange.first \in AnswerType
          /\ exchange.answer.what # "none" => exchange.answer.request = exchange.request
          /\ exchange.first.what # "none" => exchange.first.request = exchange.request
          /\ exchange.sequence \in 1 .. SequenceMax
          /\ air[exchange.sequence] \in {exchange.request, None}
          /\ exchange.phase = "later" => exchange.request \in Commands
<1>1. Has(t) /\ task[t].at = "exchange"
  BY HoldsHas DEF Waits
<1>2. exchange \in ExchangeType /\ exchange.answer \in AnswerType /\ exchange.first \in AnswerType
  BY DEF IInv, TypeInv, ExchangeType
<1> QED
  BY <1>1, <1>2 DEF IInv, Own, Has

LEMMA TimesOutKeeps ==
    ASSUME NabtoConnectionAssumption, IInv, NEW t \in Tasks, TimesOut(t) \/ AnswerWaitEnds(t)
    PROVE IInv'
<1>1. PICK phase \in {"wait", "acknowledged"} : Waits(t, phase) /\ exchange.phase = phase
  BY DEF TimesOut, AnswerWaitEnds, Waits
<1>2. /\ Has(t) /\ task[t].at = "exchange"
      /\ exchange \in ExchangeType /\ exchange.request # None
      /\ exchange.answer.what # "none" => exchange.answer.request = exchange.request
      /\ exchange.first.what # "none" => exchange.first.request = exchange.request
      /\ exchange.sequence \in 1 .. SequenceMax
      /\ air[exchange.sequence] \in {exchange.request, None}
      /\ exchange.phase = "later" => exchange.request \in Commands
  BY <1>1, WaitsOwn
<1>3. conn \in ConnType /\ air \in [1 .. SequenceMax -> Sent]
  BY DEF IInv, TypeInv
<1>4. CASE Ends(t, NoAnswer)
  BY <1>2, <1>4, NoAnswerType, EndsKeeps
<1>5. CASE /\ exchange' = [exchange EXCEPT !.phase = "acknowledged"]
           /\ returned' = Nothing
           /\ UNCHANGED <<task, line, conn, air>>
  <2>1. /\ exchange' \in ExchangeType
        /\ exchange'.request = exchange.request /\ exchange'.sequence = exchange.sequence
        /\ exchange'.phase = "acknowledged" /\ exchange'.answer = exchange.answer
        /\ exchange'.first = exchange.first
    BY <1>2, <1>5 DEF ExchangeType
  <2> QED
    BY <2>1, <1>1, <1>2, <1>3, <1>5, SameLineKeeps
<1>6. CASE /\ exchange' = [exchange EXCEPT !.sending = @ + 1]
           /\ air' = [air EXCEPT ![exchange.sequence] =
                         IF Reaches(conn) THEN exchange.request ELSE @]
           /\ returned' = Nothing
           /\ UNCHANGED <<task, line, conn>>
  <2>1. /\ exchange' \in ExchangeType
        /\ exchange'.request = exchange.request /\ exchange'.sequence = exchange.sequence
        /\ exchange'.phase = exchange.phase /\ exchange'.answer = exchange.answer
        /\ exchange'.first = exchange.first
    BY <1>2, <1>6 DEF ExchangeType
  <2>2. /\ air' \in [1 .. SequenceMax -> Sent]
        /\ air'[exchange.sequence] \in {exchange.request, None}
    BY <1>2, <1>3, <1>6 DEF ExchangeType
  <2> QED
    BY <2>1, <2>2, <1>2, <1>3, <1>6, SameLineKeeps
<1> QED
  BY <1>4, <1>5, <1>6 DEF TimesOut, AnswerWaitEnds

LEMMA AnsweredKeeps ==
    ASSUME NabtoConnectionAssumption, IInv, NEW t \in Tasks, Answered(t) \/ LaterWaitEnds(t)
    PROVE IInv'
<1>1. PICK phase \in {"wait", "acknowledged", "later"} : Waits(t, phase)
  BY DEF Answered, LaterWaitEnds
<1>2. /\ Has(t) /\ task[t].at = "exchange"
      /\ exchange \in ExchangeType /\ exchange.request # None
      /\ exchange.answer \in AnswerType /\ exchange.first \in AnswerType
      /\ exchange.answer.what # "none" => exchange.answer.request = exchange.request
      /\ exchange.first.what # "none" => exchange.first.request = exchange.request
      /\ exchange.sequence \in 1 .. SequenceMax
      /\ air[exchange.sequence] \in {exchange.request, None}
  BY <1>1, WaitsOwn
<1>3. conn \in ConnType /\ air \in [1 .. SequenceMax -> Sent]
  BY DEF IInv, TypeInv
<1>4. CASE Ends(t, exchange.answer)
  BY <1>2, <1>4, EndsKeeps
<1>5. CASE /\ Refuses
           /\ exchange' = [exchange EXCEPT !.phase = "later", !.answer = NoAnswer,
                                            !.first = exchange.answer]
           /\ returned' = Nothing
           /\ UNCHANGED <<task, line, conn, air>>
  <2>1. /\ exchange' \in ExchangeType
        /\ exchange'.request = exchange.request /\ exchange'.sequence = exchange.sequence
        /\ exchange'.phase = "later" /\ exchange'.answer = NoAnswer
        /\ exchange'.first = exchange.answer
    BY <1>2, <1>5, NoAnswerType DEF ExchangeType
  <2>2. exchange'.answer.what = "none"
    BY <2>1 DEF NoAnswer, Answer
  <2>3. exchange.phase # "none"
    BY <1>2 DEF IInv, Own
  <2>4. exchange.request \in Commands
    BY <1>5 DEF Refuses, NabtoConnectionAssumption
  <2> QED
    BY <2>1, <2>2, <2>3, <2>4, <1>2, <1>3, <1>5, SameLineKeeps
<1>6. CASE LaterWaitEnds(t)
  <2>1. Ends(t, Later)
    BY <1>6 DEF LaterWaitEnds
  <2>2. Later \in AnswerType /\ (Later.what # "none" => Later.request = exchange.request)
    BY <1>2 DEF Later
  <2> QED
    BY <2>1, <2>2, <1>2, EndsKeeps
<1> QED
  BY <1>4, <1>5, <1>6 DEF Answered

\* What comes from the network.
LEMMA ReceiveKeeps ==
    ASSUME NabtoConnectionAssumption, IInv, NEW s \in 1 .. SequenceMax,
           Receive(s) \/ ReceivedComes(s)
    PROVE IInv'
<1>1. /\ exchange.phase # "none" /\ exchange.sequence = s /\ exchange.answer = NoAnswer
      /\ air[s] # None
      /\ returned' = Nothing
      /\ UNCHANGED <<task, line, conn, air>>
  BY DEF Receive, ReceivedComes, Expected
<1>2. /\ exchange \in ExchangeType /\ conn \in ConnType
      /\ air \in [1 .. SequenceMax -> Sent]
      /\ exchange.request # None /\ air[s] = exchange.request
      /\ exchange.first.what # "none" => exchange.first.request = exchange.request
      /\ exchange.phase = "later" => exchange.request \in Commands
  BY <1>1 DEF IInv, TypeInv, Own
<1>3. CASE Receive(s)
  <2>1. PICK what \in Replies(air[s]) :
            exchange' = [exchange EXCEPT !.answer = Answer(air[s], what)]
    BY <1>3 DEF Receive
  <2>2. what \in What
    BY DEF Replies, What
  <2>3. Answer(air[s], what) \in AnswerType
    BY <1>2, <2>2 DEF Answer, AnswerType
  <2>4. /\ exchange' \in ExchangeType
        /\ exchange'.request = exchange.request /\ exchange'.sequence = exchange.sequence
        /\ exchange'.phase = exchange.phase /\ exchange'.answer = Answer(air[s], what)
        /\ exchange'.first = exchange.first
    BY <1>2, <2>1, <2>3 DEF ExchangeType
  <2>5. exchange'.answer.request = exchange.request
    BY <2>4, <1>2 DEF Answer
  <2> QED
    BY <2>4, <2>5, <1>1, <1>2, SameLineKeeps
<1>4. CASE ReceivedComes(s)
  <2>1. exchange' = [exchange EXCEPT !.received = TRUE]
    BY <1>4 DEF ReceivedComes
  <2>2. /\ exchange' \in ExchangeType
        /\ exchange'.request = exchange.request /\ exchange'.sequence = exchange.sequence
        /\ exchange'.phase = exchange.phase /\ exchange'.answer = NoAnswer
        /\ exchange'.first = exchange.first
    BY <1>1, <1>2, <2>1 DEF ExchangeType
  <2>3. exchange'.answer.what = "none"
    BY <2>2 DEF NoAnswer, Answer
  <2> QED
    BY <2>2, <2>3, <1>1, <1>2, SameLineKeeps
<1> QED
  BY <1>3, <1>4

-----------------------------------------------------------------------------
\* The other steps.
LEMMA CallKeeps ==
    ASSUME NabtoConnectionAssumption, IInv, NEW t \in Tasks, NEW job \in Jobs[t], Call(t, job)
    PROVE IInv'
<1> DEFINE called == [Idle EXCEPT !.at = "line", !.job = job]
<1>1. /\ task[t].at = "idle"
      /\ task' = [task EXCEPT ![t] = called]
      /\ line' = Append(line, t)
      /\ returned' = Nothing
      /\ UNCHANGED <<exchange, conn, air>>
  BY DEF Call
<1>2. job \in Commands \union {"open"} /\ None \notin Commands \union {"open"}
  BY DEF NabtoConnectionAssumption
<1>3. called \in TaskType /\ called.at = "line" /\ called.job # None
  BY <1>2 DEF Idle, TaskType, JobType
<1> HIDE DEF called
<1>4. /\ task \in [Tasks -> TaskType] /\ line \in Seq(Tasks)
      /\ exchange \in ExchangeType
  BY DEF IInv, TypeInv
<1>5. /\ line' \in Seq(Tasks) /\ line' # << >>
      /\ Head(line') = IF line = << >> THEN t ELSE Head(line)
      /\ Head(line') \in Tasks
  BY <1>1, <1>4
<1>6. TypeInv'
  BY <1>1, <1>3, <1>4, <1>5 DEF IInv, TypeInv, Nothing, NoAnswer, Answer, AnswerType, JobType,
      What, Sent
<1>7. Holder'
  BY <1>1, <1>3, <1>4, <1>5 DEF IInv, Holder
<1>8. Own'
  <2>1. task'[Head(line')].at = "exchange"
            <=> line # << >> /\ task[Head(line)].at = "exchange"
    BY <1>1, <1>3, <1>4, <1>5
  <2>2. exchange.request # None => Head(line') = Head(line) /\ Head(line) # t
    BY <1>1, <1>5 DEF IInv, Own
  <2>3. exchange.request # None => task'[Head(line')].job = task[Head(line)].job
    BY <2>2, <1>1, <1>4, <1>5
  <2> QED
    BY <2>1, <2>2, <2>3, <1>1, <1>5 DEF IInv, Own
<1>9. Allowed'
  BY <1>1, <1>3, <1>4 DEF IInv, Allowed
<1>10. AnswersItsOwn'
  BY <1>1 DEF AnswersItsOwn, Nothing, NoAnswer, Answer
<1> QED
  BY <1>6, <1>7, <1>8, <1>9, <1>10 DEF IInv

LEMMA WithoutType ==
    ASSUME line \in Seq(Tasks), NEW k \in DOMAIN line
    PROVE /\ Without(k) \in Seq(Tasks)
          /\ k # 1 => Without(k) # << >> /\ Head(Without(k)) = Head(line)
<1>1. Len(line) \in Nat /\ k \in 1 .. Len(line)
  OBVIOUS
<1>2. Without(k) \in [1 .. Len(line) - 1 -> Tasks]
  BY <1>1 DEF Without
<1>3. Len(line) - 1 \in Nat
  BY <1>1
<1>4. Without(k) \in Seq(Tasks) /\ Len(Without(k)) = Len(line) - 1
  BY <1>2, <1>3, LenProperties, SeqDef
<1>5. ASSUME k # 1 PROVE Without(k) # << >> /\ Head(Without(k)) = Head(line)
  <2>1. 1 \in 1 .. Len(line) - 1 /\ 1 < k
    BY <1>1, <1>5
  <2>2. Without(k)[1] = line[1]
    BY <2>1 DEF Without
  <2> QED
    BY <2>1, <2>2, <1>4
<1> QED
  BY <1>4, <1>5

LEMMA CancelKeeps ==
    ASSUME NabtoConnectionAssumption, IInv, NEW t \in Tasks, Cancel(t)
    PROVE IInv'
<1>1. PICK k \in DOMAIN line : line[k] = t /\ line' = Without(k)
  BY DEF Cancel
<1>2. /\ task' = [task EXCEPT ![t] = Idle]
      /\ exchange' = IF Head(line) = t THEN NoExchange ELSE exchange
      /\ returned' = Nothing
      /\ UNCHANGED <<conn, air>>
  BY DEF Cancel
<1>3. /\ task \in [Tasks -> TaskType] /\ line \in Seq(Tasks)
      /\ exchange \in ExchangeType /\ line # << >>
  BY <1>1 DEF IInv, TypeInv
<1>4. /\ line' \in Seq(Tasks)
      /\ Head(line) # t => line' # << >> /\ Head(line') = Head(line)
  BY <1>1, <1>3, WithoutType
<1>5. Idle \in TaskType /\ Idle.at = "idle"
  BY DEF Idle, TaskType, JobType
<1>6. NoExchange \in ExchangeType /\ NoExchange.request = None /\ NoExchange.phase = "none"
      /\ NoExchange.answer = NoAnswer /\ NoExchange.first = NoAnswer
  BY NoAnswerType DEF NoExchange, ExchangeType, Sent
<1>7. TypeInv'
  BY <1>2, <1>3, <1>4, <1>5, <1>6 DEF IInv, TypeInv, Nothing, NoAnswer, Answer, AnswerType,
      JobType, What, Sent
<1>8. ASSUME NEW u \in Tasks
      PROVE task'[u] = IF u = t THEN Idle ELSE task[u]
  BY <1>2, <1>3
<1>9. Holder'
  BY <1>3, <1>4, <1>5, <1>8 DEF IInv, Holder
<1>10. Own'
  <2>1. CASE Head(line) = t
    <3>1. exchange' = NoExchange
      BY <1>2, <2>1
    <3>2. line' # << >> => Head(line') \in Tasks
      BY <1>4
    <3>3. \A u \in Tasks : task'[u].at # "exchange"
      BY <1>5, <1>8, <2>1 DEF IInv, Holder
    <3> QED
      BY <3>1, <3>2, <3>3, <1>6 DEF Own, NoAnswer, Answer
  <2>2. CASE Head(line) # t
    <3>1. exchange' = exchange /\ air' = air
      BY <1>2, <2>2
    <3>2. line' # << >> /\ Head(line') = Head(line) /\ task'[Head(line')] = task[Head(line)]
      BY <1>3, <1>4, <1>8, <2>2
    <3> QED
      BY <3>1, <3>2, <1>3 DEF IInv, Own
  <2> QED
    BY <2>1, <2>2
<1>11. Allowed'
  BY <1>2, <1>5, <1>6, <1>8 DEF IInv, Allowed, NabtoConnectionAssumption
<1>12. AnswersItsOwn'
  BY <1>2 DEF AnswersItsOwn, Nothing, NoAnswer, Answer
<1> QED
  BY <1>7, <1>9, <1>10, <1>11, <1>12 DEF IInv

\* What happens around a waiting task: the host closes, the unit restarts or moves, time passes.
LEMMA DisturbsKeeps ==
    ASSUME NabtoConnectionAssumption, IInv,
           Close \/ UnitRestarts \/ UnitMoves \/ PauseEnds \/ Settle
    PROVE IInv'
<1>1. /\ exchange \in ExchangeType /\ conn \in ConnType
      /\ air \in [1 .. SequenceMax -> Sent]
      /\ exchange.phase = "later" => exchange.request \in Commands
      /\ exchange.request # None =>
            /\ exchange.sequence \in 1 .. SequenceMax
            /\ air[exchange.sequence] \in {exchange.request, None}
            /\ exchange.answer.what # "none" => exchange.answer.request = exchange.request
            /\ exchange.first.what # "none" => exchange.first.request = exchange.request
  BY DEF IInv, TypeInv, Own, ExchangeType, AnswerType
<1>2. task' = task /\ line' = line /\ returned' = Nothing /\ exchange' = exchange
  BY DEF Close, UnitRestarts, UnitMoves, PauseEnds, Settle
<1>3. conn' \in ConnType /\ (conn.breaker \in Fresh => conn'.breaker \in Fresh)
  <2>1. CASE Close
    BY <2>1, <1>1 DEF Close, ConnType
  <2>2. CASE UnitMoves
    BY <2>2, <1>1 DEF UnitMoves, ConnType
  <2>3. CASE PauseEnds
    BY <2>3, <1>1 DEF PauseEnds, ConnType, Fresh
  <2>4. CASE UnitRestarts \/ Settle
    BY <2>4, <1>1 DEF UnitRestarts, Settle
  <2> QED
    BY <2>1, <2>2, <2>3, <2>4
<1>4. air' = air \/ air' = [s \in 1 .. SequenceMax |-> None]
  BY DEF Close, UnitRestarts, UnitMoves, PauseEnds, Settle
<1>5. /\ air' \in [1 .. SequenceMax -> Sent]
      /\ exchange.request # None => air'[exchange.sequence] \in {exchange.request, None}
  BY <1>1, <1>4 DEF Sent
<1> QED
  BY <1>1, <1>2, <1>3, <1>5, SameLineKeeps

-----------------------------------------------------------------------------
LEMMA InitInv ==
    ASSUME NabtoConnectionAssumption, Init
    PROVE IInv
<1>1. /\ task = [t \in Tasks |-> Idle] /\ returned = Nothing /\ line = << >>
      /\ exchange = NoExchange
      /\ air = [s \in 1 .. SequenceMax |-> None]
  BY DEF Init
<1>2. conn \in ConnType
  <2>1. Hosts \subseteq {"right", "wrong", None}
    BY DEF NabtoConnectionAssumption
  <2>2. conn \in [server : {FALSE}, transport : {FALSE}, address : Hosts, sequence : {0},
                  breaker : {"closed"}]
    BY DEF Init
  <2>3. PICK address \in Hosts :
            conn = [server |-> FALSE, transport |-> FALSE, address |-> address,
                    sequence |-> 0, breaker |-> "closed"]
    BY <2>2
  <2>4. [server |-> FALSE, transport |-> FALSE, address |-> address, sequence |-> 0,
         breaker |-> "closed"] \in ConnType
    BY <2>1 DEF ConnType, Fresh
  <2> QED
    BY <2>3, <2>4
<1>3. Idle \in TaskType /\ Idle.at = "idle"
  BY DEF Idle, TaskType, JobType
<1>4. NoExchange \in ExchangeType /\ NoExchange.request = None /\ NoExchange.phase = "none"
      /\ NoExchange.answer = NoAnswer /\ NoExchange.first = NoAnswer
  BY NoAnswerType DEF NoExchange, ExchangeType, Sent
<1>5. TypeInv
  BY <1>1, <1>2, <1>3, <1>4, NoAnswerType DEF TypeInv, Nothing, JobType, Sent
<1>6. Holder /\ Allowed
  <2>1. \A u \in Tasks : task[u].at = "idle"
    BY <1>1, <1>3
  <2>2. None \notin {"connect", "ping"}
    BY DEF NabtoConnectionAssumption
  <2> QED
    BY <2>1, <2>2, <1>1, <1>4 DEF Holder, Allowed
<1>7. Own
  BY <1>1, <1>4 DEF Own, NoAnswer, Answer
<1>8. AnswersItsOwn
  BY <1>1 DEF AnswersItsOwn, Nothing, NoAnswer, Answer
<1> QED
  BY <1>5, <1>6, <1>7, <1>8 DEF IInv

LEMMA NextKeeps ==
    ASSUME NabtoConnectionAssumption, IInv, [Next]_vars
    PROVE IInv'
<1>1. ASSUME NEW t \in Tasks, Step(t) PROVE IInv'
  BY <1>1, BeginsKeeps, ReadyKeeps, EndpointOpensKeeps, DiscoversKeeps, TimesOutKeeps,
     AnsweredKeeps DEF Step
<1>2. ASSUME NEW s \in 1 .. SequenceMax, Receive(s) \/ ReceivedComes(s) PROVE IInv'
  BY <1>2, ReceiveKeeps
<1>3. ASSUME NEW t \in Tasks, Calls(t) \/ Cancel(t) \/ NotReady(t) \/ EndpointFails(t)
      PROVE IInv'
  BY <1>3, CallKeeps, CancelKeeps, ReadyKeeps, EndpointFailsKeeps DEF Calls
<1>4. CASE Close \/ UnitRestarts \/ UnitMoves \/ PauseEnds \/ Settle
  BY <1>4, DisturbsKeeps
<1>5. CASE UNCHANGED vars
  BY <1>5 DEF vars, IInv, TypeInv, Holder, Own, Allowed, AnswersItsOwn
<1> QED
  BY <1>1, <1>2, <1>3, <1>4, <1>5 DEF Next, Progress, Others

LEMMA Invariance ==
    ASSUME NabtoConnectionAssumption
    PROVE Spec => []IInv
<1>1. Init => IInv
  BY InitInv
<1>2. IInv /\ [Next]_vars => IInv'
  BY NextKeeps
<1> QED
  BY <1>1, <1>2, PTL DEF Spec

\* Every variable keeps its type, and an exchange is under way exactly while the task that has
\* the lock waits for its answer (_connection.py: request() under _lock).
THEOREM NabtoTypeCorrect ==
    ASSUME NabtoConnectionAssumption
    PROVE Spec => []TypeOK
<1>1. IInv => TypeOK
  BY DEF IInv, TypeInv, Own, TypeOK, ExchangeType, ConnType, Sent, Fresh
<1> QED
  BY <1>1, Invariance, PTL

\* What a request returns was answered to that command, with any number of tasks, retries and
\* sequence numbers (_connection.py:534).
THEOREM OwnAnswers ==
    ASSUME NabtoConnectionAssumption
    PROVE Spec => []AnswersItsOwn
<1>1. IInv => AnswersItsOwn
  BY DEF IInv
<1> QED
  BY <1>1, Invariance, PTL

-----------------------------------------------------------------------------
\* What a call returns with when a handshake ends it.
Held == returned'.job # None /\ returned'.answer = NoAnswer
            => conn'.breaker \in {"pausing", "gave up"}

LEMMA NothingHeld ==
    ASSUME returned' = Nothing
    PROVE Held
<1>1. Nothing.job = None
  BY DEF Nothing
<1> QED
  BY <1>1 DEF Held

LEMMA BeginningReturnsNothing ==
    ASSUME NEW t, NEW now, NEW c, NEW request,
           Goes(t, now, c) \/ Exchanges(t, now, request, c)
    PROVE Held
BY NothingHeld DEF Goes, Exchanges

LEMMA UnansweredHeld ==
    ASSUME NEW t, NEW c \in ConnType, Unanswered(t, c)
    PROVE Held
<1>1. PICK state \in {"pausing", "gave up"} : Returns(t, NoAnswer, [c EXCEPT !.breaker = state])
  BY DEF Unanswered
<1> QED
  BY <1>1 DEF Returns, Held, ConnType

LEMMA HandshakeHeld ==
    ASSUME NEW t, NEW now, NEW c \in ConnType, HandshakeFails(t, c) \/ Handshake(t, now, c)
    PROVE Held
BY BeginningReturnsNothing, UnansweredHeld DEF HandshakeFails, Handshake

\* The task that has the lock is at one place only.
LEMMA HolderIsOne ==
    ASSUME NEW t \in Tasks, NEW u \in Tasks, NEW here, NEW there, Holds(t, here), Holds(u, there)
    PROVE t = u /\ here = there
BY DEF Holds

\* A step that is a handshake's and ends the call leaves the breaker holding the next one back.
LEMMA HandshakingHeld ==
    ASSUME NabtoConnectionAssumption, IInv, Handshaking, Next
    PROVE Held
<1>1. PICK u \in Tasks :
        \/ Holds(u, "ready") \/ Holds(u, "discover")
        \/ /\ Holds(u, "exchange") /\ exchange.request \in {"connect", "ping"}
           /\ exchange.answer.what \notin {"denied", "identity"}
  BY DEF Handshaking
<1>2. conn \in ConnType /\ {"connect", "ping"} \cap Commands = {}
  BY DEF IInv, TypeInv, NabtoConnectionAssumption
<1>3. ASSUME NEW t \in Tasks, NEW answer, answer.what \notin {"denied", "identity"},
             exchange.request \in {"connect", "ping"}, Ends(t, answer)
      PROVE Held
  <2>1. CASE exchange.request = "connect" /\ answer.what = "accepted"
    BY <1>2, <1>3, <2>1, BeginningReturnsNothing DEF Ends
  <2>2. CASE exchange.request = "connect" /\ answer.what # "accepted"
    <3>1. HandshakeFails(t, conn)
      BY <1>2, <1>3, <2>2 DEF Ends
    <3> QED
      BY <3>1, <1>2, HandshakeHeld
  <2>3. CASE exchange.request = "ping"
    <3>1. HandshakeFails(t, [conn EXCEPT !.server = FALSE])
      BY <1>2, <1>3, <2>3 DEF Ends
    <3>2. [conn EXCEPT !.server = FALSE] \in ConnType
      BY <1>2 DEF ConnType
    <3> QED
      BY <3>1, <3>2, HandshakeHeld
  <2> QED
    BY <1>3, <2>1, <2>2, <2>3
<1>4. ASSUME NEW t \in Tasks, OpenBegins(t) \/ RequestBegins(t) \/ EndpointOpens(t)
      PROVE FALSE
  BY <1>1, <1>4, HolderIsOne DEF OpenBegins, RequestBegins, EndpointOpens
<1>5. ASSUME NEW t \in Tasks, Ready(t) \/ NotReady(t) \/ Discovers(t) \/ EndpointFails(t)
      PROVE Held
  <2>1. CASE Ready(t)
    <3>1. conn.breaker \in Fresh
      BY <2>1 DEF Ready, Holds, IInv, Allowed
    <3>2. [conn EXCEPT !.server = FALSE] \in ConnType
      BY <1>2 DEF ConnType
    <3> QED
      BY <2>1, <3>1, <3>2, HandshakeHeld, BeginningReturnsNothing DEF Ready, Try, Fresh
  <2>2. CASE NotReady(t)
    BY <1>2, <2>2 DEF NotReady, Returns, Held, ConnType
  <2>3. CASE Discovers(t)
    BY <1>2, <2>3, UnansweredHeld, BeginningReturnsNothing DEF Discovers
  <2>4. CASE EndpointFails(t)
    BY <2>4 DEF EndpointFails, Returns, Held, NoAnswer, Answer
  <2> QED
    BY <1>5, <2>1, <2>2, <2>3, <2>4
<1>6. ASSUME NEW t \in Tasks,
             TimesOut(t) \/ AnswerWaitEnds(t) \/ Answered(t) \/ LaterWaitEnds(t)
      PROVE Held
  <2>1. Holds(t, "exchange")
    BY <1>6 DEF TimesOut, AnswerWaitEnds, Answered, LaterWaitEnds, Waits
  <2>2. t = u /\ exchange.request \in {"connect", "ping"}
        /\ exchange.answer.what \notin {"denied", "identity"}
    BY <1>1, <2>1, HolderIsOne
  <2>3. NoAnswer.what \notin {"denied", "identity"}
    BY NoAnswerType
  <2>4. CASE TimesOut(t) \/ AnswerWaitEnds(t)
    BY <1>3, <2>2, <2>3, <2>4, NothingHeld DEF TimesOut, AnswerWaitEnds
  <2>5. CASE Answered(t)
    BY <1>3, <2>2, <2>5, NothingHeld DEF Answered
  <2>6. CASE LaterWaitEnds(t)
    BY <1>2, <2>2, <2>6 DEF LaterWaitEnds, Waits, IInv, Own
  <2> QED
    BY <1>6, <2>4, <2>5, <2>6
<1>7. ASSUME NEW t \in Tasks, Calls(t) \/ Cancel(t)
      PROVE Held
  BY <1>7, NothingHeld DEF Calls, Call, Cancel
<1>8. ASSUME NEW s \in 1 .. SequenceMax, Receive(s) \/ ReceivedComes(s)
      PROVE Held
  BY <1>8, NothingHeld DEF Receive, ReceivedComes
<1>9. CASE Close \/ UnitRestarts \/ UnitMoves \/ PauseEnds \/ Settle
  BY <1>9, NothingHeld DEF Close, UnitRestarts, UnitMoves, PauseEnds, Settle
<1> QED
  BY <1>4, <1>5, <1>6, <1>7, <1>8, <1>9 DEF Next, Progress, Others, Step

\* A handshake that ends a call without an answer leaves the breaker holding the next one back,
\* and no step begins one while it does (_connection.py:122-123).
THEOREM HandshakesHeldBack ==
    ASSUME NabtoConnectionAssumption
    PROVE Spec => HeldBack
<1>1. IInv' => (conn'.breaker \in {"pausing", "gave up"}
                    /\ exchange'.request \in {"connect", "ping"}
                    => exchange'.request = exchange.request)
  BY DEF IInv, Allowed, Fresh
<1>2. IInv /\ Next /\ Handshaking => Held
  BY HandshakingHeld
<1>3. vars' = vars => (conn'.breaker \in {"pausing", "gave up"}
                    /\ exchange'.request \in {"connect", "ping"}
                    => exchange'.request = exchange.request)
  BY DEF vars
<1>4. IInv /\ IInv' /\ [Next]_vars
        => [/\ conn'.breaker \in {"pausing", "gave up"} /\ exchange'.request \in {"connect", "ping"}
                => exchange'.request = exchange.request
            /\ Handshaking /\ returned'.job # None /\ returned'.answer = NoAnswer
                => conn'.breaker \in {"pausing", "gave up"}]_vars
  BY <1>1, <1>2 DEF Held
<1> QED
  BY <1>4, Invariance, PTL DEF Spec, HeldBack
=============================================================================
