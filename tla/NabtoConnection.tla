-------------------------- MODULE NabtoConnection --------------------------
(***************************************************************************)
(* A micro_nabto session over UDP (micro_nabto/_connection.py): tasks that *)
(* open it and send commands through it one at a time, each sent again     *)
(* while nothing comes back, the handshake that starts the session anew,   *)
(* and the unit at the other end, which restarts, moves and refuses.       *)
(*                                                                         *)
(* `air` holds the request last sent with each sequence number: it, and    *)
(* what the unit makes of it, may arrive late, more than once or never,    *)
(* until the number is used again.  Times are not measured: any wait may   *)
(* prove too short, until the network has settled.                         *)
(***************************************************************************)
EXTENDS Integers, Sequences

CONSTANTS
    Tasks,
    Commands,      \* what may be asked of the unit
    Jobs,          \* what each task does: "open", or some of the commands
    Reads,         \* the commands whose sender says which answers to take
    Cancellable,   \* the tasks that may be cancelled
    Retries,       \* retries=
    SequenceMax,   \* _SEQUENCE_MAX, small: a datagram does not outlive a round of the numbers
    Hosts,         \* host=: where the unit is, or None
    HasId,         \* whether a device_id was given
    Reconnects,    \* reconnect=: "never" again, "tries" for a while, or "always"
    None

NabtoConnectionAssumption ==
    /\ Jobs \in [Tasks -> SUBSET (Commands \union {"open"})]
    /\ Reads \subseteq Commands /\ Cancellable \subseteq Tasks
    /\ Retries \in Nat /\ SequenceMax \in Nat \ {0}
    /\ Hosts \subseteq {"right", None}
    /\ HasId \in BOOLEAN /\ (None \in Hosts => HasId)
    /\ Reconnects \subseteq {"never", "tries", "always"}
    /\ {"open", "connect", "ping", None} \cap Commands = {}
    /\ None \notin {"open", "connect", "ping"}

ASSUME NabtoConnectionAssumption

VARIABLES
    task,      \* each task: where it is, and what it does
    returned,  \* the call the last step returned from, and with what
    line,      \* _lock: who holds it, then who waits for it
    exchange,  \* the exchange under way, with _waiting and its future
    conn,      \* _server_id, _transport, _address, _sequence and the breaker
    reconnect,
    session,   \* whether the unit knows the client's session
    air,
    settled    \* the network and the unit disturb nothing any more

vars == <<task, returned, line, exchange, conn, reconnect, session, air, settled>>

-----------------------------------------------------------------------------
\* A reply names the request it answers.
Answer(request, what) == [request |-> request, what |-> what]
NoAnswer == Answer(None, "none")
Nothing == [job |-> None, answer |-> NoAnswer]
NoExchange == [request |-> None, sequence |-> 0, sending |-> 0, phase |-> "none",
               received |-> FALSE, answer |-> NoAnswer, first |-> NoAnswer]
Idle == [at |-> "idle", job |-> None, again |-> FALSE, found |-> FALSE]

Init ==
    /\ task = [t \in Tasks |-> Idle]
    /\ returned = Nothing
    /\ line = << >>
    /\ exchange = NoExchange
    /\ conn \in [server : {FALSE}, transport : {FALSE}, address : Hosts, sequence : {0},
                 breaker : {"closed"}]
    /\ reconnect \in Reconnects
    /\ session = FALSE
    /\ air = [s \in 1 .. SequenceMax |-> None]
    /\ settled = FALSE

-----------------------------------------------------------------------------
\* Parts of a step of task t: `now` is what it has made of the task, c of the connection.

Goes(t, now, c) ==
    /\ task' = [task EXCEPT ![t] = now]
    /\ returned' = Nothing
    /\ exchange' = NoExchange
    /\ conn' = c
    /\ UNCHANGED <<line, air>>

\* A call returns, and the next one has the lock.
Returns(t, answer, c) ==
    /\ task' = [task EXCEPT ![t] = Idle]
    /\ returned' = [job |-> task[t].job, answer |-> answer]
    /\ line' = Tail(line)
    /\ exchange' = NoExchange
    /\ conn' = c
    /\ air' = air

\* _send(): nothing is sent without an endpoint, and a datagram to a wrong address is lost.
Reaches(c) == c.transport /\ c.address = "right"

NextSequence(sequence) == (sequence % SequenceMax) + 1

\* _exchange(): one number for all its sendings.
Exchanges(t, now, request, c) ==
    LET s == NextSequence(c.sequence) IN
    /\ task' = [task EXCEPT ![t] = [now EXCEPT !.at = "exchange"]]
    /\ returned' = Nothing
    /\ exchange' = [NoExchange EXCEPT !.request = request, !.sequence = s, !.phase = "wait"]
    /\ conn' = [c EXCEPT !.sequence = s]
    /\ air' = [air EXCEPT ![s] = IF Reaches(c) THEN request ELSE None]
    /\ line' = line

\* attempt.unanswered(): the handshake failed, and is not tried again before a pause.
Unanswered(t, c) ==
    \E state \in CASE reconnect = "never" -> {"gave up"}
                   [] reconnect = "tries" -> {"pausing", "gave up"}
                   [] OTHER -> {"pausing"} :
        Returns(t, NoAnswer, [c EXCEPT !.breaker = state])

\* Mutant: the unit is not looked for where it may have moved to.
StaysPut(t, c) == Unanswered(t, c)

\* _try_establish() after a handshake without an identity: the unit is looked for once.
HandshakeFails(t, c) ==
    IF HasId /\ ~task[t].found THEN Goes(t, [task[t] EXCEPT !.at = "discover"], c)
                               ELSE Unanswered(t, c)

Handshake(t, now, c) ==
    IF c.address = None THEN Goes(t, [now EXCEPT !.at = "discover", !.found = FALSE], c)
                        ELSE Exchanges(t, [now EXCEPT !.found = FALSE], "connect", c)

\* Mutant: the breaker is not asked.
TryAnyway(t, now, c) ==
    IF c.transport THEN Handshake(t, now, [c EXCEPT !.server = FALSE])
                   ELSE Goes(t, [now EXCEPT !.at = "endpoint"], [c EXCEPT !.server = FALSE])

\* _establish(), as far as the breaker allows it.
Try(t, now, c) ==
    LET anew == [c EXCEPT !.server = FALSE]
        allowed == c.breaker \in {"closed", "due"} IN
    \/ ~allowed /\ Returns(t, NoAnswer, c)
    \/ allowed /\ c.transport /\ Handshake(t, now, anew)
    \/ allowed /\ ~c.transport /\ Goes(t, [now EXCEPT !.at = "endpoint"], anew)

\* _ready_to_try(): reconnect.ready() is awaited when a handshake is due again.
Establish(t, now, c) ==
    IF c.breaker = "due" THEN Goes(t, [now EXCEPT !.at = "ready"], c) ELSE Try(t, now, c)

\* Mutant: again as often as it takes.
NotAnsweredYet(t, c) == Establish(t, task[t], c)

\* request() after no answer: once more, in a session established anew.
NotAnswered(t, c) ==
    IF task[t].again THEN Returns(t, NoAnswer, c)
                     ELSE Establish(t, [task[t] EXCEPT !.again = TRUE], c)

\* _data(): nothing is sent without a session, which close() may have ended.
Data(t, now, c) ==
    IF c.server THEN Exchanges(t, now, now.job, c) ELSE NotAnswered(t, c)

Established(t, c) ==
    IF task[t].job = "open" THEN Returns(t, Answer("open", "identity"), c)
                            ELSE Data(t, task[t], c)

\* An exchange ends, with an answer or NoAnswer.
Ends(t, answer) ==
    LET request == exchange.request
        what == answer.what IN
    \/ /\ request = "connect" /\ what = "accepted"
       /\ Exchanges(t, task[t], "ping", [conn EXCEPT !.server = TRUE])
    \/ /\ request = "connect" /\ what = "denied"
       /\ Returns(t, IF task[t].job = "open" THEN Answer("open", "denied") ELSE NoAnswer, conn)
    \/ /\ request = "connect" /\ what \in {"refused", "none"}
       /\ HandshakeFails(t, conn)
    \/ /\ request = "ping" /\ what = "identity"
       /\ Established(t, [conn EXCEPT !.breaker = "closed"])
    \/ /\ request = "ping" /\ what # "identity"
       /\ HandshakeFails(t, [conn EXCEPT !.server = FALSE])
    \/ request \in Commands /\ what # "none" /\ Returns(t, answer, conn)
    \/ request \in Commands /\ what = "none" /\ NotAnswered(t, conn)

-----------------------------------------------------------------------------
\* The steps of a task.

Holds(t, where) == line # << >> /\ Head(line) = t /\ task[t].at = where

Call(t, job) ==
    /\ task[t].at = "idle"
    /\ task' = [task EXCEPT ![t] = [Idle EXCEPT !.at = "line", !.job = job]]
    /\ line' = Append(line, t)
    /\ returned' = Nothing
    /\ UNCHANGED <<exchange, conn, air, reconnect, session, settled>>

\* open(): the breaker is forgotten.
OpenBegins(t) ==
    /\ Holds(t, "line") /\ task[t].job = "open"
    /\ Establish(t, task[t], [conn EXCEPT !.breaker = "closed"])
    /\ UNCHANGED <<reconnect, session, settled>>

\* request(), _ready(): a session left unused too long is established anew.
RequestBegins(t) ==
    /\ Holds(t, "line") /\ task[t].job # "open"
    /\ \/ conn.server /\ Data(t, task[t], conn)
       \/ Establish(t, task[t], conn)
    /\ UNCHANGED <<reconnect, session, settled>>

Ready(t) ==
    /\ Holds(t, "ready")
    /\ Try(t, task[t], conn)
    /\ UNCHANGED <<reconnect, session, settled>>

\* reconnect.ready() refuses: another pause.
NotReady(t) ==
    /\ Holds(t, "ready") /\ ~settled
    /\ Returns(t, NoAnswer, [conn EXCEPT !.breaker = "pausing"])
    /\ UNCHANGED <<reconnect, session, settled>>

EndpointOpens(t) ==
    /\ Holds(t, "endpoint")
    /\ Handshake(t, task[t], [conn EXCEPT !.transport = TRUE])
    /\ UNCHANGED <<reconnect, session, settled>>

\* No endpoint can be opened, for the session or for discover(): OSError leaves the call, and the
\* breaker as it was.
EndpointFails(t) ==
    /\ Holds(t, "endpoint") \/ Holds(t, "discover")
    /\ ~settled
    /\ Returns(t, Answer(None, "error"), conn)
    /\ UNCHANGED <<reconnect, session, settled>>

\* discover(): the handshake is tried where the unit was found, if that is a new address.
Discovers(t) ==
    /\ Holds(t, "discover")
    /\ \/ (settled => conn.address = "right") /\ Unanswered(t, conn)
       \/ /\ conn.address # "right"
          /\ Exchanges(t, [task[t] EXCEPT !.found = TRUE], "connect",
                       [conn EXCEPT !.address = "right"])
    /\ UNCHANGED <<reconnect, session, settled>>

Waits(t, phase) == Holds(t, "exchange") /\ exchange.phase = phase

\* Once the network has settled, an answer that can come comes in time.
MayTimeOut ==
    LET request == air[exchange.sequence] IN
    ~settled \/ request = None \/ (request # "connect" /\ ~session)

\* `timeout` is over: the request is sent again, unless the unit said it has it.
TimesOut(t) ==
    /\ Waits(t, "wait") /\ exchange.answer = NoAnswer /\ MayTimeOut
    /\ \/ /\ exchange.received
          /\ exchange' = [exchange EXCEPT !.phase = "acknowledged"]
          /\ returned' = Nothing
          /\ UNCHANGED <<task, line, conn, air>>
       \/ /\ ~exchange.received /\ exchange.sending < Retries
          /\ exchange' = [exchange EXCEPT !.sending = @ + 1]
          /\ air' = [air EXCEPT ![exchange.sequence] =
                        IF Reaches(conn) THEN exchange.request ELSE @]
          /\ returned' = Nothing
          /\ UNCHANGED <<task, line, conn>>
       \/ ~exchange.received /\ exchange.sending >= Retries /\ Ends(t, NoAnswer)
    /\ UNCHANGED <<reconnect, session, settled>>

AnswerWaitEnds(t) ==
    /\ Waits(t, "acknowledged") /\ exchange.answer = NoAnswer /\ MayTimeOut
    /\ Ends(t, NoAnswer)
    /\ UNCHANGED <<reconnect, session, settled>>

\* accept(): zeros where values were.
Refuses == exchange.request \in Reads /\ exchange.sending > 0 /\ exchange.answer.what = "zeros"

\* The answer, unless its sender refuses it and it may have a later one.
Answered(t) ==
    /\ Waits(t, "wait") \/ Waits(t, "acknowledged")
    /\ exchange.answer # NoAnswer
    /\ IF Refuses THEN /\ exchange' = [exchange EXCEPT !.phase = "later", !.answer = NoAnswer,
                                                       !.first = exchange.answer]
                       /\ returned' = Nothing
                       /\ UNCHANGED <<task, line, conn, air>>
                  ELSE Ends(t, exchange.answer)
    /\ UNCHANGED <<reconnect, session, settled>>

\* The later answer if its sender takes it, and the first otherwise.
Later == IF exchange.answer.what = "values" THEN exchange.answer ELSE exchange.first

\* _later_answer(): one came, or `later_answer_wait` is over.
LaterWaitEnds(t) ==
    /\ Waits(t, "later")
    /\ Ends(t, Later)
    /\ UNCHANGED <<reconnect, session, settled>>

\* The line without its k-th task.
Without(k) == [i \in 1 .. Len(line) - 1 |-> IF i < k THEN line[i] ELSE line[i + 1]]

\* Mutant: what was waited for stays when the task is cancelled.
CancelWaiting(t) ==
    /\ t \in Cancellable /\ ~settled /\ task[t].at # "idle"
    /\ task' = [task EXCEPT ![t] = Idle]
    /\ \E k \in DOMAIN line : line[k] = t /\ line' = Without(k)
    /\ returned' = Nothing
    /\ UNCHANGED <<exchange, conn, reconnect, session, air, settled>>

\* A task is cancelled where it waits.  A handshake neither answered nor not leaves the breaker be.
Cancel(t) ==
    /\ t \in Cancellable /\ ~settled /\ task[t].at # "idle"
    /\ task' = [task EXCEPT ![t] = Idle]
    /\ \E k \in DOMAIN line : line[k] = t /\ line' = Without(k)
    /\ exchange' = IF Head(line) = t THEN NoExchange ELSE exchange
    /\ returned' = Nothing
    /\ UNCHANGED <<conn, reconnect, session, air, settled>>

\* close(), which takes no lock: answers to what was sent before find nobody.
Close ==
    /\ conn.transport \/ conn.server
    /\ ~settled
    /\ conn' = [conn EXCEPT !.server = FALSE, !.transport = FALSE]
    /\ air' = [s \in 1 .. SequenceMax |-> None]
    /\ returned' = Nothing
    /\ UNCHANGED <<task, line, exchange, reconnect, session, settled>>

-----------------------------------------------------------------------------
\* The network, the unit and the clock.

\* What the unit may answer a request with.
Replies(request) ==
    CASE request = "connect" -> IF settled THEN {"accepted"} ELSE {"accepted", "refused", "denied"}
      [] request = "ping" -> IF settled THEN {"identity"} ELSE {"identity", "other"}
      [] request \in Reads -> {"values", "zeros"}
      [] OTHER -> {"done"}

\* Mutant: the number of a reply is not compared.
AnyReply(s) == exchange.phase # "none" /\ exchange.answer = NoAnswer

\* _receive(): a reply is for the exchange under way, by its number, and the first is kept.
Expected(s) ==
    exchange.phase # "none" /\ exchange.sequence = s /\ exchange.answer = NoAnswer

\* A request reached the unit, and its reply the client; a DATA request only within the session.
Receive(s) ==
    /\ air[s] # None /\ Expected(s)
    /\ air[s] = "connect" \/ session
    /\ \E what \in Replies(air[s]) :
        /\ session' = (session \/ what = "accepted")
        /\ exchange' = [exchange EXCEPT !.answer = Answer(air[s], what)]
    /\ returned' = Nothing
    /\ UNCHANGED <<task, line, conn, reconnect, air, settled>>

\* The unit says that it has the request.
ReceivedComes(s) ==
    /\ air[s] \notin {None, "connect"} /\ session
    /\ Expected(s) /\ exchange.phase = "wait"
    /\ exchange' = [exchange EXCEPT !.received = TRUE]
    /\ returned' = Nothing
    /\ UNCHANGED <<task, line, conn, reconnect, session, air, settled>>

UnitRestarts ==
    /\ ~settled /\ session
    /\ session' = FALSE
    /\ returned' = Nothing
    /\ UNCHANGED <<task, line, exchange, conn, reconnect, air, settled>>

UnitMoves ==
    /\ ~settled
    /\ \E address \in {"right", "wrong"} \ {conn.address} :
          conn' = [conn EXCEPT !.address = IF @ = None THEN None ELSE address]
    /\ air' = [s \in 1 .. SequenceMax |-> None]
    /\ returned' = Nothing
    /\ UNCHANGED <<task, line, exchange, reconnect, session, settled>>

PauseEnds ==
    /\ conn.breaker = "pausing"
    /\ conn' = [conn EXCEPT !.breaker = "due"]
    /\ returned' = Nothing
    /\ UNCHANGED <<task, line, exchange, reconnect, session, air, settled>>

Settle ==
    /\ ~settled
    /\ settled' = TRUE
    /\ returned' = Nothing
    /\ UNCHANGED <<task, line, exchange, conn, reconnect, session, air>>

Step(t) ==
    \/ OpenBegins(t) \/ RequestBegins(t) \/ Ready(t) \/ EndpointOpens(t) \/ Discovers(t)
    \/ TimesOut(t) \/ AnswerWaitEnds(t) \/ Answered(t) \/ LaterWaitEnds(t)

Progress ==
    \/ \E t \in Tasks : Step(t)
    \/ \E s \in 1 .. SequenceMax : Receive(s)

Calls(t) == \E job \in Jobs[t] : Call(t, job)

Others ==
    \/ \E t \in Tasks : Calls(t) \/ Cancel(t) \/ NotReady(t) \/ EndpointFails(t)
    \/ \E s \in 1 .. SequenceMax : ReceivedComes(s)
    \/ Close \/ UnitRestarts \/ UnitMoves \/ Settle

Next == Progress \/ PauseEnds \/ Others

Spec == Init /\ [][Next]_vars

\* The event loop runs on and its timers end, and the host goes on calling.
FairSpec == Spec /\ WF_vars(Progress) /\ WF_vars(PauseEnds) /\ \A t \in Tasks : WF_vars(Calls(t))

-----------------------------------------------------------------------------
TypeOK ==
    /\ line \in Seq(Tasks)
    /\ exchange.request \in Commands \union {"connect", "ping", None}
    /\ conn.address \in {"right", "wrong", None}
    /\ conn.breaker \in {"closed", "due", "pausing", "gave up"}
    /\ exchange.request # None <=> (line # << >> /\ task[Head(line)].at = "exchange")

\* What a request returns was answered to that command and not to an earlier one
\* (_connection.py:534), whatever was lost, late, doubled, closed or cancelled in between.
AnswersItsOwn ==
    returned.answer.what \in {"values", "zeros", "done"} => returned.answer.request = returned.job

\* The task that has the lock tries a handshake, and the unit has neither refused the e-mail
\* nor said who it is.
Handshaking ==
    \E t \in Tasks :
        \/ Holds(t, "ready") \/ Holds(t, "discover")
        \/ /\ Holds(t, "exchange") /\ exchange.request \in {"connect", "ping"}
           /\ exchange.answer.what \notin {"denied", "identity"}

\* A handshake that ends a call without an answer leaves the breaker holding the next one back,
\* and while it does so none is begun until `reconnect` says so or open() is called
\* (_connection.py:122-123), whichever task asks and whichever was cancelled.  Three ends are
\* not failures of this kind and leave the breaker as it was, so that the next request shakes
\* hands again: a refused e-mail (_connection.py:401-402), for which that docstring's "after a
\* failed handshake" is too wide, an endpoint that cannot be opened, and a cancellation.
HeldBack ==
    [][/\ conn'.breaker \in {"pausing", "gave up"} /\ exchange'.request \in {"connect", "ping"}
            => exchange'.request = exchange.request
       /\ Handshaking /\ returned'.job # None /\ returned'.answer = NoAnswer
            => conn'.breaker \in {"pausing", "gave up"}]_vars

\* Every call returns, however the unit and the network behave and whoever else is cancelled
\* while it holds the lock.
EveryCallReturns == \A t \in Tasks : task[t].at # "idle" ~> task[t].at = "idle"

\* Once nothing disturbs it any more, a connection that is to try again for ever comes back,
\* from any state, and from then on every request is answered.
Recovers ==
    (settled /\ reconnect = "always") ~> [](returned.answer = NoAnswer => returned = Nothing)
=============================================================================
