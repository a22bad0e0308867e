---------------------------- MODULE NabtoDevice ----------------------------
(***************************************************************************)
(* How a micro_nabto device (micro_nabto/_device.py) reads points in       *)
(* batches, halves a batch that is refused, and tells an answer of only    *)
(* zeros from zeros: an episode is open for registers answered so where    *)
(* they held values, until values come or the zeros are taken.             *)
(*                                                                         *)
(* A value is 0 or 1, for anything else.  Time passes in steps between two *)
(* requests of a read and between two reads; ages are counted up to the    *)
(* `within` of the rule in use.  A request and its answer are one step:    *)
(* NabtoConnection models what lies between them.                          *)
(***************************************************************************)
EXTENDS Integers, FiniteSets, SequencesExt

CONSTANTS
    Points,
    Registers,
    Spans,         \* the registers of each point, in order
    Space,         \* the register space of each point
    Lists,         \* the points the host reads together
    MaxRegisters,  \* max_registers
    Rules,         \* RereadZeros: [within, first, gap, atOnce, halves]
    Holdings,      \* what the unit may hold in its registers
    Absences,      \* the registers the unit may not have
    None

NabtoDeviceAssumption ==
    /\ Spans \in [Points -> Seq(Registers)] /\ \A p \in Points : Spans[p] # << >>
    /\ Lists \subseteq Seq(Points) /\ \A points \in Lists : IsInjective(points)
    /\ MaxRegisters \in Nat /\ \A p \in Points : Len(Spans[p]) <= MaxRegisters
    /\ Rules \subseteq [within : Nat, first : Nat, gap : Nat, atOnce : BOOLEAN, halves : BOOLEAN]
    /\ Holdings \subseteq [Registers -> {0, 1}]
    /\ Absences \subseteq SUBSET Registers

ASSUME NabtoDeviceAssumption

VARIABLES
    rule,
    last,      \* _last: the values taken last; 0 also before the first
    episodes,  \* _episodes: the registers of each episode, and its age
    todo,      \* the batches still to be read
    turn,      \* the batch being read: what its next request is for
    list,      \* the points of the read
    result,    \* what the read has for each of them, with `retry_after` counting down
    unit,      \* the registers it lacks and, once nothing disturbs it any more, what it holds
    zerosFor   \* for how long each register has been answered nothing but zeros

vars == <<rule, last, episodes, todo, turn, list, result, unit, zerosFor>>

-----------------------------------------------------------------------------
\* Batches.

Items(points) == FlattenSeq([i \in DOMAIN points |-> Spans[points[i]]])

\* _Batch, with the registers of its points in order.
BatchOf(points) == [points |-> points, items |-> Items(points)]

\* A batch is full when the next point does not fit.
Joins(batches, point) ==
    batches # << >> /\ Len(Last(batches).items) + Len(Spans[point]) <= MaxRegisters

\* _batches(): points of one space, in order.
Batches(points) ==
    LET batches[n \in 0 .. Len(points)] ==
            IF n = 0 THEN << >>
            ELSE LET before == batches[n - 1] IN
                 IF Joins(before, points[n])
                 THEN [before EXCEPT ![Len(before)] = BatchOf(Append(@.points, points[n]))]
                 ELSE Append(before, BatchOf(<<points[n]>>))
    IN batches[Len(points)]

\* The points of each space, the spaces in the order they come up.
BySpace(points) ==
    LET spaces[n \in 0 .. Len(points)] ==
            IF n = 0 THEN << >>
            ELSE LET before == spaces[n - 1]
                     same == {i \in DOMAIN before : Space[Head(before[i])] = Space[points[n]]} IN
                 IF same = {} THEN Append(before, <<points[n]>>)
                 ELSE [before EXCEPT ![CHOOSE i \in same : TRUE] = Append(@, points[n])]
    IN spaces[Len(points)]

\* The batches of each list, space by space.
ReadRequests ==
    [points \in Lists |->
        LET spaces == BySpace(points) IN
        FlattenSeq([i \in DOMAIN spaces |-> Batches(spaces[i])])]

\* Mutant: the point in the middle is in neither half.
HalvesApart(points) ==
    LET middle == Len(points) \div 2 IN
    <<SubSeq(points, 1, middle), SubSeq(points, middle + 2, Len(points))>>

Halves(points) ==
    LET middle == Len(points) \div 2 IN
    <<SubSeq(points, 1, middle), SubSeq(points, middle + 1, Len(points))>>

-----------------------------------------------------------------------------
\* Times.

\* Mutant: the time to the next reading is counted from this one.
NextRetryFromNow(elapsed) == IF elapsed = 0 THEN rule.first ELSE rule.gap

\* _next_retry(): the times `wait` gives, counted from the zeros, and last at `within`.
NextRetry(elapsed) ==
    LET due[step \in Nat] ==
            IF step > elapsed \/ step >= rule.within
            THEN (IF step < rule.within THEN step ELSE rule.within) - elapsed
            ELSE IF rule.gap = 0 THEN 0
            ELSE due[step + rule.gap]
    IN due[rule.first]

Older(age) == IF age < rule.within THEN age + 1 ELSE age

-----------------------------------------------------------------------------
\* Zeros and episodes.

Zeros(registers) == [r \in registers |-> 0]

HasValues(values) == \E r \in DOMAIN values : values[r] # 0

\* _zeros_where_values_were(), _only_zeros_where_values_were().
ZerosWhereValuesWere(values) == ~HasValues(values) /\ \E r \in DOMAIN values : last[r] # 0
OnlyZeros(items, values) == Len(items) > 1 /\ ZerosWhereValuesWere(values)

\* The episode of the first register that has one.
EpisodeOf(items) ==
    LET with == {i \in DOMAIN items : \E e \in episodes : items[i] \in e.of} IN
    IF with = {} THEN None ELSE CHOOSE e \in episodes : items[Min(with)] \in e.of

\* The episodes besides `episode`, to which the registers of the batch go.
Others(episode, registers) ==
    {e \in {[other EXCEPT !.of = @ \ registers] : other \in episodes \ {episode}} : e.of # {}}

\* _end(): for every register the episode is open for.
Without(episode) == episodes \ {episode}

\* Mutant: values that came after zeros set aside leave the episode open.
AfterUnasked(episode, values, setAside) ==
    IF HasValues(values) /\ ~setAside THEN Without(episode) ELSE episodes

\* The first values end the episode, also those of a part of its registers.
After(episode, values, setAside) ==
    IF HasValues(values) THEN Without(episode) ELSE episodes

-----------------------------------------------------------------------------
Idle == [at |-> "idle", age |-> 0, found |-> {}]
ReadsNext(batches) == [Idle EXCEPT !.at = IF batches = << >> THEN "idle" ELSE "batch"]
Unread == [outcome |-> "none", retry |-> 0]
Outcomes == {"none", "ok", "busy", "missing", "failed"}

Init ==
    /\ rule \in Rules
    /\ last = Zeros(Registers)
    /\ episodes = {}
    /\ todo = << >>
    /\ turn = Idle
    /\ list = << >>
    /\ result = [p \in Points |-> Unread]
    /\ unit \in [lacks : Absences, holds : {None}]
    /\ zerosFor = [r \in Registers |-> None]

Batch == Head(todo)
Asked == Range(Batch.items)

\* The batch is done: its points have an outcome, and the next batch is read.
Done(outcome, retry) ==
    /\ result' = [p \in Points |->
            IF p \in Range(Batch.points) THEN [outcome |-> outcome, retry |-> retry] ELSE result[p]]
    /\ todo' = Tail(todo)
    /\ turn' = ReadsNext(Tail(todo))

\* _note_values(): the values are taken.
Takes(values) ==
    /\ last' = [r \in Registers |-> IF r \in DOMAIN values THEN values[r] ELSE last[r]]
    /\ Done("ok", 0)

\* The batch needs another request.
AsksAgain(now) ==
    /\ turn' = now
    /\ UNCHANGED <<last, todo, result>>

\* Mutant: each reading of zeros counts the time anew.
HeldAnew(episode) ==
    /\ episodes' = Others(episode, Asked) \union {[of |-> episode.of \union Asked, age |-> 0]}
    /\ last' = last
    /\ Done("busy", NextRetry(0))

\* Only zeros: the last values are kept, until it is time to take the zeros.
Held(episode) ==
    LET others == Others(episode, Asked)
        joined == [episode EXCEPT !.of = @ \union Asked] IN
    CASE episode.age < rule.within ->
            /\ episodes' = others \union {joined}
            /\ last' = last
            /\ Done("busy", NextRetry(episode.age))
      [] episode.age >= rule.within /\ rule.halves ->
            /\ episodes' = others \union {joined}
            /\ AsksAgain([Idle EXCEPT !.at = "first half"])
      [] OTHER ->
            /\ episodes' = others
            /\ Takes(Zeros(Asked))

\* _checked(): values are taken, and end the episode.
Checked(values, setAside) ==
    LET episode == EpisodeOf(Batch.items)
        zeros == IF episode = None THEN OnlyZeros(Batch.items, values) ELSE ZerosWhereValuesWere(values)
        opened == [of |-> Asked, age |-> 0] IN
    CASE setAside \/ ~zeros ->
            /\ episodes' = After(episode, values, setAside)
            /\ Takes(values)
      [] ~setAside /\ zeros /\ episode = None /\ rule.atOnce ->
            /\ AsksAgain([Idle EXCEPT !.at = "again"])
            /\ UNCHANGED episodes
      [] ~setAside /\ zeros /\ episode = None /\ ~rule.atOnce -> Held(opened)
      [] OTHER -> Held(episode)

-----------------------------------------------------------------------------
\* What the unit and the connection make of a request for `items`.

Answer(what, values) == [what |-> what, values |-> values, setAside |-> FALSE]

Settled == unit.holds # None

Of(values, registers) == [r \in registers |-> values[r]]

\* "refused" is an answer of another count of values than was asked for.  The code takes any
\* such answer for a refusal; the unit is taken to give one only where it lacks a register.
Answers(registers) ==
    CASE registers \cap unit.lacks # {} -> {Answer("refused", << >>)}
      [] Settled /\ registers \cap unit.lacks = {} -> {Answer("values", Of(unit.holds, registers))}
      [] OTHER -> {Answer("values", Of(holds, registers)) : holds \in Holdings}
                      \union {Answer(what, << >>) : what \in {"no answer", "malformed"}}

\* A batch may also be answered with only zeros first, set aside for values (NabtoConnection's Later).
BatchAnswers(items) ==
    LET answers == Answers(Range(items)) IN
    answers \union
        {[a EXCEPT !.setAside = TRUE] :
            a \in {b \in answers : /\ b.what = "values" /\ HasValues(b.values)
                                  /\ OnlyZeros(items, Zeros(Range(items)))}}

\* For how long the registers have been answered nothing but zeros together, after one more answer.
Hears(registers, answer) ==
    zerosFor' = [r \in Registers |->
        CASE r \notin registers \/ answer.what # "values" -> zerosFor[r]
          [] r \in registers /\ answer.what = "values" /\ HasValues(answer.values) -> None
          [] OTHER -> IF zerosFor[r] = None /\ Cardinality(registers) > 1 THEN 0 ELSE zerosFor[r]]

-----------------------------------------------------------------------------
\* read(): the host asks for some points, and hears what the read before it had.
Read(points) ==
    /\ turn.at = "idle"
    /\ list' = points
    /\ todo' = ReadRequests[points]
    /\ turn' = ReadsNext(ReadRequests[points])
    /\ result' = [p \in Points |-> IF p \in Range(points) THEN Unread
                                   ELSE [result[p] EXCEPT !.outcome = "none"]]
    /\ UNCHANGED <<rule, last, episodes, unit, zerosFor>>

\* Mutant: every point of a batch that is refused is missing.
RefusedAsOne == Done("missing", 0)

\* Mutant: the halving does not end.
RefusedForEver ==
    /\ todo' = [i \in 1 .. 2 |-> BatchOf(Halves(Batch.points)[i])] \o Tail(todo)
    /\ UNCHANGED <<turn, result>>

\* A refused batch is halved until the refusal is pinned down.
Refused ==
    IF Len(Batch.points) = 1
    THEN Done("missing", 0)
    ELSE /\ todo' = [i \in 1 .. 2 |-> BatchOf(Halves(Batch.points)[i])] \o Tail(todo)
         /\ UNCHANGED <<turn, result>>

\* _read_batch(): the batch's own request.
ReadBatch ==
    /\ turn.at = "batch"
    /\ \E answer \in BatchAnswers(Batch.items) :
        /\ Hears(Asked, answer)
        /\ CASE answer.what = "values" -> Checked(answer.values, answer.setAside)
             [] answer.what = "refused" -> Refused /\ UNCHANGED <<last, episodes>>
             [] OTHER -> Done("failed", 0) /\ UNCHANGED <<last, episodes>>
    /\ UNCHANGED <<rule, list, unit>>

\* The batch read again at once: values, or its zeros are held.
ReadAgain ==
    /\ turn.at = "again"
    /\ \E answer \in Answers(Asked) :
        /\ Hears(Asked, answer)
        /\ IF answer.what = "values" /\ HasValues(answer.values)
           THEN Takes(answer.values) /\ UNCHANGED episodes
           ELSE Held([of |-> Asked, age |-> turn.age])
    /\ UNCHANGED <<rule, list, unit>>

\* _last_try(): a half brings values, or the zeros are taken.
HalfBrings(answer, values) ==
    IF answer.what = "values" /\ ~ZerosWhereValuesWere(answer.values)
    THEN values
    ELSE /\ episodes' = Without(EpisodeOf(Batch.items))
         /\ Takes(Zeros(Asked))

Half(first) ==
    LET items == Batch.items
        middle == Len(items) \div 2 IN
    Range(IF first THEN SubSeq(items, 1, middle) ELSE SubSeq(items, middle + 1, Len(items)))

ReadFirstHalf ==
    /\ turn.at = "first half"
    /\ \E answer \in Answers(Half(TRUE)) :
        /\ Hears(Half(TRUE), answer)
        /\ HalfBrings(answer,
              /\ AsksAgain([Idle EXCEPT !.at = "second half",
                                        !.found = {r \in Half(TRUE) : answer.values[r] # 0}])
              /\ UNCHANGED episodes)
    /\ UNCHANGED <<rule, list, unit>>

ReadSecondHalf ==
    /\ turn.at = "second half"
    /\ \E answer \in Answers(Half(FALSE)) :
        /\ Hears(Half(FALSE), answer)
        /\ HalfBrings(answer,
              /\ episodes' = Without(EpisodeOf(Batch.items))
              /\ Takes([r \in Asked |-> IF r \in turn.found THEN 1
                                        ELSE IF r \in Half(FALSE) THEN answer.values[r] ELSE 0]))
    /\ UNCHANGED <<rule, list, unit>>

\* The read is cancelled where it waits.
Cancel ==
    /\ turn.at # "idle" /\ ~Settled
    /\ todo' = << >>
    /\ turn' = Idle
    /\ list' = << >>
    /\ UNCHANGED <<rule, last, episodes, result, unit, zerosFor>>

-----------------------------------------------------------------------------
\* The clock and the unit.

Tick ==
    /\ episodes' = {[e EXCEPT !.age = Older(@)] : e \in episodes}
    /\ turn' = [turn EXCEPT !.age = IF turn.at = "again" THEN Older(@) ELSE @]
    /\ result' = [p \in Points |-> [result[p] EXCEPT !.retry = IF @ > 0 THEN @ - 1 ELSE @]]
    /\ zerosFor' = [r \in Registers |->
            IF zerosFor[r] = None THEN None ELSE Older(zerosFor[r])]
    /\ UNCHANGED <<rule, last, todo, list, unit>>

\* Before, the unit may hold anything at each answer.
Settle ==
    /\ ~Settled
    /\ \E holds \in Holdings : unit' = [unit EXCEPT !.holds = holds]
    /\ UNCHANGED <<rule, last, episodes, todo, turn, list, result, zerosFor>>

Step == ReadBatch \/ ReadAgain \/ ReadFirstHalf \/ ReadSecondHalf

Next == Step \/ Tick \/ Cancel \/ Settle \/ \E points \in Lists : Read(points)

Spec == Init /\ [][Next]_vars

\* The event loop and the clock run on, and the host asks for every point again and again,
\* whatever else it asks for.
FairSpec ==
    Spec /\ WF_vars(Step) /\ WF_vars(Tick)
         /\ SF_vars(\E points \in Lists : Range(points) = Points /\ Read(points))

-----------------------------------------------------------------------------
Shares(p) == \E q \in Points \ {p} : Range(Spans[q]) \intersect Range(Spans[p]) # {}

TypeOK ==
    /\ rule \in Rules
    /\ last \in [Registers -> {0, 1}]
    /\ episodes \subseteq [of : (SUBSET Registers) \ {{}}, age : 0 .. rule.within]
    /\ \A e, f \in episodes : e # f => e.of \cap f.of = {}
    /\ \A batch \in Range(todo) : batch.points \in Seq(Points) \ {<< >>}
    /\ turn \in [at : {"idle", "batch", "again", "first half", "second half"},
                 age : 0 .. rule.within, found : SUBSET Registers]
    /\ turn.at = "idle" <=> todo = << >>
    /\ list \in Seq(Points)
    /\ result \in [Points -> [outcome : Outcomes, retry : 0 .. rule.within]]
    /\ unit \in [lacks : Absences, holds : Holdings \union {None}]
    /\ zerosFor \in [Registers -> (0 .. rule.within) \union {None}]

\* Each point of a read has a result when the read returns, however its batches were halved
\* (_device.py:229-242, 508-516).
EveryPointAnswered ==
    turn.at = "idle" => \A p \in Range(list) : result[p].outcome # "none"

\* The times the rule gives, counted from the zeros, and last `within`.
IsReadingTime(time) ==
    \/ time = rule.within
    \/ time < rule.within /\ \E n \in 0 .. rule.within : time = rule.first + n * rule.gap

\* A point held back is asked for again at the times the rule gives, counted from the first
\* zeros, whatever was read in between (docs/design.md:790). Left out are points that share
\* registers: what is read of one may put those of the other into another episode.
ReadAgainOnTime ==
    \A p \in Points : \A e \in episodes :
        result[p].retry > 0 /\ Range(Spans[p]) \subseteq e.of /\ ~Shares(p)
            => IsReadingTime(e.age + result[p].retry)

\* A point is only taken for missing where the unit refused its own registers (_device.py:508-514).
MissingIsLacking ==
    [][\A p \in Points :
        result'[p].outcome = "missing" /\ result[p].outcome # "missing"
            => Range(Spans[p]) \cap unit.lacks # {}]_vars

\* The registers the host may read together in one request, more than one of them.
ReadTogether ==
    {registers \in
        UNION {{Range(Items(SubSeq(batch.points, i, j))) : i, j \in DOMAIN batch.points} :
                 batch \in UNION {Range(ReadRequests[points]) : points \in Lists}} :
        Cardinality(registers) > 1}

\* Of two such sets that have to do with a third, one lies in the other.
OneInTheOther ==
    \A A, B, C \in ReadTogether :
        A \intersect C # {} /\ B \intersect C # {} => A \subseteq B \/ B \subseteq A

\* Zeros take the place of values, in registers read together, only after nothing but zeros was
\* answered for one of them for the whole `within` (RereadZeros.within).  The code keeps this
\* within two limits only.  A host that reads two sets of registers apart and also together, or
\* two that overlap, has zeros taken sooner: values end one of their episodes, and registers
\* join another with its time (_device.py:348).  And values the first half of a last try brought
\* are dropped for zeros when the second brings none (_device.py:417), although `halves` says
\* they are taken (_device.py:60-63, docs/design.md:793).
KeptWithin ==
    [][OneInTheOther /\ turn.found = {} /\ turn.at # "idle" /\ last' # last
            /\ Cardinality(Asked) > 1 /\ (\A r \in Asked : last'[r] = 0)
        => \E r \in Asked : zerosFor'[r] = rule.within]_vars

Taken ==
    /\ Settled
    /\ \A p \in Points : Range(Spans[p]) \cap unit.lacks = {}
                            => \A r \in Range(Spans[p]) : last[r] = unit.holds[r]

\* Once the unit is left alone and answers, what it holds is what is taken in the end, zeros too
\* (docs/design.md:792-795).
Converges == Settled ~> []Taken
=============================================================================
