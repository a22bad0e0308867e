# Verification of modbus_event_connect

TLA+ modules, model-checking configurations and proofs for `modbus_event_connect`, a Python
asyncio library that reads and writes the points of heating and ventilation units over Modbus
or Micro Nabto and tells its host what changes. Paths below are relative to
`src/src/modbus_event_connect/`.

## The system

| Part | State it keeps | Operations | Talks to |
|---|---|---|---|
| `_client.py` `Client` | the resolved model, `_values`, what is missing and by whom it was found (`_missing_by_scan`, `_missing_by_read`), `_checks`, subscriptions | `connect`, `disconnect`, `poll`, `refresh`, `write`, `write_sequence`, `subscribe*`, `set_polling` | the write queue, a `Device`, the scheduler and the status board of `event_connect` |
| `_writes.py` `WriteQueue` | `_lock`, `_latest_setting`, `_in_flight`, `_writing`, `_changes`, the pulse tasks; per write `superseded`, `result`, `followers` | `write`, `write_sequence`, `cancel_pulses`, `marks`, `disturbed` | `Device.write`; calls the client back with what was taken and whether writes are pending |
| `modbus/_device.py` `ModbusDevice` | a breaker, a lock per register whose bits are written | `connect`, `disconnect`, `read`, `write` | the connection |
| `modbus/_connection.py` | a lock, a pymodbus client and its link | `request`, `open`, `close` | the network |
| `modbus/_access.py` | nothing: register numbers, ranges, addresses | pure | |
| `micro_nabto/_connection.py` | socket, session, sequence numbers, the exchange waiting for an answer | `open`, `request`, `close`, `discover` | the network |
| `micro_nabto/_device.py` | which points answered values, zeros that are read again | `read`, `write` | the connection |
| `micro_nabto/_wire.py`, `_conversion.py`, `_data_type.py` | nothing: packing and conversion | pure | |
| `_model.py`, `_point.py` | nothing: declarations, resolving a model against an identity | pure | |
| `testing/` | simulated devices for the tests of a model | | |

`event_connect` (`Scheduler`, `Passes`, `Reachability`, `StatusBoard`, `Subscriptions`,
`Breaker`, `Retry`) and pymodbus are dependencies whose source is not in the repository; they
are modelled from how they are used, and marked external.

What is hard here is not one call but several: asyncio runs one task at a time, from one
`await` to the next, and between two of them anything else may run, be cancelled or be
answered. `hazards` in `PROJECT.json` lists where that bites.

## Modules

### WriteQueue - `_writes.py`

Every call of `write()` and `write_sequence()`, and every task that returns a pulse to idle,
is an element of `Writes` with a place `pc` in its code: `unused`, `waiting` (for `_lock`),
`sending` (in `Device.write`), `pausing` (between two sendings), `following` (at `await
write.result`, overtaken), `asleep` (a pulse), `done`. An action is what one task does from one
`await` to the next. The value of a write is the write itself, so `register` (what the device
holds) and `held` (what the client was told) say whose value they are. The device may take a
value and the answer still be lost: `DeviceTakes` is a step of its own. It takes it while the value
is `sending` or not at all: a sending that was given up at its timeout is assumed not to land
later, since nothing in the queue would keep it behind a newer write.

Only commands pulse, as `Point` insists, so `Pulsed` has no settings. `write_sequence([])`, which
takes the lock, sends nothing and returns True, is left out (`Lists` has no empty list); a list may
name a key twice, and the one of `write_queue_overtaking` does.

Cancellation is asyncio's: `Cancel` marks the task, and the write notices at the await it is
in (`CancelledWaiting`, `CancelledHolding`, `CancelledFollowing`, `CancelledAsleep`).
`CancelPulses` is `disconnect()`. The lock is a FIFO (`asyncio.Lock`).

`WriteService` is the promise: writes are begun in an order, a write's values land in that
order, a setting may be left out in favour of a newer one of the same key and only then
returns the newer one's outcome. `GivesService` is the refinement: `order`, `landed`, `keys` and
`outcome` are the same variables; `setting` maps to what `_enqueue` may overtake.

### ClientReads - the client's reads, on top of WriteQueue

`ClientReads` extends `WriteQueue` with a pass of `poll()`: it takes marks, asks the device for
what is due and not being written (`PassReads`), the device reads key by key while writes go on
(`DeviceReads`), and `Publish` leaves out what `disturbed()` says was written to since. Then the
checks read what the scans read (`CheckReads`), whatever is written at the time. `Taken` is the
callback that shows a setting at once and schedules its read-back.

### ClientScan - what the unit has

The scan of `connect()` (`Identify`, `ScanScope`, `FirstRead`, `Commit`), the pass of `poll()`
with what it reads (`Read`) and its checks (`Check`), the scan of one instance again (`Rescan`,
`RescanFirst`), the events told at the end of each pass (`Tell`), and what may happen between
any two of these: the unit changes (`Change`), a write begins and ends, a subscription changes
what is polled, `refresh(PollRate.SCAN)`, now or `after` a while, a read fails, no model matches
the unit any more or the one that does contradicts itself (`Reject`), the host cancels the call. A
register answers `on`, `off` or `gone`, which is what the scans of a model tell apart; a scan marks
all of an instance missing when its probe is gone, and its sensors when it reads `off`. `world` is
what the unit answers now.

What a scan reads is up to the model and may depend on the answers, so `Probes` gives each scope
the sets of points its scan may read. One of them may be empty: such a scan leaves no check
(`Checked`), and one made again that reads nothing takes away the check there was. A scan is taken
to read points of its own scope, and its reads one after another are one step. `Scheduling` is
`set_scheduled_polling()`: each pass may find it on or off, as the host may set it at any time.
`owed` is not in the code: it is what the last read asked to be checked and has not been.

Writes are only `writing` and `disturbed` here, which is all this part of the client sees of
them. Two calls of `connect()` at once, and a `connect()` during a `poll()`, are not modelled.

### ModbusDevice - `modbus/_device.py` and `modbus/_connection.py`

Tasks use the devices of `Units` over one connection. A task has a record of where it is
(`at`), what it was asked (`job`), the requests it has left (`todo`) and what came of those
answered. It is at `bit` (waiting for a register's bit lock), `ready` (awaiting
`reconnect.ready()`), `line` (waiting for the connection's lock, or holding it while its request
is out) or `busy` (pausing before a read is sent again). asyncio runs a task until it waits:
while `turn` names a task at `ask` or `done`, which are not awaits, no other task steps, so a
turn of several steps is still one turn.

`line` and `bitLine` are the locks as FIFO queues. What happens between taking the connection's
lock and letting it go is one step, as nobody else can use the link meanwhile: `Answered`,
`GatewayGivesUp`, `CannotOpen`, `TimesOut` and `NoResponse` are the ways `request()` ends, each
with what becomes of the link. The breaker is updated in the same step, as there is no await in
between. A request that is not answered may have been done or not, but not later: one given up is
assumed not to reach the unit after the connection's lock is let go, when another task has it. An
error answer with a code that `_outcome()` has no outcome for, or with none, is `uncoded`, to reads
and writes; a unit that lacks a register (`Lacks`) answers reads and writes of it with
`illegal_address`.

`ModbusBatches` holds the grouping of spans into requests and the halving; a span stands for
the points that share it. What a register holds is a set of bits in the register that is
written, and its own table and address in those that are only read, so that a wrong offset
shows.

The breaker is `event_connect`'s, modelled from its use and the tests here: it opens after
`After` unanswered requests in a row, lets one probe through after a pause, is closed by any
answer and by `connect()`. Two things are assumed of it that no test shows: an unanswered
request from before it opened changes nothing, and `postpone()` does nothing to a breaker
closed meanwhile. pymodbus is assumed to discard the reply to a cancelled request.

### NabtoConnection - `micro_nabto/_connection.py`

Tasks open a session over UDP and send commands through it. A task is `idle`, waits for or holds
the lock at `line`, or is at one of the awaits inside: `ready` (`reconnect.ready()`), `endpoint`
(opening the socket), `discover`, or `exchange` (waiting for an answer). `line` is `_lock` with
those who wait for it, and `exchange` what `_exchange()` keeps: the request, its sequence number,
how often it was sent, whether the unit acknowledged it, and the answer in its future. Its `phase`
is the wait it is in: `wait` (`timeout`), `acknowledged` (`answer_timeout`), `later`
(`later_answer_wait`). `conn` is the connection's own state with the breaker, `session` whether the
unit knows the client.

A step goes from one await to the next, so each ends in one of `Goes` (another await), `Returns`
(the call ends, the next has the lock) or `Exchanges` (a request is sent), and the code between
(`Establish`, `Try`, `Handshake`, `HandshakeFails`, `NotAnswered`, `Data`, `Ends`) chooses which.
`Close` takes no lock, as in the code, and `Cancel` may come at any await. `close()` also ends a
session whose transport is gone. Opening the endpoint may raise (`EndpointFails`), which leaves the
call, with the breaker as it was. In `later` the exchange keeps its `first` answer, and `Later` is
what `_later_answer()` makes of the two: the later one if it holds values, otherwise the first.

`air` holds the request last sent with each number. Whatever the unit makes of it may come once,
twice, late or never, until that number is used again: a datagram is assumed not to outlive a
round of the numbers (65535 in the code). Times are not measured; any wait may end before an
answer that is on its way. After `Settle` an answer that can come does so in time.

### NabtoDevice - `micro_nabto/_device.py`

`read()`: batches by register space and `max_registers` (`ReadRequests`), halving of a batch that
is refused (`Refused`), and the zeros that may stand for nothing. An episode is the set of
registers it is open for with its age; `Checked`, `Held`, `ReadAgain` and the two steps of
`_last_try()` are what becomes of an answer. A value is 0 or 1, for anything else. Until `Settle`
the unit may hold anything at each answer; `zerosFor` is not in the code: it measures for how long
a register, read together with others, has been answered nothing but zeros.

A request and its answer are one step here, and `NabtoConnection` is what lies between them: its
`AnswersItsOwn` is why an answer here is to the batch asked for, and its `Later` why an answer
marked `setAside` in `BatchAnswers` has values, which `_checked()` takes unchecked. A batch is
`refused` only where the unit lacks one of its registers. The code takes any answer with a wrong
count of words for that (`_device.py:489-505`); a unit is assumed to give one for no other reason.
`rule.first` and `rule.gap` are what `wait` gives; `write()` keeps nothing and `configure()` is
taken as done.

## Runs

Bounds are named constants: `MaxSends`, `MaxFailures`, `MaxChanges`, `MaxConnects`,
`MaxCancels`, and the constraint `FewEvents` of `client_scan`, which leaves out histories in which
all of these reach their bounds. Deadlock is not checked where a host that calls nothing leaves the client with
nothing to do.

| Run | Question | Bounds |
|---|---|---|
| `write_queue_overtaking` | Do overtaking, refusal, cancellation and sequences keep one write at a time, the counters, the outcomes, and the order of `WriteService`? | see the cfg: enough calls that one overtakes, one follows and one waits behind both; a sequence that writes a key twice over |
| `write_queue_fair` | Does every write end, and a pulse return? Is what the client was told what the device holds? | two calls on a setting and a pulsed command, or the sequence of both, so that the command is pulsed twice and two returns to idle queue up |
| `write_queue_cancelled` | Does an overtaken setting return, as documented? (No: a finding.) | |
| `client_reads` | Can a read undo a write, or a value be neither shown nor due? | two calls, two keys, one failed read each |
| `client_read_back` | Is a command read back in the end? | two calls on one command, one failed read, checks on the same register |
| `client_scan` | Do records, events, values and polling stay in step, and is what is found gone checked? | one zone, whose scan may read nothing, and a section only one version has; the schedule on and off; one change, one failed answer, one cancellation, two connects, and four of these five |
| `client_changes` | Is a change found while polling? | two zones; two changes, so one may undo the other between two reads; one unanswered read |
| `client_values` | Does `values` hold only keys the unit has, as documented? (No: a finding.) | one write across one whole rescan |
| `modbus_device` | Do concurrent bit writes keep each other's bits? Does each point read have its own words or the right outcome? Is a write reported as what was done? | two bits of one register, two tasks; sets of points that overlap, touch, leave a gap and lie in two tables, three sets of absent registers, one of which is written too; busy, uncoded and unanswered requests; a read is tried twice, the breaker opens at once |
| `modbus_recovery` | Does every call return, and does the device recover once nothing disturbs it? | three tasks, so one holds a lock, one waits and one is cancelled or disconnects; two unanswered requests open the breaker |
| `nabto_connection` | Does each call return what was answered to it, does it return at all, does a failed handshake hold the next one back, and does the session come back? | a task that opens and reads, which may be cancelled, and one that writes; one resend, two sequence numbers, so one is used again while the other is out; `reconnect` never or always |
| `nabto_device` | Does each point have its outcome? Are values kept as long as the rule says, read again in time, and real zeros taken in the end? | a point of two registers alone and read with one of one, and one of another space; three registers fit a batch, so one more would not; held for 3 s with `wait` 1 s then 2 s, or `TAKE_ZEROS`; a unit that has all registers or lacks one |

Each bound admits the case its properties are about; larger ones repeat it. Calls are
symmetric in `client_reads`.

### Fairness

`FairSpec` of the write queue: a task that can go on does (the event loop runs every ready
task), the lock is granted, a sending is answered or times out, a pause ends. Nothing is
assumed of the host: calls may never be made, cancelled or not. `ClientFairSpec` adds that the
host keeps calling `poll()`, that time passes, and that a read is answered or times out.
`FairSpec` of `ModbusDevice` is strong fairness of each task: a task that is ready to run is
often held up by others having their turn, and asyncio's queue of ready tasks is FIFO. It
includes that a request ends (pymodbus's timeout, and the guard of twice that around it), that
`reconnect.ready()` returns, and that a task which returned is called again. `settled` marks
the point from which nothing disturbs the network or the units; nothing makes it come, and
`Recovers` says what follows if it does.
`FairSpec` of `NabtoConnection` is weak fairness of the event loop as a whole (what holds the lock
goes on, or a datagram arrives), of the breaker's pause, and of each task's next call: as the
lock is FIFO and an exchange ends by its timeouts, no task needs more. `Recovers` is for
`reconnect` = `"always"`, from `settled` on, as in `ModbusDevice`. `FairSpec` of `NabtoDevice` is
weak fairness of the read under way and of the clock, and strong fairness of reading every point:
the host may ask for other points in between, but does ask for all of them again and again.
`FairSpec` of `ClientScan` says the same of its reads, and that checks come due.

## Proofs - WriteQueueProofs

For any calls, keys, settings, pulses and sequences (`WriteQueueAssumption` only):

- `TypeCorrect`: `Spec => []TypeOK`. `TypeOK` is inductive with the assumption alone.
- `MutualExclusion`: `Spec => []OneAtATime`. Inductive with `TypeOK`: each action moves
  a write into a place that holds the lock exactly as it takes the lock.
- `AccountingCorrect`: `Spec => []Accounting`. `inFlight` and `writing` are compared with
  cardinalities of sets of writes, so the proof is about adding and taking away the places of
  one write (`BeginsCounted`, `EndsCounted`, `PlacesOfOne`). `Accounting` is not inductive: an
  idle write may only be begun by the call that pulsed it, once, so the invariant is `CountsInv`,
  which adds `IdleAfterCall` (the idle write has begun no earlier than its call has pulsed) and
  that the sets counted are finite.

## Proofs - NabtoConnectionProofs

For any tasks, jobs, commands, retries and sequence numbers (`NabtoConnectionAssumption` only):

- `NabtoTypeCorrect`: `Spec => []TypeOK`.
- `OwnAnswers`: `Spec => []AnswersItsOwn`.
- `HandshakesHeldBack`: `Spec => HeldBack`: a handshake that ends a call without an answer leaves
  the breaker holding the next one back (`HandshakingHeld`), and none is begun while it does.

None of them is inductive. The invariant `IInv` adds that only the first of the line is anywhere
but `idle` or `line` (`Holder`); that the exchange under way is its own, asks for what it was called
for, that both answers it may keep are to it, and that what is in the air with its number is its own
request or nothing (`Own`); and that a
task looks for an endpoint or the unit, or shakes hands, only while the breaker allows it
(`Allowed`). `Own` is where a number used for one request at a time matters: `Exchanges` replaces
what was in the air with it. As every step of the task that has the lock ends in `Goes`, `Returns`
or `Exchanges`, the proof is three lemmas about those (`GoesKeeps`, `ReturnsKeeps`,
`ExchangesKeeps`), one for each part of the code that leads to one of them up to `EndsKeeps`, and
one per action; `SameLineKeeps` serves those that leave tasks and line alone. `CancelKeeps` is the
other one that matters: a cancelled task takes its exchange with it, wherever in the line it is.

## Proofs - WriteOrderProofs

The order of the writes and what is known of it, on top of `WriteQueueProofs`:

- `HeldIsRight`: `Spec => []HeldIsTaken`.
- `NotResent`: `Spec => OvertakenNotResent`.
- `QueueGivesService`: `Spec => GivesService`, the refinement: initial states map to initial states,
  and each step to one of `WriteService` or to none.
- `ToldUnlessCancelled`: `Spec => OrphanedByCancelOnly`.

Every step of the queue is one of a few as far as these are concerned: a write joins
(`Joins`), one finishes (`Finishes`), is told to the client, or moves on; `StepKinds` says so once,
and the rest is proved of the kinds. `QueueInv` adds to the invariants above:
`ProgressInv` (how far each write is), `LineInv` (writes wait in the order they were begun, and the
device has nothing of those begun after one in line), `FollowInv` (a result is passed on from a newer
setting of the same key only) and `KnownInv` (what the device holds and the client does not know of is
the value being sent, or that of a write that ended without an OK). `HeldIsTaken` is not inductive
without them: it says nothing of a value that has landed while its write is still being sent.
`OrphanedByCancelOnly` is proved step by step: who overtakes a setting takes over those that were
to be told of it (`JoinsKeepsTellers`), and who ends tells them (`TellsFollowers`).

## Proofs - ClientReadsProofs

- `ClientTypeCorrect`: `ClientSpec => []ClientTypeOK`.
- `ShownOrReadAgain`: `ClientSpec => []ShownOrAsked`.
- `NothingUndone`: `ClientSpec => NeverUndone`.

They rest on `QueueInv`, as what is shown is compared with the writes. `RegisterInv` ties what the
device holds to the writes that landed, and `ShownInv` says that an answer whose key the marks
say was not touched is still what the device holds. This is what `marks` and `disturbed` are for:
the counters of a key move with every value that can reach the device (`CountersMove`).

## Proofs - ClientScanProofs

For any points, scans, sections and probes (`ClientScanAssumption` only):

- `ScanTypeCorrect`: `Spec => []TypeOK`.
- `RecordIsOfCheck`: `Spec => []RecordFollowsCheck`.
- `ToldAddsUp`: `Spec => []EventsAddUp`.
- `PolledFollows`: `Spec => []PollingFollows`.
- `GoneMeansCheck`: `Spec => []GoneIsChecked`.
- `LostShowsNothing`: `Spec => []LostIsMissing`.

`TypeInv` is the types with where a pass is (`PassInv`), what the scan under way has found so far
(`FoundInv`) and what is recorded (`RecordInv`); the other invariants follow in the order of the
theorems, each on top of those before (`SeenInv`, `PolledInv`, `GoneInv`, `OwedInv`, `FreshInv`,
`ForeignInv`, `AskedInv`, `GainedInv`, `LostInv`). `GoneIsChecked` rests on nothing that is said of
the probes: where a scan read nothing there is no check to ask for. `OwedInv` is that the checks a read
asked for are among those the pass has still to make, and that the one whose scan is under way is
asked for no more; so they are made, one after another, before the pass is over, unless it is
cancelled or raises. The scopes of a pass are checked in an order; that each set of them has a
first is the one fact proved with `WellFoundedInduction`.

`LostIsMissing` leaves out three cases the proof attempts and their counterexamples showed. A second
`connect()` that finds a point gone tells nobody and leaves its value. A `poll()` cancelled in the
second read of a rescan has stored what the instance lost but goes on polling it, so its points
come back `good` although subscribers were told they are missing (`_client.py:212`, against README.md:616-617
of the repository). A write under way while the model chosen drops its point is still shown.

## Proofs - ModbusDeviceProofs

For any tasks, units, registers, jobs and answers (`ModbusDeviceAssumption` only):

- `DeviceTypeCorrect`: `Spec => []TypeOK`, with both locks' lines.
- `ConfirmedBitsHold`: `Spec => []BitsKept`.
- `WritesReported`: `Spec => []ReportedAsDone`.
- `BitLocksHeldByOne`: `Spec => []OneWritesBack`, the mutual exclusion `BitsKept` rests on.

`BitsKept` is far from inductive. The invariant is `DeviceInv`: the lines of the locks hold the tasks
that wait for them and no others (`LineInv`, `BitLineInv`; `AppendLined`, `TailLined` and `RemovedLined`
say what coming, leaving and being cancelled do to a line), only the first in a bit lock's line is past
`bit`, the unit's registers hold bits (`UnitInv`), each task's requests left are those of its job
(`TaskInv`), and what a task is about to write back agrees with every bit promised of the
register but its own (`BackInv`). The last holds as nobody else writes the register
back between the read and the write, a unit with mask writes has nobody writing back, and a write of
the whole register promises nothing of its bits. The five ways a request ends are
proved with one lemma (`EndsKeeps`).

- `ReadsAnswerEachPoint`: `Spec => []EachItsOwn`.
- `ReadsAskForNoMore`: `Spec => []AsksOnlyWhatIsRead`.

These rest on what the batches are, for any finite set of spans: `OrderedIs` (the spans by rank leave
none out, as ranks are an injection between sets of one size: `RankIs`, `Onto`), `BatchesAre` (by
induction over the spans in order; `JoinedIsRead` is the step), `RequestsAre` and `HalvesAre`. The
invariant is `ReadInv` on top of `DeviceInv`: what a read still asks for (`Requested`: sound requests,
each within the limit of its table or for one span) and the spans it has results of are its job's,
each result its span's own words, or missing for an address of its own (`AnswerIs`), and nothing is
asked any more exactly when it is done. `HalvesAre` is why the limit holds in the halves, which are
grouped with the length of the refused request as their limit, and why a span alone is refused at last.
The span's place in the values is `WordsAre`.

## Proofs - NabtoDeviceProofs

For any points, registers, lists, rules and units (`NabtoDeviceAssumption` only; a list names a
point once, as the keys of a model are unique):

- `TypeCorrect`: `Spec => []TypeOK`, with no two episodes sharing a register.
- `ReadsAnswerEveryPoint`: `Spec => []EveryPointAnswered`.
- `HeldBackReadOnTime`: `Spec => []ReadAgainOnTime`.
- `MissingOnlyIfLacking`: `Spec => MissingIsLacking`.

Half of the module is what the recursive functions of the model return. `BySpace`, `Batches` and
`NextRetry` are functions of a number defined from the number before (or after). `Recursion` has the
lemmas both device proofs use for these: `Recursive` says such a function exists, `UpTo` is
induction over it, both from `NatLessThanWellFounded` and `WFMin` with sets in place of operators as
parameters, and `Flattened` says what `FlattenSeq` returns. On them rest `RequestsAre` (the batches of a
list have each of its points once, with its registers), `HalvesAre` (so have the halves of a batch)
and `NextRetryIs` (what is given is 0 or brings the age to a time of the rule).

The invariant is `NabtoInv`: the types, that the batches still to be read name each point once, that a
point of the list is either among them or has an outcome (`ReadInv`), and that the points among them
are not held back. `EpisodesMove` is what every step does to the episodes at most: registers that
are not asked for stay together, in an episode of the age they had. With it `DoneKeeps` and
`AsksAgainKeeps` serve all four requests of a read. `ReadAgainOnTime` leaves out points that
share registers with another: reading that one moves their registers into its episode, whose
age is another, while the time they were told stays.

`KeptWithin` is not a theorem and stays with TLC. It states two limits the code has. A host that reads
two sets of registers both apart and together, or two that overlap, has episodes whose zeros go back
further than their age (the hazard at `_device.py:348`); `OneInTheOther` says of the constants that
the lists ask for no such sets. And nothing is said once the first half of a last try has brought
values, which may be dropped (the hazard at `_device.py:417`).

## What is not proved

Liveness (`FairSpec` and its like) and `ENABLED` are TLC's: `EveryWriteEnds`, `PulseReturns`,
`ReadBackComes`, `ChangesFound`, `EveryCallReturns`, `Recovers`, `Converges` and the like. So is
`KeptWithin`; every other safety property of the passing runs is a theorem.

## What is not covered, and the plan

1. `write()` of the Micro Nabto device, and its `configure()` against a unit of another model.
2. Pure operators, without `RECURSIVE`, checked over bounded inputs and partly proved:
   register numbering, word order and two's complement, overlap of points.
3. Proofs: `KeptWithin`, within the limits it states.
4. `ClientScan` with a `connect()` during a `poll()`; `ChangesFound` with identity points, which
   does not hold as it stands (the hazard at `_client.py:226`).

Left out: `testing/` (simulators for tests), the datagrams of discovery (only whether the
unit is found, and where), logging, diagnostics and live tests (pure I/O), and `event_connect` itself.
`on_change` and `on_write` triggers only ask for more reads of other points.

Met while modelling, and no run:

- An unanswered read in a rescan changes what the unit has: the points of its first half are gained
  although the second went unanswered (`_client.py:212`), against README.md:615 of the repository.
- A request that waits for the connection's lock is sent although the device is backed off
  meanwhile (`modbus/_device.py:345`), against README.md:197 of the repository.
- At the end of an episode of zeros the values of the first half are dropped when the second half
  brings none (`micro_nabto/_device.py:417`), although `halves` says values that come are taken
  (`micro_nabto/_device.py:60-63`, docs/design.md:793). `KeptWithin` leaves this out.
- Registers read together and alone may end up in two episodes; values for the batch end the first
  it finds, and the other's old time then counts for new zeros (`micro_nabto/_device.py:348`).
  `KeptWithin` does not hold for a host that reads two sets apart and together, or two that overlap,
  so it is stated for hosts that read one set inside the other (`OneInTheOther`), as that of the run.
- A pass that is cancelled or raises gives up the checks a point found gone asked for: the request is
  cleared before they are made (`_client.py:541-543`). On the schedule they are made at the next
  pass; without it nobody makes them until `refresh(PollRate.SCAN)`.
- A point found gone whose scan read nothing has no check to ask for (`_client.py:642-643`): it is
  not read again until something else has the unit scanned again.
- `close()` takes no lock, so a request that is waiting establishes the session anew afterwards
  (`micro_nabto/_connection.py:247`).
- A refused e-mail does not open the breaker (`micro_nabto/_connection.py:401-402`), so the next
  request shakes hands again and is refused again, although the docstring has a device not asked
  again "after a failed handshake" until `reconnect` says (`micro_nabto/_connection.py:122-123`, and
  README.md:198-200 of the repository). `HeldBack` leaves this case out, and says so, with an endpoint
  that cannot be opened and a cancellation.
