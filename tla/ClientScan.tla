----------------------------- MODULE ClientScan -----------------------------
(***************************************************************************)
(* What a unit has, and how a client finds out (_client.py): the scan of   *)
(* connect(), the checks of what it read within poll(), the scan again     *)
(* where that has changed, and what the consumers are told.                *)
(*                                                                         *)
(* A register answers "on" or "off" (two values a scan tells apart), or is *)
(* "gone" (MISSING). A read also comes back "silent" (NO_ANSWER, BUSY) or  *)
(* "error". An action is what the client does from one await to the next;  *)
(* every answer of one read() call is taken at the moment it returns.      *)
(***************************************************************************)
EXTENDS Integers, Sequences, FiniteSets

CONSTANTS
    Points,        \* every point the models of the device declare, all of them readable
    States,        \* what the register of each point may answer
    Order,         \* the scans in the order they run: the whole unit's, then each instance's
    ScopeOf,       \* the scan that decides whether the unit has a point
    Probes,        \* the sets of points each scan may read: what it reads depends on the answers
    Sensors,       \* those a scan marks missing when its probe reads "off"
    IdentityPoints,  \* what chooses among the model's sections
    Extra,         \* the points of the section for a unit whose identity reads "on"
    Wanted,        \* the points a consumer may want polled
    Writable,      \* the settings the host writes
    Scheduling,    \* set_scheduled_polling(): whether the checks may run on the schedule
    Rejectable,    \* whether no model may match the unit any more, or the one that does be wrong
    Failing,       \* how a read may fail: "silent", "error"
    MaxConnects, MaxChanges, MaxFailures, MaxCancels   \* bounds on what happens

Scopes == {Order[i] : i \in DOMAIN Order}
Unit == Order[1]

\* The first of `ss` to be scanned, or checked.
First(ss) ==
    Order[CHOOSE i \in DOMAIN Order :
            Order[i] \in ss /\ \A j \in DOMAIN Order : Order[j] \in ss => i <= j]

ClientScanAssumption ==
    /\ Order \in Seq(Scopes) \ {<< >>}
    /\ States \in [Points -> SUBSET {"on", "off", "gone"}]
    /\ ScopeOf \in [Points -> Scopes]
    /\ Probes \in [Scopes -> SUBSET SUBSET (Points \ Extra)]
    /\ \A s \in Scopes : \A ps \in Probes[s] : \A p \in ps : ScopeOf[p] = s
    /\ IdentityPoints \subseteq Points \ Extra
    /\ Sensors \subseteq Points /\ Wanted \subseteq Points /\ Writable \subseteq Points
    /\ Scheduling \subseteq BOOLEAN /\ Rejectable \in BOOLEAN
    /\ Failing \subseteq {"silent", "error"}
    /\ {MaxConnects, MaxChanges, MaxFailures, MaxCancels} \subseteq Nat

ASSUME ClientScanAssumption

VARIABLES
    world,      \* what the register of each point answers now
    identity,   \* _resolved.identity: what the identity points read
    resolved,   \* _resolved.points: those of the model chosen for this unit; none before a scan
    byScan,     \* _missing_by_scan
    byRead,     \* _missing_by_read
    checkRead,  \* _checks: what each scan read, as it read it; nothing where there is no check
    checkDue,   \* the checks that are due
    requested,  \* _checks_requested
    wanted,     \* the points subscribed to, or polled without that (_should_poll)
    polled,     \* the points that take part in scheduling
    values,     \* the quality of what the client shows for each point
    seen,       \* the points the consumer knows: those after connect(), then what it was told
    writing,    \* the points being written
    disturbed,  \* those written to since the marks of the read under way were taken
    op,         \* "connect" or "poll"
    stage,      \* what it waits for
    before,     \* _pass: the points the unit had when the pass began
    todo,       \* the checks this pass has still to make, with the one it is at: their First
    asked,      \* the points that are read
    scan,       \* the scan under way: its points, the scans left, what they found and read
    interrupted,  \* history: a poll() was cancelled while it read what an instance now has
    owed,       \* history: the checks the last read asked for that have not been made
    connects, changes, failures, cancels   \* how often that happened

memoryVars == <<identity, resolved, byScan, byRead, checkRead>>
taskVars == <<op, stage, before, todo, asked, scan>>
boundVars == <<connects, changes, failures, cancels>>
vars == <<world, memoryVars, checkDue, requested, wanted, polled, values, seen, writing, disturbed,
          taskVars, interrupted, owed, boundVars>>

-----------------------------------------------------------------------------
Missing(bs, br) == (UNION {bs[s] : s \in Scopes}) \union br

\* _unavailable, which every change of the two records it is made of brings up to date.
Unavailable == Missing(byScan, byRead)

Available == resolved \ Unavailable

\* The keys of _checks: a scan that read nothing leaves no check.
Checked == {s \in Scopes : DOMAIN checkRead[s] # {}}

\* resolve(): the points of the sections that apply to the identity.
Variant(id) == IF \A p \in IdentityPoints : id[p] = "on" THEN Points ELSE Points \ Extra

\* What the scan step of `s` marks missing among `points`, from what it read of them: all of
\* an instance that is not set up, the sensors of one that is a dummy.
Lacking(s, points, read) ==
    LET own == {p \in points : ScopeOf[p] = s}
        Reads(answer) == \E p \in DOMAIN read : ScopeOf[p] = s /\ read[p] = answer IN
    IF Reads("gone") THEN own ELSE IF Reads("off") THEN own \intersect Sensors
    ELSE {}

\* Every way the device may answer a read of `ps`.
Answers(ps) ==
    {a \in [ps -> {"on", "off", "gone"} \union Failing] : \A p \in ps : a[p] \in {world[p]} \union Failing}

Failed(a) == Cardinality({p \in DOMAIN a : a[p] \in {"silent", "error"}})

\* The bound on failed answers.
Counted(a) ==
    /\ failures + Failed(a) <= MaxFailures
    /\ failures' = failures + Failed(a)

Unanswered(a) == \E p \in DOMAIN a : a[p] = "silent"

Definitive(a) == \A p \in DOMAIN a : a[p] \notin {"silent", "error"}

\* _data_value(): what is shown for an answer. A failed read keeps the value, as stale.
Quality(answer) ==
    CASE answer \in {"on", "off"} -> "good"
      [] answer = "gone" -> "missing"
      [] OTHER -> "stale"

\* What has been read by now: `a`, and what was read before.
Also(a, read) == [p \in DOMAIN a \union DOMAIN read |-> IF p \in DOMAIN a THEN a[p] ELSE read[p]]

\* What the scan of `s` read of that.
OfScan(s, read) == [p \in {q \in DOMAIN read : ScopeOf[q] = s} |-> read[p]]

\* _publish() leaves a point that was written to meanwhile as it is.
Published(shown, ps, a) ==
    [p \in Points |-> IF p \in ps \ disturbed THEN Quality(a[p]) ELSE shown[p]]

Gone(ps, a) == {p \in ps \ disturbed : a[p] = "gone"}

NoScan == [identity |-> << >>, points |-> {}, left |-> {}, found |-> [s \in Scopes |-> {}],
           read |-> << >>]

Init ==
    /\ world \in [Points -> {"on", "off", "gone"}]
    /\ \A p \in Points : world[p] \in States[p]
    /\ identity = [p \in IdentityPoints |-> "none"]
    /\ resolved = {} /\ byRead = {} /\ checkDue = {} /\ wanted = {} /\ polled = {} /\ seen = {}
    /\ byScan = [s \in Scopes |-> {}]
    /\ checkRead = [s \in Scopes |-> << >>]
    /\ requested = FALSE
    /\ values = [p \in Points |-> "none"]
    /\ writing = {} /\ disturbed = {}
    /\ op = "poll" /\ stage = "idle" /\ before = {} /\ todo = {} /\ asked = {}
    /\ scan = NoScan
    /\ interrupted = FALSE /\ owed = {}
    /\ connects = 0 /\ changes = 0 /\ failures = 0 /\ cancels = 0

-----------------------------------------------------------------------------
\* The unit is changed by hand, or fails.
Change(p) ==
    /\ changes < MaxChanges
    /\ \E state \in States[p] \ {world[p]} : world' = [world EXCEPT ![p] = state]
    /\ changes' = changes + 1
    /\ UNCHANGED <<memoryVars, checkDue, requested, wanted, polled, values, seen, writing, disturbed,
                   taskVars, interrupted, owed, connects, failures, cancels>>

\* write(): the key is being written from here on.
WriteBegins(p) ==
    /\ p \in Writable \intersect Available
    /\ p \notin writing
    /\ writing' = writing \union {p}
    /\ disturbed' = disturbed \union {p}
    /\ UNCHANGED <<world, memoryVars, checkDue, requested, wanted, polled, values, seen, taskVars,
                   interrupted, owed, boundVars>>

\* _taken(), when the device took the setting: it is shown unless it is recorded missing.
WriteEnds(p) ==
    /\ p \in writing
    /\ writing' = writing \ {p}
    /\ disturbed' = disturbed \union {p}
    /\ \/ values' = [values EXCEPT ![p] = IF p \in Unavailable THEN @ ELSE "good"]
       \/ UNCHANGED values
    /\ UNCHANGED <<world, memoryVars, checkDue, requested, wanted, polled, seen, taskVars,
                   interrupted, owed, boundVars>>

\* Mutant: a point is polled whether or not the unit has it.
SetPollingUnread(p) ==
    /\ p \in Wanted
    /\ wanted' = IF p \in wanted THEN wanted \ {p} ELSE wanted \union {p}
    /\ polled' = IF p \in wanted' THEN polled \union {p} ELSE polled \ {p}
    /\ UNCHANGED <<world, memoryVars, checkDue, requested, values, seen, writing, disturbed,
                   taskVars, interrupted, owed, boundVars>>

\* subscribe(), its unsubscriber and set_polling().
SetPolling(p) ==
    /\ p \in Wanted
    /\ wanted' = IF p \in wanted THEN wanted \ {p} ELSE wanted \union {p}
    /\ polled' = IF p \in wanted' \intersect Available THEN polled \union {p} ELSE polled \ {p}
    /\ UNCHANGED <<world, memoryVars, checkDue, requested, values, seen, writing, disturbed,
                   taskVars, interrupted, owed, boundVars>>

CheckComesDue(s) ==
    /\ s \in Checked \ checkDue
    /\ checkDue' = checkDue \union {s}
    /\ UNCHANGED <<world, memoryVars, requested, wanted, polled, values, seen, writing, disturbed,
                   taskVars, interrupted, owed, boundVars>>

\* refresh(PollRate.SCAN), at the moment the checks it asks for come due: at once, up to the
\* poll() it makes, or `after` a while, when some may have been made or replaced meanwhile.
RefreshScan ==
    /\ resolved # {}
    /\ requested' = TRUE
    /\ \E ss \in SUBSET Checked : checkDue' = checkDue \union ss
    /\ UNCHANGED <<world, memoryVars, wanted, polled, values, seen, writing, disturbed, taskVars,
                   interrupted, owed, boundVars>>

-----------------------------------------------------------------------------
\* Mutant: the consumers of the points are told, the subscribers of a lost one are not.
TellOnlyPoints(shown) ==
    LET lost == before \ Available'
        gained == Available' \ before IN
    /\ stage' = "idle" /\ todo' = {} /\ asked' = {} /\ scan' = NoScan
    /\ values' = shown
    /\ seen' = (seen \ lost) \union gained
    /\ UNCHANGED <<op, before>>

\* The end of a pass, however it ends: _tell_points() compares with what the unit had when
\* it began. What it lost is shown as missing.
Tell(shown) ==
    LET lost == before \ Available'
        gained == Available' \ before IN
    /\ stage' = "idle" /\ todo' = {} /\ asked' = {} /\ scan' = NoScan
    /\ values' = [p \in Points |-> IF p \in lost \intersect resolved' THEN "missing" ELSE shown[p]]
    /\ seen' = (seen \ lost) \union gained
    /\ UNCHANGED <<op, before>>

\* The loop of _run_checks(), at the next of its checks: it is not due again before its
\* interval has passed, whatever comes of it.
NextCheck(shown, dueNow, rest) ==
    \/ /\ rest = {}
       /\ checkDue' = dueNow
       /\ Tell(shown)
    \/ /\ rest # {}
       /\ checkDue' = dueNow \ {First(rest)}
       /\ stage' = "checking" /\ todo' = rest /\ asked' = {} /\ scan' = NoScan
       /\ values' = shown
       /\ UNCHANGED <<op, before, seen>>

\* The checks a pass may make, of those that are due: all when they were asked for, and
\* otherwise as the host has set_scheduled_polling() at that moment.
DueChecks(dueNow, now) == {IF now \/ scheduled THEN dueNow ELSE {} : scheduled \in Scheduling}

\* A scan that raises CannotConnectError: connect() raises it, poll() goes on.
ScanFails ==
    /\ UNCHANGED <<memoryVars, polled>>
    /\ \/ /\ op = "connect"
          /\ stage' = "idle" /\ scan' = NoScan
          /\ UNCHANGED <<checkDue, values, seen, op, before, todo, asked>>
       \/ /\ op = "poll"
          /\ NextCheck(values, checkDue, todo \ {First(todo)})

-----------------------------------------------------------------------------
\* connect(), once the device has been reached.
Connect ==
    /\ stage = "idle"
    /\ connects < MaxConnects
    /\ connects' = connects + 1
    /\ op' = "connect" /\ stage' = "identify" /\ scan' = NoScan
    /\ disturbed' = writing
    /\ UNCHANGED <<world, memoryVars, checkDue, requested, wanted, polled, values, seen, writing,
                   before, todo, asked, interrupted, owed, changes, failures, cancels>>

\* _identify() and resolve(): the sections this unit has. What an identity point read
\* before stands, for a check, when it has no value now.
Identify ==
    /\ stage = "identify"
    /\ \E a \in Answers(IdentityPoints) :
        LET id == [p \in IdentityPoints |-> IF Quality(a[p]) = "good" THEN a[p]
                                            ELSE IF op = "poll" THEN identity[p] ELSE "none"] IN
        /\ Counted(a)
        /\ \/ Unanswered(a) /\ ScanFails
           \/ /\ ~Unanswered(a)
              /\ scan' = [NoScan EXCEPT !.identity = id, !.points = Variant(id), !.left = Scopes]
              /\ stage' = "scanning"
              /\ UNCHANGED <<memoryVars, checkDue, polled, values, seen, op, before, todo, asked>>
    /\ UNCHANGED <<world, requested, wanted, writing, disturbed, interrupted, owed, connects,
                   changes, cancels>>

\* No model matches the unit any more, or the one that does contradicts itself, in its
\* sections or in what the scan of an instance marks: poll() and connect() raise.
Reject ==
    /\ Rejectable /\ stage \in {"identify", "scanning", "rescan"}
    /\ owed' = {}
    /\ UNCHANGED <<memoryVars, polled, checkDue>>
    /\ \/ op = "poll" /\ Tell(values)
       \/ /\ op = "connect"
          /\ stage' = "idle" /\ scan' = NoScan
          /\ UNCHANGED <<values, seen, op, before, todo, asked>>
    /\ UNCHANGED <<world, requested, wanted, writing, disturbed, interrupted, boundVars>>

\* _run_scan() of the next scope: what an earlier one read is not read again.
ScanScope ==
    LET s == First(scan.left) IN
    /\ stage = "scanning"
    /\ \E ps \in Probes[s] : \E a \in Answers(ps \ DOMAIN scan.read) :
        /\ Counted(a)
        /\ \/ Unanswered(a) /\ ScanFails
           \/ /\ ~Unanswered(a)
              /\ scan' = [scan EXCEPT !.read = Also(a, @), !.left = @ \ {s},
                                      !.found[s] = Lacking(s, scan.points, Also(a, scan.read))]
              /\ stage' = IF scan.left = {s} THEN "first" ELSE "scanning"
              /\ UNCHANGED <<memoryVars, checkDue, polled, values, seen, op, before, todo, asked>>
    /\ UNCHANGED <<world, requested, wanted, writing, disturbed, interrupted, owed, connects,
                   changes, cancels>>

\* _commit() and the _publish() after it: nothing of the scan before is left.
Commit(a) ==
    LET read == Also(a, scan.read)
        readable == scan.points \ Missing(scan.found, {})
        kept == [p \in Points |-> IF p \in scan.points THEN values[p] ELSE "none"] IN
    /\ identity' = scan.identity /\ resolved' = scan.points
    /\ byScan' = scan.found
    /\ byRead' = Gone(readable, read)
    /\ checkRead' = [s \in Scopes |-> OfScan(s, scan.read)]
    /\ checkDue' = {} /\ owed' = {}
    /\ polled' = wanted \intersect Available'
    /\ \/ op = "poll" /\ Tell(Published(kept, readable, read))
       \/ /\ op = "connect"
          /\ values' = Published(kept, readable, read)
          /\ seen' = Available'
          /\ stage' = "idle" /\ scan' = NoScan
          /\ UNCHANGED <<op, before, todo, asked>>

\* The rest of what the unit has is read once, and only then is anything changed.
FirstRead ==
    /\ stage = "first"
    /\ \E a \in Answers(scan.points \ (Missing(scan.found, {}) \union DOMAIN scan.read)) :
        /\ Counted(a)
        /\ \/ Unanswered(a) /\ ScanFails /\ UNCHANGED owed
           \/ ~Unanswered(a) /\ Commit(a)
    /\ UNCHANGED <<world, requested, wanted, writing, disturbed, interrupted, connects, changes,
                   cancels>>

-----------------------------------------------------------------------------
\* poll(): it reads what is due and not being written, or goes on to the checks.
Poll ==
    /\ stage = "idle" /\ resolved # {}
    /\ op' = "poll" /\ before' = Available
    /\ disturbed' = writing
    /\ \/ \E ps \in SUBSET (polled \ writing) :
            /\ ps # {}
            /\ stage' = "reading" /\ asked' = ps
            /\ UNCHANGED <<checkDue, requested, todo>>
       \/ \E checks \in DueChecks(checkDue, requested) \ {{}} :
            /\ stage' = "checking" /\ todo' = checks
            /\ checkDue' = checkDue \ {First(checks)}
            /\ requested' = FALSE
            /\ UNCHANGED asked
       \/ /\ requested /\ checkDue = {}
          /\ requested' = FALSE
          /\ UNCHANGED <<stage, asked, checkDue, todo>>
    /\ UNCHANGED <<world, memoryVars, wanted, polled, values, seen, writing, scan, interrupted,
                   owed, boundVars>>

\* The checks a read asks for: of the scans that decide on the points found gone.
AskedFor(gone) == {ScopeOf[p] : p \in gone} \intersect Checked

\* Mutant: whether a check is requested is looked up before the read is awaited.
ReadAsksTooLate ==
    /\ stage = "reading"
    /\ \E a \in Answers(asked) :
        LET gone == Gone(asked, a)
            dueNow == checkDue \union AskedFor(gone) IN
        /\ Counted(a)
        /\ byRead' = byRead \union gone
        /\ polled' = polled \ gone
        /\ requested' = (AskedFor(gone) # {})
        /\ owed' = owed \union AskedFor(gone)
        /\ UNCHANGED <<identity, resolved, byScan, checkRead>>
        /\ \E checks \in DueChecks(dueNow, requested) :
              NextCheck(Published(values, asked, a), dueNow, checks)
    /\ UNCHANGED <<world, wanted, writing, disturbed, interrupted, connects, changes, cancels>>

\* _read_and_publish(): a register found gone is no longer read, and the check of what
\* decides whether the unit has it is due at once, without the schedule too.
Read ==
    /\ stage = "reading"
    /\ \E a \in Answers(asked) :
        LET gone == Gone(asked, a)
            dueNow == checkDue \union AskedFor(gone) IN
        /\ Counted(a)
        /\ byRead' = byRead \union gone
        /\ polled' = polled \ gone
        /\ requested' = FALSE
        /\ owed' = owed \union AskedFor(gone)
        /\ UNCHANGED <<identity, resolved, byScan, checkRead>>
        /\ \E checks \in DueChecks(dueNow, requested \/ AskedFor(gone) # {}) :
              NextCheck(Published(values, asked, a), dueNow, checks)
    /\ UNCHANGED <<world, wanted, writing, disturbed, interrupted, connects, changes, cancels>>

\* Mutant: the check takes what it read for what the scan found, before there is one.
CheckRemembers ==
    LET s == First(todo) IN
    /\ stage = "checking"
    /\ owed' = owed \ {s}
    /\ \E a \in Answers(DOMAIN checkRead[s]) :
        /\ Counted(a)
        /\ \/ /\ ~Definitive(a) \/ a = checkRead[s]
              /\ UNCHANGED <<memoryVars, polled, disturbed>>
              /\ NextCheck(values, checkDue, todo \ {First(todo)})
           \/ /\ Definitive(a) /\ a # checkRead[s]
              /\ checkRead' = [checkRead EXCEPT ![s] = a]
              /\ stage' = IF s = Unit THEN "identify" ELSE "rescan"
              /\ disturbed' = writing
              /\ UNCHANGED <<identity, resolved, byScan, byRead, checkDue, polled, values, seen, op,
                             before, todo, asked, scan>>
    /\ UNCHANGED <<world, requested, wanted, writing, interrupted, connects, changes, cancels>>

\* A check reads again what its scan read: it ends there when nothing has changed or
\* not everything was answered. Otherwise its scan runs again.
Check ==
    LET s == First(todo) IN
    /\ stage = "checking"
    /\ owed' = owed \ {s}
    /\ \E a \in Answers(DOMAIN checkRead[s]) :
        /\ Counted(a)
        /\ \/ /\ ~Definitive(a) \/ a = checkRead[s]
              /\ UNCHANGED <<memoryVars, polled, disturbed>>
              /\ NextCheck(values, checkDue, todo \ {First(todo)})
           \/ /\ Definitive(a) /\ a # checkRead[s]
              /\ stage' = IF s = Unit THEN "identify" ELSE "rescan"
              /\ disturbed' = writing
              /\ UNCHANGED <<memoryVars, checkDue, polled, values, seen, op, before, todo, asked,
                             scan>>
    /\ UNCHANGED <<world, requested, wanted, writing, interrupted, connects, changes, cancels>>

\* Mutant: the points an instance gains are not polled, nor its lost ones left.
ShowInstanceOnly(s, ps, a, br) ==
    /\ byRead' = br \union Gone(ps, a)
    /\ UNCHANGED polled
    /\ NextCheck(Published(values, ps, a), checkDue \intersect Checked', todo \ {s})

\* _rescan(), once what the instance has is read: the points it has are polled, and shown.
ShowInstance(s, ps, a, br) ==
    LET own == {p \in resolved : ScopeOf[p] = s} IN
    /\ byRead' = br \union Gone(ps, a)
    /\ polled' = (polled \ own) \union (own \intersect wanted \intersect Available')
    /\ NextCheck(Published(values, ps, a), checkDue \intersect Checked', todo \ {s})

\* Mutant: the instance is checked against what it read before.
RescanOldCheck ==
    LET s == First(todo)
        own == {p \in resolved : ScopeOf[p] = s} IN
    /\ stage = "rescan"
    /\ \E probed \in Probes[s] : \E a \in Answers(probed) :
        /\ Counted(a)
        /\ \/ Unanswered(a) /\ ScanFails
           \/ /\ ~Unanswered(a)
              /\ UNCHANGED <<identity, resolved>>
              /\ byScan' = [byScan EXCEPT ![s] = Lacking(s, resolved, a)]
              /\ checkRead' = checkRead
              /\ LET ps == own \ Missing(byScan', byRead \ own) IN
                 \/ ps \subseteq probed /\ ShowInstance(s, ps, a, byRead \ own)
                 \/ /\ ~(ps \subseteq probed)
                    /\ byRead' = byRead \ own
                    /\ stage' = "rescanFirst" /\ asked' = ps
                    /\ scan' = [NoScan EXCEPT !.read = a]
                    /\ checkDue' = checkDue \intersect Checked'
                    /\ UNCHANGED <<polled, values, seen, op, before, todo>>
    /\ UNCHANGED <<world, requested, wanted, writing, disturbed, interrupted, owed, connects,
                   changes, cancels>>

\* _rescan() of one instance: what its scan finds replaces what it found before, at once,
\* and its check with it, which there no longer is after a scan that read nothing.
Rescan ==
    LET s == First(todo)
        own == {p \in resolved : ScopeOf[p] = s} IN
    /\ stage = "rescan"
    /\ \E probed \in Probes[s] : \E a \in Answers(probed) :
        /\ Counted(a)
        /\ \/ Unanswered(a) /\ ScanFails
           \/ /\ ~Unanswered(a)
              /\ UNCHANGED <<identity, resolved>>
              /\ byScan' = [byScan EXCEPT ![s] = Lacking(s, resolved, a)]
              /\ checkRead' = [checkRead EXCEPT ![s] = a]
              /\ LET ps == own \ Missing(byScan', byRead \ own) IN
                 \/ ps \subseteq probed /\ ShowInstance(s, ps, a, byRead \ own)
                 \/ /\ ~(ps \subseteq probed)
                    /\ byRead' = byRead \ own
                    /\ stage' = "rescanFirst" /\ asked' = ps
                    /\ scan' = [NoScan EXCEPT !.read = a]
                    /\ checkDue' = checkDue \intersect Checked'
                    /\ UNCHANGED <<polled, values, seen, op, before, todo>>
    /\ UNCHANGED <<world, requested, wanted, writing, disturbed, interrupted, owed, connects,
                   changes, cancels>>

\* Whatever this read answers, the instance's new points are there.
RescanFirst ==
    /\ stage = "rescanFirst"
    /\ \E a \in Answers(asked \ DOMAIN scan.read) :
        /\ Counted(a)
        /\ UNCHANGED <<identity, resolved, byScan, checkRead>>
        /\ ShowInstance(First(todo), asked, Also(a, scan.read), byRead)
    /\ UNCHANGED <<world, requested, wanted, writing, disturbed, interrupted, owed, connects,
                   changes, cancels>>

\* Mutant: a cancelled poll() tells nothing of what it found out.
CancelUntold ==
    /\ stage # "idle"
    /\ cancels < MaxCancels /\ cancels' = cancels + 1
    /\ interrupted' = (interrupted \/ stage = "rescanFirst")
    /\ owed' = {}
    /\ stage' = "idle" /\ scan' = NoScan /\ todo' = {} /\ asked' = {}
    /\ UNCHANGED <<world, memoryVars, checkDue, requested, wanted, polled, values, seen, writing,
                   disturbed, op, before, connects, changes, failures>>

\* The host cancels poll() or connect() where it waits.
Cancel ==
    /\ stage # "idle"
    /\ cancels < MaxCancels /\ cancels' = cancels + 1
    /\ interrupted' = (interrupted \/ stage = "rescanFirst")
    /\ owed' = {}
    /\ UNCHANGED <<memoryVars, polled, checkDue>>
    /\ \/ op = "poll" /\ Tell(values)
       \/ /\ op = "connect"
          /\ stage' = "idle" /\ scan' = NoScan
          /\ UNCHANGED <<values, seen, op, before, todo, asked>>
    /\ UNCHANGED <<world, requested, wanted, writing, disturbed, connects, changes, failures>>

-----------------------------------------------------------------------------
Client ==
    \/ Identify \/ ScanScope \/ FirstRead
    \/ Read \/ Check \/ Rescan \/ RescanFirst

Next ==
    \/ \E p \in Points : Change(p) \/ WriteBegins(p) \/ WriteEnds(p) \/ SetPolling(p)
    \/ \E s \in Scopes : CheckComesDue(s)
    \/ Connect \/ Poll \/ RefreshScan \/ Cancel \/ Reject
    \/ Client

Spec == Init /\ [][Next]_vars

\* The host keeps calling poll(), time passes, and a read is answered or times out.
FairSpec ==
    /\ Spec
    /\ WF_vars(Poll)
    /\ WF_vars(Client)
    /\ \A s \in Scopes : WF_vars(CheckComesDue(s))
-----------------------------------------------------------------------------
(***************************************************************************)
(* Properties                                                              *)
(***************************************************************************)
TypeOK ==
    /\ world \in [Points -> {"on", "off", "gone"}]
    /\ resolved \subseteq Points /\ byRead \subseteq resolved
    /\ byScan \in [Scopes -> SUBSET resolved]
    /\ \A s \in Scopes : DOMAIN checkRead[s] \in Probes[s] \union {{}}
    /\ checkDue \subseteq Scopes /\ requested \in BOOLEAN
    /\ identity \in [IdentityPoints -> {"none", "on", "off"}]
    /\ wanted \subseteq Wanted /\ polled \subseteq wanted \intersect resolved
    /\ values \in [Points -> {"none", "good", "stale", "missing"}]
    /\ seen \subseteq Points /\ writing \subseteq Writable /\ disturbed \subseteq Writable
    /\ stage \in {"idle", "identify", "scanning", "first", "reading", "checking", "rescan",
                  "rescanFirst"}
    /\ op \in {"connect", "poll"} /\ before \subseteq Points
    /\ asked \subseteq resolved

\* What is recorded missing by a scan is what it found in the answers its check compares
\* with: a check that reads the same leaves nothing to find out (_run_checks()).
RecordFollowsCheck ==
    \A s \in Checked : byScan[s] = Lacking(s, resolved, checkRead[s])

\* The keys a consumer was told of, gained and lost since connect(), add up to the points the
\* unit has once a pass is over, however the pass ended (_tell_points()).
EventsAddUp == stage = "idle" => seen = Available

\* Whoever subscribed to a point the unit has lost while it was polled sees it missing: no
\* value is left standing (_tell_points(), subscribe_points()). Three things in the code
\* bring a value back, and are left out: a second connect() tells nothing of what it finds
\* lost; a poll() cancelled half way through a rescan goes on polling what the instance has
\* lost (see PollingFollows); and a write under way while the model drops its point shows
\* what was written (see ValuesInModel), which stands when the point comes back.
LostIsMissing ==
    stage = "idle" /\ connects < 2 /\ ~interrupted =>
        \A p \in (resolved \intersect Unavailable) \ (Extra \intersect Writable) :
            values[p] \in {"none", "missing"}

\* Whether a point is polled follows from who wants it and from its availability, whatever
\* changed them, once a pass is over - unless one was cancelled half way through a rescan.
PollingFollows ==
    stage = "idle" /\ ~interrupted => polled = wanted \intersect Available

\* A register found gone is not polled again, or read by a poll, before a scan has looked
\* at its instance (_publish()) - and every pass that found one gone makes the check of that
\* instance before it is over, on the schedule or without, whatever comes of the checks it
\* makes before. Two things are left out: a scan that read nothing left no check to make, and
\* a pass that is cancelled, or raises, gives up the checks it had still to make (`owed`),
\* which without the schedule nobody makes until refresh(PollRate.SCAN) asks for them.
GoneIsChecked ==
    /\ polled \intersect byRead = {}
    /\ stage = "reading" => asked \intersect byRead = {}
    /\ owed \subseteq todo

\* Whatever changes in the unit is found while polling; nobody needs to connect again: in
\* the end what the scans found missing is what the unit lacks. A scan that read nothing is
\* not made again by itself, and of the sections an identity point chose nothing is said.
ChangesFound ==
    <>[](\A s \in Checked :
            byScan[s] = Lacking(s, resolved, [p \in DOMAIN checkRead[s] |-> world[p]]))

\* What the documentation says (_client.py, values): it holds the current value of each
\* key this unit has, which are those of the model chosen for it - and of no other.
ValuesInModel == \A p \in Points : values[p] # "none" /\ resolved # {} => p \in resolved
=============================================================================
