-------------------------- MODULE ClientScanProofs --------------------------
(***************************************************************************)
(* What a client knows of a unit it scans, checks and polls, for any unit: *)
(* any points, scans and sections of its model.                            *)
(***************************************************************************)
EXTENDS ClientScan, WellFoundedInduction, TLAPS

\* The settings a unit may stop having while they are written.
Droppable == Extra \intersect Writable

\* Where a pass is: a check is at the first of those left, and scans the whole unit again
\* only for the unit's own check, which comes before the others.
PassInv ==
    /\ todo \subseteq Scopes
    /\ stage \in {"reading", "checking", "rescan", "rescanFirst"} => op = "poll"
    /\ stage \in {"checking", "rescan", "rescanFirst"} => todo # {}
    /\ stage \in {"identify", "scanning", "first"} /\ op = "poll" =>
            todo # {} /\ First(todo) = Unit
    /\ stage \in {"rescan", "rescanFirst"} => First(todo) # Unit
    /\ stage \notin {"reading", "rescanFirst"} => asked = {}
    /\ stage = "rescanFirst" => \A p \in asked : ScopeOf[p] = First(todo)

\* What a scan under way has found follows from what it has read so far.
FoundInv ==
    /\ DOMAIN scan.read \subseteq Points
    /\ stage \in {"scanning", "first"} =>
        /\ scan = [identity |-> scan.identity, points |-> scan.points, left |-> scan.left,
                   found |-> scan.found, read |-> scan.read]
        /\ scan.identity \in [IdentityPoints -> {"none", "on", "off"}]
        /\ scan.points \subseteq Points /\ Points \ Extra \subseteq scan.points
        /\ scan.left \subseteq Scopes
        /\ stage = "scanning" <=> scan.left # {}
        /\ scan.found \in [Scopes -> SUBSET scan.points]
        /\ \A s \in Scopes \ scan.left :
              /\ DOMAIN OfScan(s, scan.read) \in Probes[s] \union {{}}
              /\ scan.found[s] = Lacking(s, scan.points, scan.read)
        /\ \A s \in scan.left : DOMAIN OfScan(s, scan.read) = {}

\* A scan marks only its own points missing, and leaves what its check compares with.
RecordInv ==
    /\ checkRead = [s \in Scopes |-> checkRead[s]]
    /\ \A s \in Scopes : \A p \in byScan[s] : ScopeOf[p] = s
    /\ RecordFollowsCheck

\* Whom the consumer was told of: the points the unit had when the pass began, until it ends.
SeenInv ==
    /\ stage = "idle" \/ op = "connect" => seen = Available
    /\ stage # "idle" /\ op = "poll" => seen = before

\* Only the instance that is just being read is not polled yet as it should be.
PolledInv ==
    ~interrupted =>
        \A p \in Points :
            \/ stage = "rescanFirst" /\ ScopeOf[p] = First(todo)
            \/ p \in polled <=> p \in wanted \intersect Available

\* No point found gone by a read is polled, or read by a poll.
GoneInv ==
    /\ polled \intersect byRead = {}
    /\ stage = "reading" => asked \intersect byRead = {}

\* What a read asked for is among the checks the pass has still to make, and no longer the
\* one whose scan is under way.
OwedInv ==
    /\ owed \subseteq todo
    /\ stage \in {"idle", "reading"} \/ op = "connect" => owed = {}
    /\ stage \in {"identify", "scanning", "first", "rescan", "rescanFirst"} =>
            First(todo) \notin owed

\* Nothing has been read yet.
Fresh == resolved = {} /\ writing = {} /\ \A p \in Points : values[p] = "none"

\* The first connect() starts from nothing.
FreshInv ==
    /\ connects \in Nat
    /\ connects = 0 => Fresh /\ stage = "idle"
    /\ connects = 1 /\ op = "connect" /\ stage # "idle" => Fresh

\* A value of a point that the model does not have is that of a setting it dropped.
ForeignInv ==
    /\ writing \subseteq resolved \union Extra
    /\ \A p \in Points \ Droppable : p \notin resolved => values[p] = "none"

\* What is read is what the unit has, but for what a cancelled rescan left polled.
AskedInv ==
    \/ stage = "rescanFirst"
    \/ stage = "reading" /\ ~interrupted
    => asked \subseteq Available

\* What a pass has gained so far belongs to scans it has made.
GainedInv ==
    op = "poll" /\ stage # "idle" =>
        /\ stage = "reading" \/ Unit \in todo => Available \subseteq before
        /\ \A p \in Available \ before :
              ScopeOf[p] \in todo => stage = "rescanFirst" /\ ScopeOf[p] = First(todo)

\* Whatever the unit lacks shows no value, or the pass that found it lost is not over.
LostInv ==
    connects < 2 /\ ~interrupted =>
        \A p \in (resolved \intersect Unavailable) \ Droppable :
            \/ values[p] \in {"none", "missing"}
            \/ op = "poll" /\ stage # "idle" /\ p \in before

-----------------------------------------------------------------------------
(***************************************************************************)
(* The operators the scans are made of.                                    *)
(***************************************************************************)
LEMMA OrderIs ==
    /\ Scopes # {} /\ Unit \in Scopes
    /\ DOMAIN Order \subseteq Nat
    /\ 1 \in DOMAIN Order /\ \A i \in DOMAIN Order : 1 <= i
    /\ ScopeOf \in [Points -> Scopes] /\ Probes \in [Scopes -> SUBSET SUBSET (Points \ Extra)]
    /\ \A s \in Scopes : \A ps \in Probes[s] : \A p \in ps : ScopeOf[p] = s
    /\ IdentityPoints \subseteq Points
<1>1. /\ Order \in Seq(Scopes) /\ Order # << >>
      /\ ScopeOf \in [Points -> Scopes] /\ Probes \in [Scopes -> SUBSET SUBSET (Points \ Extra)]
      /\ \A s \in Scopes : \A ps \in Probes[s] : \A p \in ps : ScopeOf[p] = s
      /\ IdentityPoints \subseteq Points
  BY ClientScanAssumption DEF ClientScanAssumption
<1>2. DOMAIN Order = 1 .. Len(Order) /\ Len(Order) \in Nat /\ Len(Order) # 0
  <2> HIDE DEF Scopes
  <2> QED
    BY <1>1
<1>3. 1 \in DOMAIN Order /\ DOMAIN Order \subseteq Nat /\ \A i \in DOMAIN Order : 1 <= i
  BY <1>2
<1>4. Unit \in Scopes
  BY <1>3 DEF Scopes, Unit
<1> QED
  BY <1>1, <1>3, <1>4

\* The first of some scans is one of them, and the whole unit's whenever it is one.
LEMMA FirstIs ==
    ASSUME NEW ss, ss \subseteq Scopes, ss # {}
    PROVE  First(ss) \in ss /\ (Unit \in ss => First(ss) = Unit)
<1> DEFINE D == {i \in DOMAIN Order : Order[i] \in ss}
           IsLeast(i) == Order[i] \in ss /\ \A j \in DOMAIN Order : Order[j] \in ss => i <= j
<1>0. DOMAIN Order \subseteq Nat /\ 1 \in DOMAIN Order /\ \A i \in DOMAIN Order : 1 <= i
  BY OrderIs
<1>1. D # {} /\ D \subseteq Nat
  BY <1>0 DEF Scopes
<1>2. PICK m \in D : \A j \in D : ~(<<j, m>> \in OpToRel(<, Nat))
  BY <1>1, NatLessThanWellFounded, WFMin
<1>3. \A j \in D : m <= j
  <2>1. ASSUME NEW j \in D PROVE m <= j
    <3>1. j \in Nat /\ m \in Nat
      BY <1>1
    <3>2. ~(<<j, m>> \in OpToRel(<, Nat))
      BY <1>2
    <3>3. ~(j < m)
      BY <3>1, <3>2 DEF OpToRel
    <3> QED
      BY <3>1, <3>3
  <2> QED
    BY <2>1
<1>4. m \in DOMAIN Order /\ IsLeast(m)
  BY <1>2, <1>3
<1> DEFINE c == CHOOSE i \in DOMAIN Order : IsLeast(i)
<1>5. c \in DOMAIN Order /\ IsLeast(c)
  <2> HIDE DEF IsLeast
  <2> QED
    BY <1>4
<1>6. First(ss) = Order[c]
  BY DEF First
<1>7. Unit \in ss => c = 1
  <2>1. Unit \in ss => c <= 1
    BY <1>0, <1>5 DEF Unit
  <2>2. 1 <= c /\ c \in Nat
    BY <1>0, <1>5
  <2> QED
    BY <2>1, <2>2
<1> HIDE DEF c
<1> QED
  BY <1>5, <1>6, <1>7 DEF Unit

Known == {"on", "off", "gone", "silent", "error"}

LEMMA AnswersAre ==
    ASSUME world \in [Points -> {"on", "off", "gone"}], NEW ps, ps \subseteq Points,
           NEW a \in Answers(ps)
    PROVE  DOMAIN a = ps /\ \A p \in ps : a[p] \in Known
BY ClientScanAssumption DEF ClientScanAssumption, Answers, Known

LEMMA QualityIs ==
    ASSUME NEW answer
    PROVE  /\ Quality(answer) \in {"good", "stale", "missing"}
           /\ Quality(answer) = "good" <=> answer \in {"on", "off"}
           /\ Quality(answer) = "missing" <=> answer = "gone"
<1>1. Quality(answer) \in {"good", "stale", "missing"}
  BY Zenon DEF Quality
<1>2. answer \in {"on", "off"} => Quality(answer) = "good"
  BY Zenon DEF Quality
<1>3. answer = "gone" => Quality(answer) = "missing"
  <2>1. ASSUME answer = "gone" PROVE Quality("gone") = "missing"
    <3>1. "gone" \notin {"on", "off"}
      OBVIOUS
    <3> QED
      BY <3>1, Zenon DEF Quality
  <2> QED
    BY <2>1
<1>4. answer \notin {"on", "off", "gone"} => Quality(answer) = "stale"
  <2>1. answer \notin {"on", "off", "gone"} => answer \notin {"on", "off"} /\ answer # "gone"
    OBVIOUS
  <2> QED
    BY <2>1, Zenon DEF Quality
<1> QED
  BY <1>1, <1>2, <1>3, <1>4

\* A scan step marks points of its own only, and looks at what its own probes read.
LEMMA LackingIs ==
    ASSUME NEW s \in Scopes, NEW ps, NEW read
    PROVE  /\ Lacking(s, ps, read) \subseteq {p \in ps : ScopeOf[p] = s}
           /\ \A other : OfScan(s, other) = OfScan(s, read) =>
                Lacking(s, ps, other) = Lacking(s, ps, read)
<1> DEFINE own == {p \in ps : ScopeOf[p] = s}
           Reads(other, answer) == \E p \in DOMAIN OfScan(s, other) : OfScan(s, other)[p] = answer
<1>1. \A other : Lacking(s, ps, other) =
        IF Reads(other, "gone") THEN own
        ELSE IF Reads(other, "off") THEN own \intersect Sensors ELSE {}
  BY DEF Lacking, OfScan
<1> QED
  BY <1>1

LEMMA VariantIs ==
    ASSUME NEW id
    PROVE  Variant(id) \subseteq Points /\ Points \ Extra \subseteq Variant(id)
BY DEF Variant

LEMMA AlsoIs ==
    ASSUME NEW a, NEW read
    PROVE  /\ DOMAIN Also(a, read) = DOMAIN a \union DOMAIN read
           /\ \A p \in DOMAIN a : Also(a, read)[p] = a[p]
           /\ \A p \in DOMAIN read \ DOMAIN a : Also(a, read)[p] = read[p]
BY DEF Also

\* An answer to another scan's probes, or to no probe, leaves what the scan of `s` read.
LEMMA OfScanIs ==
    ASSUME NEW s, NEW a, NEW read
    PROVE  /\ DOMAIN OfScan(s, Also(a, read)) =
                 {p \in DOMAIN a : ScopeOf[p] = s} \union DOMAIN OfScan(s, read)
           /\ (\A p \in DOMAIN a : ScopeOf[p] # s) => OfScan(s, Also(a, read)) = OfScan(s, read)
           /\ OfScan(s, OfScan(s, read)) = OfScan(s, read)
<1>1. DOMAIN OfScan(s, Also(a, read)) =
        {p \in DOMAIN a : ScopeOf[p] = s} \union DOMAIN OfScan(s, read)
  BY DEF OfScan, Also
<1>2. (\A p \in DOMAIN a : ScopeOf[p] # s) => OfScan(s, Also(a, read)) = OfScan(s, read)
  BY DEF OfScan, Also
<1>3. OfScan(s, OfScan(s, read)) = OfScan(s, read)
  BY DEF OfScan
<1> QED
  BY <1>1, <1>2, <1>3

LEMMA NoScanIs ==
    /\ NoScan = [identity |-> NoScan.identity, points |-> NoScan.points, left |-> NoScan.left,
                 found |-> NoScan.found, read |-> NoScan.read]
    /\ NoScan.points = {} /\ NoScan.left = {} /\ NoScan.found = [s \in Scopes |-> {}]
    /\ DOMAIN NoScan.read = {}
BY DEF NoScan

-----------------------------------------------------------------------------
(***************************************************************************)
(* What every step keeps: the types, and where a pass is.                  *)
(***************************************************************************)
Shown == {"none", "good", "stale", "missing"}

\* The part of TypeOK that a scan replaces.
MemoryOK ==
    /\ resolved \subseteq Points /\ byRead \subseteq resolved
    /\ byScan \in [Scopes -> SUBSET resolved]
    /\ \A s \in Scopes : DOMAIN checkRead[s] \in Probes[s] \union {{}}
    /\ identity \in [IdentityPoints -> {"none", "on", "off"}]
    /\ polled \subseteq wanted \intersect resolved

LEMMA PublishedType ==
    ASSUME NEW shown \in [Points -> Shown], NEW ps, NEW a
    PROVE  Published(shown, ps, a) \in [Points -> Shown]
BY QualityIs DEF Published, Shown

LEMMA NextCheckIs ==
    ASSUME NEW shown, NEW dueNow, NEW rest, NextCheck(shown, dueNow, rest)
    PROVE  /\ op' = op /\ before' = before /\ asked' = {} /\ scan' = NoScan
           /\ todo' = rest /\ checkDue' \subseteq dueNow
           /\ \/ rest = {} /\ stage' = "idle" /\ Tell(shown)
              \/ rest # {} /\ stage' = "checking" /\ values' = shown /\ seen' = seen
BY DEF NextCheck, Tell

\* A pass that is over, or goes on with its next check, leaves everything well typed.
LEMMA EndsTyped ==
    ASSUME MemoryOK', NEW shown \in [Points -> Shown],
           checkDue' \subseteq Scopes, todo' \subseteq Scopes, asked' = {}, scan' = NoScan,
           \/ stage' = "idle"
           \/ stage' = "checking" /\ op' = "poll" /\ todo' # {},
           op' \in {"connect", "poll"}, before' \subseteq Points,
           values' \in [Points -> Shown], seen' \subseteq Points,
           requested' \in BOOLEAN, world' = world, wanted' = wanted, writing' = writing,
           disturbed' \subseteq Writable, TypeOK
    PROVE  TypeOK' /\ PassInv' /\ FoundInv'
<1>1. PassInv'
  BY DEF PassInv
<1>2. FoundInv'
  BY NoScanIs DEF FoundInv
<1>3. TypeOK'
  BY DEF TypeOK, MemoryOK, Shown
<1> QED
  BY <1>1, <1>2, <1>3

LEMMA TellTyped ==
    ASSUME TypeOK, MemoryOK', NEW shown \in [Points -> Shown], Tell(shown),
           checkDue' \subseteq Scopes,
           requested' \in BOOLEAN, UNCHANGED <<world, wanted, writing>>,
           disturbed' \subseteq Writable
    PROVE  TypeOK' /\ PassInv' /\ FoundInv'
<1>1. /\ stage' = "idle" /\ todo' = {} /\ asked' = {} /\ scan' = NoScan
      /\ op' = op /\ before' = before
      /\ seen' = (seen \ (before \ Available')) \union (Available' \ before)
      /\ values' = [p \in Points |-> IF p \in (before \ Available') \intersect resolved'
                                     THEN "missing" ELSE shown[p]]
  BY DEF Tell
<1>2. Available' \subseteq Points
  BY DEF MemoryOK, Available
<1>3. values' \in [Points -> Shown]
  BY <1>1 DEF Shown
<1>4. seen' \subseteq Points /\ op \in {"connect", "poll"} /\ before \subseteq Points
  BY <1>1, <1>2 DEF TypeOK
<1> QED
  BY <1>1, <1>3, <1>4, EndsTyped

LEMMA NextCheckTyped ==
    ASSUME TypeOK, MemoryOK', NEW shown \in [Points -> Shown], NEW dueNow, NEW rest,
           NextCheck(shown, dueNow, rest), op = "poll",
           dueNow \subseteq Scopes, rest \subseteq Scopes,
           requested' \in BOOLEAN, UNCHANGED <<world, wanted, writing>>,
           disturbed' \subseteq Writable
    PROVE  TypeOK' /\ PassInv' /\ FoundInv'
<1>1. /\ op' = op /\ before' = before /\ asked' = {} /\ scan' = NoScan
      /\ todo' = rest /\ checkDue' \subseteq Scopes
      /\ \/ rest = {} /\ stage' = "idle" /\ Tell(shown)
         \/ rest # {} /\ stage' = "checking" /\ values' = shown /\ seen' = seen
  BY NextCheckIs
<1>2. CASE Tell(shown)
  BY <1>1, <1>2, TellTyped
<1>3. CASE rest # {} /\ stage' = "checking" /\ values' = shown /\ seen' = seen
  <2>1. seen \subseteq Points /\ before \subseteq Points
    BY DEF TypeOK
  <2> QED
    BY <1>1, <1>3, <2>1, EndsTyped
<1> QED
  BY <1>1, <1>2, <1>3

LEMMA ScanFailsTyped ==
    ASSUME TypeOK, PassInv, ScanFails, op = "poll" => todo # {}, op = "connect" => asked = {},
           UNCHANGED <<world, requested, wanted, writing, disturbed>>
    PROVE  TypeOK' /\ PassInv' /\ FoundInv' /\ UNCHANGED <<memoryVars, polled>>
<1>1. UNCHANGED <<memoryVars, polled>>
  BY DEF ScanFails
<1>2. MemoryOK' /\ values \in [Points -> Shown]
  BY <1>1 DEF MemoryOK, TypeOK, memoryVars, Shown
<1>3. /\ requested \in BOOLEAN /\ disturbed \subseteq Writable /\ checkDue \subseteq Scopes
      /\ todo \subseteq Scopes /\ seen \subseteq Points /\ before \subseteq Points
  BY DEF TypeOK, PassInv
<1>4. CASE op = "connect" /\ stage' = "idle" /\ scan' = NoScan
           /\ UNCHANGED <<checkDue, values, seen, op, before, todo, asked>>
  BY <1>1, <1>2, <1>3, <1>4, EndsTyped
<1>5. CASE op = "poll" /\ NextCheck(values, checkDue, todo \ {First(todo)})
  BY <1>1, <1>2, <1>3, <1>5, NextCheckTyped
<1> QED
  BY <1>1, <1>4, <1>5 DEF ScanFails

TypeInv ==
    /\ TypeOK
    /\ PassInv
    /\ FoundInv
    /\ RecordInv

\* A step that is no step of connect() or poll().
Aside ==
    \/ \E p \in Points : Change(p) \/ WriteBegins(p) \/ WriteEnds(p) \/ SetPolling(p)
    \/ \E s \in Scopes : CheckComesDue(s)
    \/ RefreshScan
    \/ UNCHANGED vars

LEMMA AsideIs ==
    ASSUME Aside
    PROVE  UNCHANGED <<memoryVars, taskVars, interrupted, seen, connects>>
BY DEF Aside, Change, WriteBegins, WriteEnds, SetPolling, CheckComesDue, RefreshScan, vars, boundVars

LEMMA MemoryIs ==
    ASSUME TypeOK
    PROVE  MemoryOK /\ values \in [Points -> Shown]
BY DEF TypeOK, MemoryOK, Shown

LEMMA AsideTyped ==
    ASSUME TypeInv, Aside
    PROVE  TypeInv'
<1>0. TypeOK /\ PassInv /\ FoundInv /\ RecordInv /\ UNCHANGED <<memoryVars, taskVars, seen>>
  BY AsideIs DEF TypeInv
<1>1. PassInv'
  BY <1>0 DEF PassInv, taskVars
<1>2. FoundInv'
  BY <1>0 DEF FoundInv, taskVars, Lacking, OfScan
<1>3. RecordInv'
  BY <1>0 DEF RecordInv, RecordFollowsCheck, memoryVars, Lacking, Checked
<1>4. ASSUME /\ world' \in [Points -> {"on", "off", "gone"}]
             /\ checkDue' \subseteq Scopes /\ requested' \in BOOLEAN
             /\ wanted' \subseteq Wanted /\ polled' \subseteq wanted' \intersect resolved
             /\ values' \in [Points -> Shown]
             /\ writing' \subseteq Writable /\ disturbed' \subseteq Writable
      PROVE  TypeOK'
  BY <1>0, <1>4 DEF TypeOK, memoryVars, taskVars, Shown
<1>5. /\ world \in [Points -> {"on", "off", "gone"}]
      /\ checkDue \subseteq Scopes /\ requested \in BOOLEAN
      /\ wanted \subseteq Wanted /\ polled \subseteq wanted \intersect resolved
      /\ values \in [Points -> Shown]
      /\ writing \subseteq Writable /\ disturbed \subseteq Writable
      /\ resolved \subseteq Points
  BY <1>0 DEF TypeOK, Shown
<1>6. ASSUME NEW p \in Points, Change(p) PROVE TypeOK'
  <2>1. PICK state \in States[p] : world' = [world EXCEPT ![p] = state]
    BY <1>6 DEF Change
  <2>2. state \in {"on", "off", "gone"}
    BY <2>1, ClientScanAssumption DEF ClientScanAssumption
  <2>3. world' \in [Points -> {"on", "off", "gone"}]
    BY <1>5, <2>1, <2>2
  <2> QED
    BY <1>4, <1>5, <1>6, <2>3 DEF Change
<1>7. ASSUME NEW p \in Points, WriteBegins(p) PROVE TypeOK'
  BY <1>4, <1>5, <1>7 DEF WriteBegins
<1>8. ASSUME NEW p \in Points, WriteEnds(p) PROVE TypeOK'
  <2>1. values' \in [Points -> Shown]
    BY <1>5, <1>8 DEF WriteEnds, Shown
  <2> QED
    BY <1>4, <1>5, <1>8, <2>1 DEF WriteEnds
<1>9. ASSUME NEW p \in Points, SetPolling(p) PROVE TypeOK'
  <2>1. wanted' \subseteq Wanted /\ polled' \subseteq wanted' \intersect resolved
    BY <1>5, <1>9 DEF SetPolling, Available
  <2> QED
    BY <1>4, <1>5, <1>9, <2>1 DEF SetPolling
<1>10. ASSUME NEW s \in Scopes, CheckComesDue(s) PROVE TypeOK'
  BY <1>4, <1>5, <1>10 DEF CheckComesDue
<1>11. ASSUME RefreshScan PROVE TypeOK'
  BY <1>4, <1>5, <1>11 DEF RefreshScan, Checked
<1>12. ASSUME UNCHANGED vars PROVE TypeOK'
  BY <1>4, <1>5, <1>12 DEF vars
<1> QED
  BY <1>1, <1>2, <1>3, <1>6, <1>7, <1>8, <1>9, <1>10, <1>11, <1>12 DEF TypeInv, Aside

\* A step that leaves what is recorded as it is.
LEMMA RecordStays ==
    ASSUME RecordInv, UNCHANGED memoryVars
    PROVE  RecordInv'
BY DEF RecordInv, RecordFollowsCheck, memoryVars, Lacking, Checked

LEMMA ConnectTyped ==
    ASSUME TypeInv, Connect
    PROVE  TypeInv'
<1>0. TypeOK /\ PassInv /\ RecordInv
  BY DEF TypeInv
<1>1. /\ stage = "idle" /\ op' = "connect" /\ stage' = "identify" /\ scan' = NoScan
      /\ disturbed' = writing
      /\ UNCHANGED <<world, memoryVars, checkDue, requested, wanted, polled, values, seen,
                     writing, before, todo, asked>>
  BY DEF Connect
<1>2. TypeOK'
  BY <1>0, <1>1 DEF TypeOK, memoryVars
<1>3. PassInv'
  BY <1>0, <1>1 DEF PassInv
<1>4. FoundInv'
  BY <1>1, NoScanIs DEF FoundInv
<1> QED
  BY <1>0, <1>1, <1>2, <1>3, <1>4, RecordStays DEF TypeInv

LEMMA PollTyped ==
    ASSUME TypeInv, Poll
    PROVE  TypeInv'
<1>0. TypeOK /\ PassInv /\ FoundInv /\ RecordInv
  BY DEF TypeInv
<1>1. /\ stage = "idle" /\ op' = "poll" /\ before' = Available /\ disturbed' = writing
      /\ UNCHANGED <<world, memoryVars, wanted, polled, values, seen, writing, scan>>
  BY DEF Poll
<1>2. Available \subseteq Points /\ asked = {} /\ todo \subseteq Scopes
  BY <1>0, <1>1 DEF TypeOK, Available, PassInv
<1>3. ASSUME stage' \in {"idle", "reading", "checking"}, todo' \subseteq Scopes,
             stage' = "checking" => todo' # {},
             stage' # "reading" => asked' = {},
             asked' \subseteq polled, checkDue' \subseteq checkDue, requested' \in BOOLEAN
      PROVE  TypeOK' /\ PassInv' /\ FoundInv'
  <2>1. TypeOK'
    BY <1>0, <1>1, <1>2, <1>3 DEF TypeOK, memoryVars
  <2>2. PassInv'
    BY <1>1, <1>3 DEF PassInv
  <2>3. FoundInv'
    BY <1>0, <1>1, <1>3 DEF FoundInv
  <2> QED
    BY <2>1, <2>2, <2>3
<1>4. requested \in BOOLEAN /\ checkDue \subseteq Scopes
  BY <1>0 DEF TypeOK
<1>5. ASSUME NEW ps \in SUBSET (polled \ writing), stage' = "reading", asked' = ps,
             UNCHANGED <<checkDue, requested, todo>>
      PROVE  TypeOK' /\ PassInv' /\ FoundInv'
  BY <1>2, <1>3, <1>4, <1>5
<1>6. ASSUME NEW checks \in DueChecks(checkDue, requested), checks # {},
             stage' = "checking", todo' = checks, checkDue' = checkDue \ {First(checks)},
             requested' = FALSE, UNCHANGED asked
      PROVE  TypeOK' /\ PassInv' /\ FoundInv'
  <2>1. checks \subseteq checkDue
    BY <1>6 DEF DueChecks
  <2> QED
    BY <1>2, <1>3, <1>4, <1>6, <2>1
<1>7. ASSUME requested' = FALSE, UNCHANGED <<stage, asked, checkDue, todo>>
      PROVE  TypeOK' /\ PassInv' /\ FoundInv'
  BY <1>1, <1>2, <1>3, <1>7
<1>8. TypeOK' /\ PassInv' /\ FoundInv'
  BY <1>5, <1>6, <1>7 DEF Poll
<1> QED
  BY <1>0, <1>1, <1>8, RecordStays DEF TypeInv

\* A pass or a connect() that stops here, with nothing new recorded.
LEMMA StopsTyped ==
    ASSUME TypeInv, Cancel \/ Reject
    PROVE  TypeInv'
<1>0. TypeOK /\ PassInv /\ RecordInv
  BY DEF TypeInv
<1>1. /\ UNCHANGED <<memoryVars, polled, checkDue, world, requested, wanted, writing, disturbed>>
      /\ \/ op = "poll" /\ Tell(values)
         \/ /\ op = "connect" /\ stage' = "idle" /\ scan' = NoScan
            /\ UNCHANGED <<values, seen, op, before, todo, asked>>
      /\ stage # "idle"
  BY DEF Cancel, Reject
<1>2. MemoryOK' /\ values \in [Points -> Shown]
  BY <1>0, <1>1, MemoryIs DEF MemoryOK, memoryVars
<1>3. /\ requested \in BOOLEAN /\ disturbed \subseteq Writable /\ checkDue \subseteq Scopes
      /\ todo \subseteq Scopes /\ seen \subseteq Points /\ before \subseteq Points
      /\ op = "connect" => asked = {}
  BY <1>0, <1>1 DEF TypeOK, PassInv
<1>4. ASSUME op = "connect", stage' = "idle", scan' = NoScan,
             UNCHANGED <<values, seen, op, before, todo, asked>>
      PROVE  TypeOK' /\ PassInv' /\ FoundInv'
  BY <1>0, <1>1, <1>2, <1>3, <1>4, EndsTyped
<1>5. ASSUME Tell(values) PROVE TypeOK' /\ PassInv' /\ FoundInv'
  BY <1>0, <1>1, <1>2, <1>3, <1>5, TellTyped
<1> QED
  BY <1>0, <1>1, <1>4, <1>5, RecordStays DEF TypeInv

LEMMA IdentifyTyped ==
    ASSUME TypeInv, Identify
    PROVE  TypeInv'
<1>0. TypeOK /\ PassInv /\ RecordInv
  BY DEF TypeInv
<1>1. PICK a \in Answers(IdentityPoints) :
        LET id == [p \in IdentityPoints |-> IF Quality(a[p]) = "good" THEN a[p]
                                            ELSE IF op = "poll" THEN identity[p] ELSE "none"] IN
        \/ Unanswered(a) /\ ScanFails
        \/ /\ ~Unanswered(a)
           /\ scan' = [NoScan EXCEPT !.identity = id, !.points = Variant(id), !.left = Scopes]
           /\ stage' = "scanning"
           /\ UNCHANGED <<memoryVars, checkDue, polled, values, seen, op, before, todo, asked>>
  BY DEF Identify
<1>2. stage = "identify" /\ UNCHANGED <<world, requested, wanted, writing, disturbed>>
  BY DEF Identify
<1>3. CASE ScanFails
  <2>1. TypeOK' /\ PassInv' /\ FoundInv' /\ UNCHANGED <<memoryVars, polled>>
    BY <1>0, <1>2, <1>3, ScanFailsTyped DEF PassInv
  <2> QED
    BY <1>0, <2>1, RecordStays DEF TypeInv
<1> DEFINE id == [p \in IdentityPoints |-> IF Quality(a[p]) = "good" THEN a[p]
                                           ELSE IF op = "poll" THEN identity[p] ELSE "none"]
<1>4. CASE /\ scan' = [NoScan EXCEPT !.identity = id, !.points = Variant(id), !.left = Scopes]
           /\ stage' = "scanning"
           /\ UNCHANGED <<memoryVars, checkDue, polled, values, seen, op, before, todo, asked>>
  <2>1. id \in [IdentityPoints -> {"none", "on", "off"}]
    BY <1>0, QualityIs DEF TypeOK
  <2>2. Variant(id) \subseteq Points /\ Points \ Extra \subseteq Variant(id)
    BY VariantIs
  <2> HIDE DEF id
  <2>3. scan' = [identity |-> id, points |-> Variant(id), left |-> Scopes,
                 found |-> [s \in Scopes |-> {}], read |-> << >>]
    BY <1>4 DEF NoScan
  <2>4. FoundInv'
    <3>1. /\ scan'.identity = id /\ scan'.points = Variant(id) /\ scan'.left = Scopes
          /\ scan'.found = [s \in Scopes |-> {}] /\ scan'.read = << >>
      BY <2>3
    <3>2. scan' = [identity |-> scan'.identity, points |-> scan'.points, left |-> scan'.left,
                   found |-> scan'.found, read |-> scan'.read]
      BY <2>3, <3>1
    <3>3. scan'.found \in [Scopes -> SUBSET scan'.points]
      BY <3>1
    <3>4. DOMAIN scan'.read \subseteq Points /\ \A s \in Scopes : DOMAIN OfScan(s, scan'.read) = {}
      BY <3>1 DEF OfScan
    <3>5. Scopes # {} /\ stage' = "scanning"
      BY <1>4, OrderIs
    <3> HIDE DEF Scopes
    <3> QED
      BY <2>1, <2>2, <3>1, <3>2, <3>3, <3>4, <3>5 DEF FoundInv, OfScan
  <2>5. PassInv'
    BY <1>0, <1>2, <1>4 DEF PassInv
  <2>6. TypeOK'
    BY <1>0, <1>2, <1>4 DEF TypeOK, memoryVars
  <2>7. RecordInv'
    BY <1>0, <1>4, RecordStays
  <2> QED
    BY <2>4, <2>5, <2>6, <2>7 DEF TypeInv
<1> QED
  BY <1>1, <1>3, <1>4

LEMMA ScanScopeTyped ==
    ASSUME TypeInv, ScanScope
    PROVE  TypeInv'
<1>0. TypeOK /\ PassInv /\ FoundInv /\ RecordInv
  BY DEF TypeInv
<1> DEFINE s == First(scan.left)
<1>1. PICK ps \in Probes[s] : \E a \in Answers(ps \ DOMAIN scan.read) :
        \/ Unanswered(a) /\ ScanFails
        \/ /\ scan' = [scan EXCEPT !.read = Also(a, @), !.left = @ \ {s},
                                   !.found[s] = Lacking(s, scan.points, Also(a, scan.read))]
           /\ stage' = IF scan.left = {s} THEN "first" ELSE "scanning"
           /\ UNCHANGED <<memoryVars, checkDue, polled, values, seen, op, before, todo, asked>>
  BY DEF ScanScope
<1>5. PICK a \in Answers(ps \ DOMAIN scan.read) :
        \/ Unanswered(a) /\ ScanFails
        \/ /\ scan' = [scan EXCEPT !.read = Also(a, @), !.left = @ \ {s},
                                   !.found[s] = Lacking(s, scan.points, Also(a, scan.read))]
           /\ stage' = IF scan.left = {s} THEN "first" ELSE "scanning"
           /\ UNCHANGED <<memoryVars, checkDue, polled, values, seen, op, before, todo, asked>>
  BY <1>1
<1>2. stage = "scanning" /\ UNCHANGED <<world, requested, wanted, writing, disturbed>>
  BY DEF ScanScope
<1>3. CASE ScanFails
  <2>1. TypeOK' /\ PassInv' /\ FoundInv' /\ UNCHANGED <<memoryVars, polled>>
    BY <1>0, <1>2, <1>3, ScanFailsTyped DEF PassInv
  <2> QED
    BY <1>0, <2>1, RecordStays DEF TypeInv
<1>4. CASE /\ scan' = [scan EXCEPT !.read = Also(a, @), !.left = @ \ {s},
                                   !.found[s] = Lacking(s, scan.points, Also(a, scan.read))]
           /\ stage' = IF scan.left = {s} THEN "first" ELSE "scanning"
           /\ UNCHANGED <<memoryVars, checkDue, polled, values, seen, op, before, todo, asked>>
  <2> DEFINE read == Also(a, scan.read)
  <2>1. /\ scan = [identity |-> scan.identity, points |-> scan.points, left |-> scan.left,
                   found |-> scan.found, read |-> scan.read]
        /\ scan.left \subseteq Scopes /\ scan.left # {}
        /\ scan.found \in [Scopes -> SUBSET scan.points]
        /\ DOMAIN scan.read \subseteq Points
        /\ \A t \in Scopes \ scan.left :
              /\ DOMAIN OfScan(t, scan.read) \in Probes[t] \union {{}}
              /\ scan.found[t] = Lacking(t, scan.points, scan.read)
        /\ \A t \in scan.left : DOMAIN OfScan(t, scan.read) = {}
    BY <1>0, <1>2 DEF FoundInv
  <2>2. s \in scan.left
    BY <2>1, FirstIs
  <2>3. /\ ps \subseteq Points /\ \A p \in ps : ScopeOf[p] = s
        /\ DOMAIN a = ps
    <3>1. ps \subseteq Points /\ \A p \in ps : ScopeOf[p] = s
      BY <1>1, <2>1, <2>2, OrderIs
    <3>2. ps \ DOMAIN scan.read = ps
      <4>1. DOMAIN OfScan(s, scan.read) = {}
        BY <2>1, <2>2
      <4> QED
        BY <3>1, <4>1 DEF OfScan
    <3>3. world \in [Points -> {"on", "off", "gone"}]
      BY <1>0 DEF TypeOK
    <3> QED
      BY <3>1, <3>2, <3>3, AnswersAre
  <2>4. /\ DOMAIN read = DOMAIN scan.read \union ps
        /\ DOMAIN OfScan(s, read) = ps
        /\ \A t \in Scopes \ {s} : OfScan(t, read) = OfScan(t, scan.read)
    <3>1. DOMAIN Also(a, scan.read) = DOMAIN a \union DOMAIN scan.read
      BY AlsoIs
    <3>2. DOMAIN OfScan(s, read) = {p \in DOMAIN a : ScopeOf[p] = s} \union DOMAIN OfScan(s, scan.read)
      BY OfScanIs
    <3>3. ASSUME NEW t \in Scopes \ {s} PROVE OfScan(t, read) = OfScan(t, scan.read)
      <4>1. \A p \in DOMAIN a : ScopeOf[p] # t
        BY <2>3, <3>3
      <4> QED
        BY <4>1, OfScanIs
    <3>4. DOMAIN OfScan(s, scan.read) = {}
      BY <2>1, <2>2
    <3> QED
      BY <2>3, <3>1, <3>2, <3>3, <3>4
  <2>5. Lacking(s, scan.points, read) \subseteq scan.points
    BY <2>1, <2>2, LackingIs
  <2> HIDE DEF read
  <2>6. scan' = [identity |-> scan.identity, points |-> scan.points, left |-> scan.left \ {s},
                 found |-> [scan.found EXCEPT ![s] = Lacking(s, scan.points, read)],
                 read |-> read]
    BY <1>4, <2>1, Zenon DEF read
  <2> HIDE DEF s
  <2>7. /\ scan'.identity = scan.identity /\ scan'.points = scan.points
        /\ scan'.left = scan.left \ {s} /\ scan'.read = read
        /\ scan'.found = [scan.found EXCEPT ![s] = Lacking(s, scan.points, read)]
    BY <2>6
  <2>8. ASSUME NEW t \in Scopes \ scan'.left
        PROVE  /\ DOMAIN OfScan(t, read) \in Probes[t] \union {{}}
               /\ scan'.found[t] = Lacking(t, scan.points, read)
    <3>1. CASE t = s
      BY <1>1, <2>1, <2>2, <2>4, <2>7, <3>1
    <3>2. CASE t # s
      <4>1. /\ t \in Scopes \ scan.left
            /\ DOMAIN OfScan(t, scan.read) \in Probes[t] \union {{}}
            /\ scan.found[t] = Lacking(t, scan.points, scan.read)
        BY <2>1, <2>7, <2>8, <3>2
      <4>2. OfScan(t, read) = OfScan(t, scan.read)
        BY <2>4, <3>2, <4>1
      <4>3. Lacking(t, scan.points, read) = Lacking(t, scan.points, scan.read)
        BY <4>1, <4>2, LackingIs
      <4>4. scan'.found[t] = scan.found[t]
        BY <2>1, <2>7, <3>2, <4>1
      <4> QED
        BY <4>1, <4>2, <4>3, <4>4
    <3> QED
      BY <3>1, <3>2
  <2>13. \A t \in scan'.left : DOMAIN OfScan(t, read) = {}
    BY <2>1, <2>4, <2>7
  <2>9. FoundInv'
    <3>1. scan'.found \in [Scopes -> SUBSET scan'.points]
      BY <2>1, <2>5, <2>7
    <3>2. DOMAIN scan'.read \subseteq Points
      BY <2>1, <2>3, <2>4, <2>7
    <3>3. /\ scan.identity \in [IdentityPoints -> {"none", "on", "off"}]
          /\ scan.points \subseteq Points /\ Points \ Extra \subseteq scan.points
      BY <1>0, <1>2 DEF FoundInv
    <3>4. (stage' = "scanning" <=> scan'.left # {}) /\ stage' \in {"scanning", "first"}
      BY <1>4, <2>2, <2>7 DEF s
    <3>5. scan' = [identity |-> scan'.identity, points |-> scan'.points, left |-> scan'.left,
                   found |-> scan'.found, read |-> scan'.read]
      BY <2>6, <2>7
    <3>6. scan'.left \subseteq Scopes
      BY <2>1, <2>7
    <3>7. \A t \in Scopes \ scan'.left :
            /\ DOMAIN OfScan(t, scan'.read) \in Probes[t] \union {{}}
            /\ scan'.found[t] = Lacking(t, scan'.points, scan'.read)
      BY <2>7, <2>8
    <3>8. \A t \in scan'.left : DOMAIN OfScan(t, scan'.read) = {}
      BY <2>7, <2>13
    <3> QED
      BY <2>7, <3>1, <3>2, <3>3, <3>4, <3>5, <3>6, <3>7, <3>8 DEF FoundInv, Lacking, OfScan
  <2>10. PassInv'
    BY <1>0, <1>2, <1>4 DEF PassInv
  <2>11. TypeOK'
    BY <1>0, <1>2, <1>4 DEF TypeOK, memoryVars
  <2>12. RecordInv'
    BY <1>0, <1>4, RecordStays
  <2> QED
    BY <2>9, <2>10, <2>11, <2>12 DEF TypeInv
<1> QED
  BY <1>3, <1>4, <1>5

\* What a scan that is through records: what it found, and what its check compares with.
LEMMA CommitRecords ==
    ASSUME TypeInv, stage = "first",
           NEW a \in Answers(scan.points \ (Missing(scan.found, {}) \union DOMAIN scan.read)),
           Commit(a), wanted' = wanted
    PROVE  /\ MemoryOK' /\ RecordInv'
           /\ resolved' = scan.points /\ Points \ Extra \subseteq scan.points
           /\ byScan' = scan.found
           /\ polled' = wanted \intersect Available'
<1> DEFINE read == Also(a, scan.read)
           readable == scan.points \ Missing(scan.found, {})
<1>0. TypeOK /\ PassInv /\ FoundInv /\ RecordInv
  BY DEF TypeInv
<1>1. /\ scan.identity \in [IdentityPoints -> {"none", "on", "off"}]
      /\ scan.points \subseteq Points /\ Points \ Extra \subseteq scan.points
      /\ scan.found \in [Scopes -> SUBSET scan.points]
      /\ \A s \in Scopes :
            /\ DOMAIN OfScan(s, scan.read) \in Probes[s] \union {{}}
            /\ scan.found[s] = Lacking(s, scan.points, scan.read)
  BY <1>0 DEF FoundInv
<1>2. /\ identity' = scan.identity /\ resolved' = scan.points
      /\ byScan' = scan.found
      /\ byRead' = Gone(readable, read)
      /\ checkRead' = [s \in Scopes |-> OfScan(s, scan.read)]
      /\ polled' = wanted \intersect Available'
  BY DEF Commit
<1> HIDE DEF read, readable
<1>5. MemoryOK'
  <2>1. byRead' \subseteq resolved' /\ resolved' \subseteq Points
    BY <1>1, <1>2 DEF Gone, readable
  <2>2. \A s \in Scopes : DOMAIN checkRead'[s] \in Probes[s] \union {{}}
    BY <1>1, <1>2
  <2>3. polled' \subseteq wanted' \intersect resolved'
    BY <1>2 DEF Available
  <2> QED
    BY <1>1, <1>2, <2>1, <2>2, <2>3 DEF MemoryOK
<1>6. RecordInv'
  <2>1. \A s \in Scopes : \A p \in byScan'[s] : ScopeOf[p] = s
    BY <1>1, <1>2, LackingIs
  <2>2. ASSUME NEW s \in Scopes PROVE byScan'[s] = Lacking(s, resolved', checkRead'[s])
    <3>1. Lacking(s, scan.points, checkRead'[s]) = Lacking(s, scan.points, scan.read)
      <4>1. OfScan(s, checkRead'[s]) = OfScan(s, scan.read)
        BY <1>2, OfScanIs
      <4> QED
        BY <4>1, LackingIs
    <3> QED
      BY <1>1, <1>2, <3>1
  <2>3. checkRead' = [s \in Scopes |-> checkRead'[s]]
    BY <1>2
  <2>4. RecordFollowsCheck'
    BY <2>2 DEF RecordFollowsCheck, Lacking, Checked
  <2> QED
    BY <2>1, <2>3, <2>4 DEF RecordInv
<1> QED
  BY <1>1, <1>2, <1>5, <1>6

LEMMA FirstReadTyped ==
    ASSUME TypeInv, FirstRead
    PROVE  TypeInv'
<1>0. TypeOK /\ PassInv /\ FoundInv /\ RecordInv
  BY DEF TypeInv
<1>1. PICK a \in Answers(scan.points \ (Missing(scan.found, {}) \union DOMAIN scan.read)) :
        ScanFails \/ Commit(a)
  BY DEF FirstRead
<1>2. stage = "first" /\ UNCHANGED <<world, requested, wanted, writing, disturbed>>
  BY DEF FirstRead
<1>3. CASE ScanFails
  <2>1. TypeOK' /\ PassInv' /\ FoundInv' /\ UNCHANGED <<memoryVars, polled>>
    BY <1>0, <1>2, <1>3, ScanFailsTyped DEF PassInv
  <2> QED
    BY <1>0, <2>1, RecordStays DEF TypeInv
<1>4. CASE Commit(a)
  <2> DEFINE read == Also(a, scan.read)
             readable == scan.points \ Missing(scan.found, {})
             kept == [p \in Points |-> IF p \in scan.points THEN values[p] ELSE "none"]
             shown == Published(kept, readable, read)
  <2>1. MemoryOK' /\ RecordInv'
    BY <1>2, <1>4, CommitRecords
  <2>2. shown \in [Points -> Shown]
    <3>1. kept \in [Points -> Shown]
      BY <1>0 DEF TypeOK, Shown
    <3> HIDE DEF kept, readable, read
    <3> QED
      BY <3>1, PublishedType
  <2>3. /\ checkDue' = {}
        /\ \/ op = "poll" /\ Tell(shown)
           \/ /\ op = "connect" /\ values' = shown /\ seen' = Available'
              /\ stage' = "idle" /\ scan' = NoScan
              /\ UNCHANGED <<op, before, todo, asked>>
    BY <1>4 DEF Commit
  <2> HIDE DEF shown, kept, readable, read
  <2>4. /\ requested' \in BOOLEAN /\ disturbed' \subseteq Writable /\ checkDue' \subseteq Scopes
        /\ todo \subseteq Scopes /\ before \subseteq Points /\ asked = {}
    BY <1>0, <1>2, <2>3 DEF TypeOK, PassInv
  <2>5. ASSUME Tell(shown) PROVE TypeOK' /\ PassInv' /\ FoundInv'
    BY <1>0, <1>2, <2>1, <2>2, <2>4, <2>5, TellTyped
  <2>6. ASSUME op = "connect", values' = shown, seen' = Available', stage' = "idle",
               scan' = NoScan, UNCHANGED <<op, before, todo, asked>>
        PROVE  TypeOK' /\ PassInv' /\ FoundInv'
    <3>1. Available' \subseteq Points
      BY <2>1 DEF MemoryOK, Available
    <3> QED
      BY <1>0, <1>2, <2>1, <2>2, <2>4, <2>6, <3>1, EndsTyped
  <2> QED
    BY <2>1, <2>3, <2>5, <2>6 DEF TypeInv
<1> QED
  BY <1>1, <1>3, <1>4

\* What is recorded missing by reads takes no part in what is recorded by scans.
LEMMA ReadTyped ==
    ASSUME TypeInv, Read
    PROVE  TypeInv'
<1>0. TypeOK /\ PassInv /\ RecordInv
  BY DEF TypeInv
<1> DEFINE gone(a) == Gone(asked, a)
           dueNow(a) == checkDue \union AskedFor(gone(a))
           rests(a) == DueChecks(dueNow(a), requested \/ AskedFor(gone(a)) # {})
<1>1. PICK a \in Answers(asked) :
        /\ byRead' = byRead \union gone(a)
        /\ polled' = polled \ gone(a)
        /\ requested' = FALSE
        /\ UNCHANGED <<identity, resolved, byScan, checkRead>>
        /\ \E rest \in rests(a) : NextCheck(Published(values, asked, a), dueNow(a), rest)
  BY DEF Read
<1>11. PICK rest \in rests(a) : NextCheck(Published(values, asked, a), dueNow(a), rest)
  BY <1>1
<1>2. stage = "reading" /\ UNCHANGED <<world, wanted, writing, disturbed>>
  BY DEF Read
<1>3. gone(a) \subseteq resolved /\ gone(a) \subseteq Points
  BY <1>0 DEF Gone, TypeOK
<1>4. dueNow(a) \subseteq Scopes
  BY <1>0, <1>3, OrderIs DEF TypeOK, AskedFor
<1>5. rest \subseteq Scopes
  BY <1>4 DEF DueChecks
<1>6. Published(values, asked, a) \in [Points -> Shown]
  BY <1>0, MemoryIs, PublishedType
<1> HIDE DEF dueNow, rests
<1>7. MemoryOK'
  BY <1>0, <1>1, <1>2, <1>3, MemoryIs DEF MemoryOK
<1>8. op = "poll" /\ disturbed' \subseteq Writable /\ requested' \in BOOLEAN
  BY <1>0, <1>1, <1>2 DEF TypeOK, PassInv
<1>9. TypeOK' /\ PassInv' /\ FoundInv'
  BY <1>0, <1>1, <1>2, <1>4, <1>5, <1>6, <1>7, <1>8, <1>11, NextCheckTyped
<1>10. RecordInv'
  BY <1>0, <1>1 DEF RecordInv, RecordFollowsCheck, Lacking, Checked
<1> QED
  BY <1>9, <1>10 DEF TypeInv

LEMMA CheckTyped ==
    ASSUME TypeInv, Check
    PROVE  TypeInv'
<1>0. TypeOK /\ PassInv /\ FoundInv /\ RecordInv
  BY DEF TypeInv
<1>1. /\ stage = "checking" /\ UNCHANGED <<world, requested, wanted, writing, memoryVars, polled>>
      /\ \/ /\ UNCHANGED disturbed
            /\ NextCheck(values, checkDue, todo \ {First(todo)})
         \/ /\ stage' = IF First(todo) = Unit THEN "identify" ELSE "rescan"
            /\ disturbed' = writing
            /\ UNCHANGED <<checkDue, values, seen, op, before, todo, asked, scan>>
  BY DEF Check
<1>2. MemoryOK' /\ values \in [Points -> Shown]
  BY <1>0, <1>1, MemoryIs DEF MemoryOK, memoryVars
<1>3. RecordInv'
  BY <1>0, <1>1, RecordStays
<1>4. ASSUME UNCHANGED disturbed, NextCheck(values, checkDue, todo \ {First(todo)})
      PROVE  TypeOK' /\ PassInv' /\ FoundInv'
  <2>1. /\ todo \ {First(todo)} \subseteq Scopes /\ checkDue \subseteq Scopes /\ op = "poll"
        /\ requested' \in BOOLEAN /\ disturbed' \subseteq Writable
    BY <1>0, <1>1, <1>4 DEF TypeOK, PassInv
  <2> QED
    BY <1>0, <1>1, <1>2, <1>4, <2>1, NextCheckTyped
<1>5. ASSUME stage' = IF First(todo) = Unit THEN "identify" ELSE "rescan",
             disturbed' = writing,
             UNCHANGED <<checkDue, values, seen, op, before, todo, asked, scan>>
      PROVE  TypeOK' /\ PassInv' /\ FoundInv'
  <2>1. TypeOK'
    BY <1>0, <1>1, <1>5 DEF TypeOK, memoryVars
  <2>2. PassInv'
    BY <1>0, <1>1, <1>5 DEF PassInv
  <2>3. FoundInv'
    BY <1>0, <1>1, <1>5 DEF FoundInv
  <2> QED
    BY <2>1, <2>2, <2>3
<1> QED
  BY <1>1, <1>3, <1>4, <1>5 DEF TypeInv

\* The part of a rescan that shows what the instance has.
LEMMA ShowTyped ==
    ASSUME TypeOK, PassInv, NEW s, NEW ps, NEW a, NEW br, ShowInstance(s, ps, a, br),
           stage \in {"rescan", "rescanFirst"},
           ps \subseteq resolved, br \subseteq resolved,
           byScan' \in [Scopes -> SUBSET resolved],
           \A t \in Scopes : DOMAIN checkRead'[t] \in Probes[t] \union {{}},
           UNCHANGED <<identity, resolved, world, requested, wanted, writing, disturbed>>
    PROVE  TypeOK' /\ PassInv' /\ FoundInv'
<1> DEFINE own == {p \in resolved : ScopeOf[p] = s}
<1>1. /\ byRead' = br \union Gone(ps, a)
      /\ polled' = (polled \ own) \union (own \intersect wanted \intersect Available')
      /\ NextCheck(Published(values, ps, a), checkDue \intersect Checked', todo \ {s})
  BY DEF ShowInstance
<1>2. MemoryOK'
  <2>1. byRead' \subseteq resolved /\ resolved \subseteq Points
    BY <1>1 DEF Gone, TypeOK
  <2>2. polled' \subseteq wanted \intersect resolved
    BY <1>1 DEF TypeOK
  <2> QED
    BY <2>1, <2>2 DEF MemoryOK, TypeOK
<1>3. Published(values, ps, a) \in [Points -> Shown]
  BY MemoryIs, PublishedType
<1>4. /\ todo \ {s} \subseteq Scopes /\ checkDue \intersect Checked' \subseteq Scopes
      /\ op = "poll"
      /\ requested' \in BOOLEAN /\ disturbed' \subseteq Writable
  BY DEF TypeOK, PassInv
<1> QED
  BY <1>1, <1>2, <1>3, <1>4, NextCheckTyped

LEMMA RescanTyped ==
    ASSUME TypeInv, Rescan
    PROVE  TypeInv'
<1>0. TypeOK /\ PassInv /\ FoundInv /\ RecordInv
  BY DEF TypeInv
<1> DEFINE s == First(todo)
           own == {p \in resolved : ScopeOf[p] = s}
           ps == own \ Missing(byScan', byRead \ own)
<1>5. PICK probed \in Probes[s] : \E a \in Answers(probed) :
        \/ ScanFails
        \/ /\ UNCHANGED <<identity, resolved>>
           /\ byScan' = [byScan EXCEPT ![s] = Lacking(s, resolved, a)]
           /\ checkRead' = [checkRead EXCEPT ![s] = a]
           /\ \/ ShowInstance(s, ps, a, byRead \ own)
              \/ /\ byRead' = byRead \ own
                 /\ stage' = "rescanFirst" /\ asked' = ps
                 /\ scan' = [NoScan EXCEPT !.read = a]
                 /\ checkDue' = checkDue \intersect Checked'
                 /\ UNCHANGED <<polled, values, seen, op, before, todo>>
  BY DEF Rescan
<1>1. PICK a \in Answers(probed) :
        \/ ScanFails
        \/ /\ UNCHANGED <<identity, resolved>>
           /\ byScan' = [byScan EXCEPT ![s] = Lacking(s, resolved, a)]
           /\ checkRead' = [checkRead EXCEPT ![s] = a]
           /\ \/ ShowInstance(s, ps, a, byRead \ own)
              \/ /\ byRead' = byRead \ own
                 /\ stage' = "rescanFirst" /\ asked' = ps
                 /\ scan' = [NoScan EXCEPT !.read = a]
                 /\ checkDue' = checkDue \intersect Checked'
                 /\ UNCHANGED <<polled, values, seen, op, before, todo>>
  BY <1>5
<1>2. stage = "rescan" /\ UNCHANGED <<world, requested, wanted, writing, disturbed>>
  BY DEF Rescan
<1>3. CASE ScanFails
  <2>1. TypeOK' /\ PassInv' /\ FoundInv' /\ UNCHANGED <<memoryVars, polled>>
    BY <1>0, <1>2, <1>3, ScanFailsTyped DEF PassInv
  <2> QED
    BY <1>0, <2>1, RecordStays DEF TypeInv
<1>4. ASSUME UNCHANGED <<identity, resolved>>,
             byScan' = [byScan EXCEPT ![s] = Lacking(s, resolved, a)],
             checkRead' = [checkRead EXCEPT ![s] = a],
             \/ ShowInstance(s, ps, a, byRead \ own)
             \/ /\ byRead' = byRead \ own
                /\ stage' = "rescanFirst" /\ asked' = ps
                /\ scan' = [NoScan EXCEPT !.read = a]
                /\ checkDue' = checkDue \intersect Checked'
                /\ UNCHANGED <<polled, values, seen, op, before, todo>>
      PROVE  TypeInv'
  <2>1. s \in Scopes
    BY <1>0, <1>2, FirstIs DEF PassInv
  <2>2. DOMAIN a = probed /\ probed \in Probes[s] /\ probed \subseteq Points
    <3>1. /\ probed \in Probes[s] /\ probed \subseteq Points
          /\ world \in [Points -> {"on", "off", "gone"}]
      BY <1>0, <1>5, <2>1, OrderIs DEF TypeOK
    <3> QED
      BY <3>1, AnswersAre
  <2>3. /\ Lacking(s, resolved, a) \subseteq resolved
        /\ \A p \in Lacking(s, resolved, a) : ScopeOf[p] = s
    BY <2>1, LackingIs
  <2> HIDE DEF s
  <2>4. byScan' \in [Scopes -> SUBSET resolved]
    BY <1>0, <1>4, <2>1, <2>3 DEF TypeOK
  <2>5. checkRead' = [t \in Scopes |-> IF t = s THEN a ELSE checkRead[t]]
    <3>1. checkRead = [t \in Scopes |-> checkRead[t]]
      BY <1>0 DEF RecordInv
    <3> QED
      BY <1>4, <2>1, <3>1, Zenon
  <2>6. \A t \in Scopes : DOMAIN checkRead'[t] \in Probes[t] \union {{}}
    BY <1>0, <2>1, <2>2, <2>5 DEF TypeOK
  <2>7. RecordInv'
    <3>1. checkRead' = [t \in Scopes |-> checkRead'[t]]
      BY <2>5
    <3>2. \A t \in Scopes : \A p \in byScan'[t] : ScopeOf[p] = t
      BY <1>0, <1>4, <2>1, <2>3 DEF RecordInv, TypeOK
    <3>3. ASSUME NEW t \in Checked'
          PROVE  byScan'[t] = Lacking(t, resolved, checkRead'[t])
      <4>1. CASE t = s
        BY <1>0, <1>4, <2>1, <2>5, <4>1 DEF TypeOK
      <4>2. CASE t # s
        <5>1. t \in Scopes /\ checkRead'[t] = checkRead[t] /\ byScan'[t] = byScan[t]
          BY <1>0, <1>4, <2>5, <3>3, <4>2 DEF TypeOK, Checked
        <5>2. t \in Checked
          BY <3>3, <5>1 DEF Checked
        <5> QED
          BY <1>0, <5>1, <5>2 DEF RecordInv, RecordFollowsCheck
      <4> QED
        BY <4>1, <4>2
    <3>4. RecordFollowsCheck'
      BY <1>4, <3>3 DEF RecordFollowsCheck, Lacking, Checked
    <3> QED
      BY <3>1, <3>2, <3>4 DEF RecordInv
  <2>8. ps \subseteq own /\ own \subseteq resolved /\ byRead \ own \subseteq resolved
    BY <1>0 DEF TypeOK
  <2>9. ASSUME ShowInstance(s, ps, a, byRead \ own) PROVE TypeOK' /\ PassInv' /\ FoundInv'
    <3> HIDE DEF ps, own
    <3>1. ps \subseteq resolved
      BY <2>8
    <3> QED
      BY <1>0, <1>2, <1>4, <2>4, <2>6, <2>8, <2>9, <3>1, ShowTyped
  <2>10. ASSUME byRead' = byRead \ own, stage' = "rescanFirst", asked' = ps,
                scan' = [NoScan EXCEPT !.read = a],
                checkDue' = checkDue \intersect Checked',
                UNCHANGED <<polled, values, seen, op, before, todo>>
         PROVE  TypeOK' /\ PassInv' /\ FoundInv'
    <3>1. TypeOK'
      <4> HIDE DEF ps, own
      <4> QED
        BY <1>0, <1>2, <1>4, <2>4, <2>6, <2>8, <2>10 DEF TypeOK
    <3>2. PassInv'
      <4>1. \A p \in ps : ScopeOf[p] = First(todo)
        BY DEF s
      <4> HIDE DEF ps, own
      <4> QED
        BY <1>0, <1>2, <2>10, <4>1 DEF PassInv
    <3>3. FoundInv'
      <4>1. scan'.read = a
        BY <2>10 DEF NoScan
      <4> QED
        BY <2>2, <2>10, <4>1 DEF FoundInv
    <3> QED
      BY <3>1, <3>2, <3>3
  <2> HIDE DEF ps, own
  <2> QED
    BY <1>4, <2>7, <2>9, <2>10 DEF TypeInv
<1> QED
  BY <1>1, <1>3, <1>4

LEMMA RescanFirstTyped ==
    ASSUME TypeInv, RescanFirst
    PROVE  TypeInv'
<1>0. TypeOK /\ PassInv /\ FoundInv /\ RecordInv
  BY DEF TypeInv
<1>1. PICK a \in Answers(asked \ DOMAIN scan.read) :
        ShowInstance(First(todo), asked, Also(a, scan.read), byRead)
  BY DEF RescanFirst
<1>2. /\ stage = "rescanFirst"
      /\ UNCHANGED <<identity, resolved, byScan, checkRead, world, requested, wanted, writing,
                     disturbed>>
  BY DEF RescanFirst
<1>3. /\ asked \subseteq resolved /\ byRead \subseteq resolved
      /\ byScan' \in [Scopes -> SUBSET resolved]
      /\ \A t \in Scopes : DOMAIN checkRead'[t] \in Probes[t] \union {{}}
  BY <1>0, <1>2 DEF TypeOK
<1>4. TypeOK' /\ PassInv' /\ FoundInv'
  BY <1>0, <1>1, <1>2, <1>3, ShowTyped
<1>5. RecordInv'
  BY <1>0, <1>2 DEF RecordInv, RecordFollowsCheck, Lacking, Checked
<1> QED
  BY <1>4, <1>5 DEF TypeInv

\* What holds at first.
LEMMA InitTyped == Init => TypeInv
<1> SUFFICES ASSUME Init PROVE TypeInv
  OBVIOUS
<1>1. TypeOK
  <2>1. world \in [Points -> {"on", "off", "gone"}] /\ values \in [Points -> Shown]
    BY DEF Init, Shown
  <2>2. \A s \in Scopes : DOMAIN checkRead[s] = {}
    BY DEF Init
  <2>3. byScan \in [Scopes -> SUBSET resolved]
    BY DEF Init
  <2>4. identity \in [IdentityPoints -> {"none", "on", "off"}]
    BY DEF Init
  <2>5. /\ resolved = {} /\ byRead = {} /\ checkDue = {} /\ wanted = {} /\ polled = {}
        /\ seen = {} /\ writing = {} /\ disturbed = {} /\ before = {} /\ asked = {}
        /\ requested = FALSE /\ op = "poll" /\ stage = "idle"
    BY DEF Init
  <2> HIDE DEF Scopes
  <2> QED
    BY <2>1, <2>2, <2>3, <2>4, <2>5 DEF TypeOK, Shown
<1>2. PassInv
  BY DEF Init, PassInv
<1>3. FoundInv
  BY NoScanIs DEF Init, FoundInv
<1>4. RecordInv
  BY DEF Init, RecordInv, RecordFollowsCheck, Checked
<1> QED
  BY <1>1, <1>2, <1>3, <1>4 DEF TypeInv

LEMMA StepTyped == TypeInv /\ [Next]_vars => TypeInv'
<1> SUFFICES ASSUME TypeInv, [Next]_vars PROVE TypeInv'
  OBVIOUS
<1>1. \/ Aside \/ Connect \/ Poll \/ Cancel \/ Reject
      \/ Identify \/ ScanScope \/ FirstRead \/ Read \/ Check \/ Rescan \/ RescanFirst
  BY DEF Next, Client, Aside
<1> QED
  BY <1>1, AsideTyped, ConnectTyped, PollTyped, StopsTyped, IdentifyTyped, ScanScopeTyped,
     FirstReadTyped, ReadTyped, CheckTyped, RescanTyped, RescanFirstTyped

LEMMA AlwaysTyped == Spec => []TypeInv
<1>1. Init => TypeInv
  BY InitTyped
<1>2. TypeInv /\ [Next]_vars => TypeInv'
  BY StepTyped
<1> QED
  BY <1>1, <1>2, PTL DEF Spec

\* Every variable holds values of its kind: what is recorded missing, read and polled are
\* points of the model that was resolved (_resolved, _missing_by_scan, _missing_by_read).
THEOREM ScanTypeCorrect == Spec => []TypeOK
<1>1. TypeInv => TypeOK
  BY DEF TypeInv
<1> QED
  BY <1>1, AlwaysTyped, PTL

\* A check that reads what its scan read has nothing to find out: what the scan's record
\* holds is what those answers say, whatever ran, failed or was cancelled (_run_checks()).
THEOREM RecordIsOfCheck == Spec => []RecordFollowsCheck
<1>1. TypeInv => RecordFollowsCheck
  BY DEF TypeInv, RecordInv
<1> QED
  BY <1>1, AlwaysTyped, PTL

-----------------------------------------------------------------------------
(***************************************************************************)
(* Whom the consumers were told of.                                        *)
(***************************************************************************)
\* A step of connect() or poll() after its first await: it records nothing, or goes on, or
\* it is over - and a pass that is over has told what it found.
LEMMA WithinPass ==
    ASSUME TypeInv, Cancel \/ Reject \/ Client
    PROVE  /\ stage # "idle" /\ UNCHANGED <<op, before, wanted, writing, connects>>
           /\ \/ op = "poll" /\ \E shown : Tell(shown)
              \/ op = "poll" /\ stage' # "idle" /\ UNCHANGED seen
              \/ op = "connect" /\ UNCHANGED <<memoryVars, values, seen>>
              \/ op = "connect" /\ stage = "first" /\ stage' = "idle" /\ seen' = Available'
<1>0. PassInv /\ op \in {"connect", "poll"}
  BY DEF TypeInv, TypeOK
<1> DEFINE Ends == \/ op = "poll" /\ \E shown : Tell(shown)
                   \/ op = "poll" /\ stage' # "idle" /\ UNCHANGED seen
                   \/ op = "connect" /\ UNCHANGED <<memoryVars, values, seen>>
                   \/ op = "connect" /\ stage = "first" /\ stage' = "idle" /\ seen' = Available'
           Same == UNCHANGED <<op, before>> /\ Ends
<1>1. ASSUME NEW shown, NEW dueNow, NEW rest, NextCheck(shown, dueNow, rest), op = "poll"
      PROVE  Same
  BY <1>1, NextCheckIs
<1>2. ASSUME NEW shown, Tell(shown), op = "poll" PROVE Same
  BY <1>2 DEF Tell
<1>3. ASSUME ScanFails PROVE Same
  <2>1. ASSUME op = "connect", UNCHANGED <<memoryVars, values, seen, op, before>> PROVE Same
    BY <2>1
  <2> QED
    BY <1>1, <1>3, <2>1 DEF ScanFails
<1>4. ASSUME UNCHANGED <<memoryVars, values, seen, op, before>>, stage' # "idle" PROVE Same
  BY <1>0, <1>4
<1>5. ASSUME Cancel \/ Reject PROVE stage # "idle" /\ UNCHANGED <<wanted, writing, connects>> /\ Same
  <2>1. \/ op = "poll" /\ Tell(values)
        \/ op = "connect" /\ UNCHANGED <<memoryVars, values, seen, op, before>>
    BY <1>5 DEF Cancel, Reject
  <2>2. stage # "idle" /\ UNCHANGED <<wanted, writing, connects>>
    BY <1>5 DEF Cancel, Reject, boundVars
  <2> QED
    BY <1>2, <2>1, <2>2
<1>6. ASSUME Identify \/ ScanScope
      PROVE  stage # "idle" /\ UNCHANGED <<wanted, writing, connects>> /\ Same
  <2>1. \/ ScanFails
        \/ /\ stage' # "idle"
           /\ UNCHANGED <<memoryVars, values, seen, op, before>>
    BY <1>6 DEF Identify, ScanScope
  <2>2. stage # "idle" /\ UNCHANGED <<wanted, writing, connects>>
    BY <1>6 DEF Identify, ScanScope
  <2> QED
    BY <1>3, <1>4, <2>1, <2>2
<1>7. ASSUME FirstRead PROVE stage # "idle" /\ UNCHANGED <<wanted, writing, connects>> /\ Same
  <2>1. PICK a : ScanFails \/ Commit(a)
    BY <1>7 DEF FirstRead
  <2>2. stage = "first" /\ UNCHANGED <<wanted, writing, connects>>
    BY <1>7 DEF FirstRead
  <2>3. ASSUME Commit(a) PROVE Same
    <3>1. \/ op = "poll" /\ \E shown : Tell(shown)
          \/ /\ op = "connect" /\ seen' = Available' /\ stage' = "idle"
             /\ UNCHANGED <<op, before>>
      BY <2>3 DEF Commit
    <3> QED
      BY <1>2, <2>2, <3>1
  <2> QED
    BY <1>3, <2>1, <2>2, <2>3
<1>8. ASSUME Read PROVE stage # "idle" /\ UNCHANGED <<wanted, writing, connects>> /\ Same
  <2>1. stage = "reading" /\ UNCHANGED <<wanted, writing, connects>>
    BY <1>8 DEF Read
  <2>2. \E shown, dueNow, rest : NextCheck(shown, dueNow, rest)
    BY <1>8 DEF Read
  <2>3. op = "poll"
    BY <1>0, <2>1 DEF PassInv
  <2> QED
    BY <1>1, <2>1, <2>2, <2>3
<1>9. ASSUME Check PROVE stage # "idle" /\ UNCHANGED <<wanted, writing, connects>> /\ Same
  <2>1. stage = "checking" /\ UNCHANGED <<wanted, writing, connects>>
    BY <1>9 DEF Check
  <2>2. \/ NextCheck(values, checkDue, todo \ {First(todo)})
        \/ /\ stage' # "idle"
           /\ UNCHANGED <<memoryVars, values, seen, op, before>>
    BY <1>9 DEF Check
  <2>3. op = "poll"
    BY <1>0, <2>1 DEF PassInv
  <2> QED
    BY <1>1, <1>4, <2>1, <2>2, <2>3
<1>10. ASSUME Rescan \/ RescanFirst
       PROVE  stage # "idle" /\ UNCHANGED <<wanted, writing, connects>> /\ Same
  <2>1. stage \in {"rescan", "rescanFirst"} /\ UNCHANGED <<wanted, writing, connects>>
    BY <1>10 DEF Rescan, RescanFirst
  <2>2. \/ ScanFails
        \/ \E s, ps, a, br : ShowInstance(s, ps, a, br)
        \/ stage' = "rescanFirst" /\ UNCHANGED <<seen, op, before>>
    BY <1>10 DEF Rescan, RescanFirst
  <2>3. op = "poll"
    BY <1>0, <2>1 DEF PassInv
  <2>4. ASSUME \E s, ps, a, br : ShowInstance(s, ps, a, br) PROVE Same
    <3>1. \E shown, dueNow, rest : NextCheck(shown, dueNow, rest)
      BY <2>4 DEF ShowInstance
    <3> QED
      BY <1>1, <2>3, <3>1
  <2> QED
    BY <1>3, <2>1, <2>2, <2>3, <2>4
<1> HIDE DEF Ends
<1>11. stage # "idle" /\ UNCHANGED <<wanted, writing, connects>> /\ Same
  BY <1>5, <1>6, <1>7, <1>8, <1>9, <1>10 DEF Client
<1> QED
  BY <1>11 DEF Ends

LEMMA SeenStep ==
    ASSUME TypeInv, SeenInv, [Next]_vars
    PROVE  SeenInv'
<1>0. op \in {"connect", "poll"}
  BY DEF TypeInv, TypeOK
<1>1. ASSUME Aside PROVE SeenInv'
  BY <1>1, AsideIs DEF SeenInv, memoryVars, taskVars, Available, Unavailable, Missing
<1>2. ASSUME Connect PROVE SeenInv'
  BY <1>2 DEF Connect, SeenInv, memoryVars, Available, Unavailable, Missing
<1>3. ASSUME Poll PROVE SeenInv'
  <2>1. stage = "idle" /\ op' = "poll" /\ before' = Available /\ UNCHANGED <<memoryVars, seen>>
    BY <1>3 DEF Poll
  <2> QED
    BY <2>1 DEF SeenInv, memoryVars, Available, Unavailable, Missing
<1>4. ASSUME Cancel \/ Reject \/ Client PROVE SeenInv'
  <2>1. /\ stage # "idle" /\ UNCHANGED <<op, before>>
        /\ \/ op = "poll" /\ \E shown : Tell(shown)
           \/ op = "poll" /\ stage' # "idle" /\ UNCHANGED seen
           \/ op = "connect" /\ UNCHANGED <<memoryVars, values, seen>>
           \/ op = "connect" /\ stage' = "idle" /\ seen' = Available'
    BY <1>4, WithinPass
  <2>2. ASSUME op = "poll", \E shown : Tell(shown) PROVE SeenInv'
    <3>1. stage' = "idle" /\ seen' = (seen \ (before \ Available')) \union (Available' \ before)
      BY <2>2 DEF Tell
    <3>2. seen = before
      BY <2>1, <2>2 DEF SeenInv
    <3>3. seen' = Available'
      BY <3>1, <3>2
    <3> QED
      BY <3>1, <3>3 DEF SeenInv
  <2>3. ASSUME op = "poll", stage' # "idle", UNCHANGED seen PROVE SeenInv'
    BY <2>1, <2>3 DEF SeenInv
  <2>4. ASSUME op = "connect", UNCHANGED <<memoryVars, values, seen>> PROVE SeenInv'
    BY <2>1, <2>4 DEF SeenInv, memoryVars, Available, Unavailable, Missing
  <2>5. ASSUME op = "connect", stage' = "idle", seen' = Available' PROVE SeenInv'
    BY <2>1, <2>5 DEF SeenInv
  <2> QED
    BY <2>1, <2>2, <2>3, <2>4, <2>5
<1>5. Aside \/ Connect \/ Poll \/ Cancel \/ Reject \/ Client
  BY DEF Next, Aside
<1> QED
  BY <1>1, <1>2, <1>3, <1>4, <1>5

\* The consumers know what the unit has once a pass is over: what they were told they gained
\* and lost since connect() adds up to it, however the passes ended (_tell_points()).
THEOREM ToldAddsUp == Spec => []EventsAddUp
<1>1. Init => TypeInv /\ SeenInv
  <2>1. Init => SeenInv
    BY DEF Init, SeenInv, Available
  <2> QED
    BY <2>1, InitTyped
<1>2. TypeInv /\ SeenInv /\ [Next]_vars => TypeInv' /\ SeenInv'
  BY StepTyped, SeenStep
<1>3. TypeInv /\ SeenInv => EventsAddUp
  BY DEF SeenInv, EventsAddUp
<1> QED
  BY <1>1, <1>2, <1>3, PTL DEF Spec

-----------------------------------------------------------------------------
(***************************************************************************)
(* What is polled.                                                         *)
(***************************************************************************)
LEMMA AvailableStays ==
    ASSUME UNCHANGED memoryVars
    PROVE  Unavailable' = Unavailable /\ Available' = Available /\ resolved' = resolved
BY DEF memoryVars, Available, Unavailable, Missing

\* A read takes away what it finds gone.
LEMMA ReadTakesAway ==
    ASSUME NEW gone, byRead' = byRead \union gone, UNCHANGED <<resolved, byScan>>
    PROVE  Available' = Available \ gone
BY DEF Available, Unavailable, Missing

\* A rescan finds nothing out of other scans' points.
LEMMA Elsewhere ==
    ASSUME TypeInv, Rescan \/ RescanFirst
    PROVE  /\ resolved' = resolved
           /\ \A p \in Points : ScopeOf[p] # First(todo) => (p \in Available' <=> p \in Available)
<1> DEFINE s == First(todo)
           own == {p \in resolved : ScopeOf[p] = s}
           Same == /\ resolved' = resolved
                   /\ \A p \in Points : ScopeOf[p] # s => (p \in Available' <=> p \in Available)
<1>0. TypeOK /\ PassInv /\ RecordInv
  BY DEF TypeInv
<1>1. ASSUME UNCHANGED memoryVars PROVE Same
  BY <1>1, AvailableStays
<1>2. ASSUME Rescan PROVE Same
  <2>1. PICK a :
          \/ UNCHANGED memoryVars
          \/ /\ resolved' = resolved
             /\ byScan' = [byScan EXCEPT ![s] = Lacking(s, resolved, a)]
             /\ \E more : byRead' = (byRead \ own) \union more /\ more \subseteq own
    <3>1. PICK a :
            \/ ScanFails
            \/ /\ resolved' = resolved
               /\ byScan' = [byScan EXCEPT ![s] = Lacking(s, resolved, a)]
               /\ \/ ShowInstance(s, own \ Missing(byScan', byRead \ own), a, byRead \ own)
                  \/ byRead' = byRead \ own
      BY <1>2 DEF Rescan
    <3>2. ASSUME ShowInstance(s, own \ Missing(byScan', byRead \ own), a, byRead \ own)
          PROVE  \E more : byRead' = (byRead \ own) \union more /\ more \subseteq own
      <4> DEFINE more == Gone(own \ Missing(byScan', byRead \ own), a)
      <4>1. byRead' = (byRead \ own) \union more
        BY <3>2 DEF ShowInstance
      <4>2. more \subseteq own
        BY DEF Gone
      <4> HIDE DEF more, own
      <4> QED
        BY <4>1, <4>2
    <3>3. ASSUME byRead' = byRead \ own
          PROVE  \E more : byRead' = (byRead \ own) \union more /\ more \subseteq own
      <4>1. PICK more : more = {}
        OBVIOUS
      <4> HIDE DEF own
      <4>2. byRead' = (byRead \ own) \union more /\ more \subseteq own
        BY <3>3, <4>1
      <4> QED
        BY <4>2
    <3>4. ScanFails => UNCHANGED memoryVars
      BY DEF ScanFails
    <3> HIDE DEF own
    <3> QED
      BY <3>1, <3>2, <3>3, <3>4
  <2>2. ASSUME resolved' = resolved, byScan' = [byScan EXCEPT ![s] = Lacking(s, resolved, a)],
               \E more : byRead' = (byRead \ own) \union more /\ more \subseteq own
        PROVE  Same
    <3>1. s \in Scopes
      BY <1>0, <1>2, FirstIs DEF PassInv, Rescan
    <3>2. \A p \in Lacking(s, resolved, a) : ScopeOf[p] = s
      BY <3>1, LackingIs
    <3>3. \A p \in byScan[s] : ScopeOf[p] = s
      BY <1>0, <3>1 DEF RecordInv
    <3> HIDE DEF s
    <3>4. /\ \A t \in Scopes \ {s} : byScan'[t] = byScan[t]
          /\ byScan'[s] = Lacking(s, resolved, a)
      BY <1>0, <2>2, <3>1 DEF TypeOK
    <3>5. ASSUME NEW p \in Points, ScopeOf[p] # s
          PROVE  p \in Unavailable' <=> p \in Unavailable
      <4>1. p \in byRead' <=> p \in byRead
        BY <2>2, <3>5
      <4>2. \A t \in Scopes : p \in byScan'[t] <=> p \in byScan[t]
        BY <3>1, <3>2, <3>3, <3>4, <3>5
      <4> HIDE DEF Scopes
      <4> QED
        BY <4>1, <4>2 DEF Unavailable, Missing
    <3> QED
      BY <2>2, <3>5 DEF Available
  <2> HIDE DEF Same
  <2> QED
    BY <1>1, <2>1, <2>2
<1>3. ASSUME RescanFirst PROVE Same
  <2>1. PICK a : byRead' = byRead \union Gone(asked, a)
    BY <1>3 DEF RescanFirst, ShowInstance
  <2>2. UNCHANGED <<resolved, byScan>> /\ stage = "rescanFirst"
    BY <1>3 DEF RescanFirst
  <2>3. Available' = Available \ Gone(asked, a)
    BY <2>1, <2>2, ReadTakesAway
  <2>4. \A p \in Gone(asked, a) : ScopeOf[p] = s
    BY <1>0, <2>2 DEF PassInv, Gone
  <2> QED
    BY <2>2, <2>3, <2>4
<1> HIDE DEF s
<1> QED
  BY <1>2, <1>3 DEF s

LEMMA PolledStep ==
    ASSUME TypeInv, PolledInv, [Next]_vars
    PROVE  PolledInv'
<1>0. TypeOK /\ PassInv /\ polled \subseteq wanted \intersect resolved /\ resolved \subseteq Points
  BY DEF TypeInv, TypeOK
<1>1. ASSUME UNCHANGED <<memoryVars, polled, wanted>>, stage # "rescanFirst",
             interrupted' = interrupted
      PROVE  PolledInv'
  BY <1>1, AvailableStays DEF PolledInv
<1>2. ASSUME Aside PROVE PolledInv'
  <2>1. UNCHANGED <<memoryVars, taskVars, interrupted>>
    BY <1>2, AsideIs
  <2>2. Available' = Available /\ stage' = stage /\ todo' = todo
    BY <2>1, AvailableStays DEF taskVars
  <2>3. ASSUME UNCHANGED <<wanted, polled>> PROVE PolledInv'
    BY <2>1, <2>2, <2>3 DEF PolledInv
  <2>4. ASSUME NEW p \in Points, SetPolling(p) PROVE PolledInv'
    <3>1. polled' = IF p \in wanted' \intersect Available THEN polled \union {p} ELSE polled \ {p}
      BY <2>4 DEF SetPolling
    <3>2. \A q \in Points \ {p} : q \in wanted' <=> q \in wanted
      BY <2>4 DEF SetPolling
    <3>3. p \in polled' <=> p \in wanted' \intersect Available
      BY <3>1
    <3>4. \A q \in Points \ {p} : q \in polled' <=> q \in polled
      BY <3>1
    <3> QED
      BY <2>1, <2>2, <3>2, <3>3, <3>4 DEF PolledInv
  <2> QED
    BY <1>2, <2>3, <2>4 DEF Aside, Change, WriteBegins, WriteEnds, CheckComesDue, RefreshScan, vars
<1>3. ASSUME Connect PROVE PolledInv'
  BY <1>1, <1>3 DEF Connect
<1>4. ASSUME Poll PROVE PolledInv'
  BY <1>1, <1>4 DEF Poll
<1>5. ASSUME Cancel PROVE PolledInv'
  <2>1. /\ UNCHANGED <<memoryVars, polled, wanted>>
        /\ interrupted' = (interrupted \/ stage = "rescanFirst")
    BY <1>5 DEF Cancel
  <2>2. ASSUME stage = "rescanFirst" PROVE PolledInv'
    BY <2>1, <2>2 DEF PolledInv
  <2>3. ASSUME stage # "rescanFirst" PROVE PolledInv'
    BY <2>1, <2>3, AvailableStays DEF PolledInv
  <2> QED
    BY <2>2, <2>3
<1>6. ASSUME Reject PROVE PolledInv'
  BY <1>1, <1>6 DEF Reject
<1>7. ASSUME Identify \/ ScanScope \/ Check PROVE PolledInv'
  <2>1. /\ UNCHANGED <<memoryVars, polled, wanted>> /\ interrupted' = interrupted
        /\ stage # "rescanFirst"
    BY <1>7 DEF Identify, ScanScope, Check, ScanFails
  <2> QED
    BY <1>1, <2>1
<1>8. ASSUME FirstRead PROVE PolledInv'
  <2>1. stage = "first" /\ UNCHANGED <<wanted, interrupted>>
    BY <1>8 DEF FirstRead
  <2>2. UNCHANGED <<memoryVars, polled>> \/ polled' = wanted \intersect Available'
    BY <1>8 DEF FirstRead, ScanFails, Commit
  <2>3. ASSUME polled' = wanted \intersect Available' PROVE PolledInv'
    BY <2>1, <2>3 DEF PolledInv
  <2> QED
    BY <1>1, <2>1, <2>2, <2>3
<1>9. ASSUME Read PROVE PolledInv'
  <2>1. PICK a : byRead' = byRead \union Gone(asked, a) /\ polled' = polled \ Gone(asked, a)
    BY <1>9 DEF Read
  <2>2. stage = "reading" /\ UNCHANGED <<resolved, byScan, wanted, interrupted>>
    BY <1>9 DEF Read
  <2>3. Available' = Available \ Gone(asked, a)
    BY <2>1, <2>2, ReadTakesAway
  <2> QED
    BY <2>1, <2>2, <2>3 DEF PolledInv
<1>10. ASSUME NEW ps, NEW a, NEW br, ShowInstance(First(todo), ps, a, br),
              Rescan \/ RescanFirst
       PROVE  PolledInv'
  <2> DEFINE s == First(todo)
             own == {p \in resolved : ScopeOf[p] = s}
  <2>1. /\ polled' = (polled \ own) \union (own \intersect wanted \intersect Available')
        /\ UNCHANGED <<wanted, interrupted>>
    BY <1>10 DEF ShowInstance, Rescan, RescanFirst
  <2>2. /\ resolved' = resolved
        /\ \A p \in Points : ScopeOf[p] # s => (p \in Available' <=> p \in Available)
    BY <1>10, Elsewhere
  <2> HIDE DEF s
  <2>3. Available' \subseteq resolved
    BY <2>2 DEF Available
  <2>4. ASSUME NEW p \in Points, ~interrupted PROVE p \in polled' <=> p \in wanted' \intersect Available'
    <3>1. ASSUME ScopeOf[p] = s PROVE p \in polled' <=> p \in wanted' \intersect Available'
      BY <1>0, <2>1, <2>3, <3>1
    <3>2. ASSUME ScopeOf[p] # s PROVE p \in polled' <=> p \in wanted' \intersect Available'
      BY <2>1, <2>2, <2>4, <3>2 DEF PolledInv, s
    <3> QED
      BY <3>1, <3>2
  <2> QED
    BY <2>1, <2>4 DEF PolledInv
<1>11. ASSUME Rescan PROVE PolledInv'
  <2>1. \/ ScanFails
        \/ \E ps, a, br : ShowInstance(First(todo), ps, a, br)
        \/ stage' = "rescanFirst" /\ UNCHANGED <<polled, todo>>
    BY <1>11 DEF Rescan
  <2>2. stage = "rescan" /\ UNCHANGED <<wanted, interrupted>>
    BY <1>11 DEF Rescan
  <2>3. ASSUME stage' = "rescanFirst", UNCHANGED <<polled, todo>> PROVE PolledInv'
    <3>1. First(todo') = First(todo)
      BY <2>3
    <3>2. \A p \in Points : ScopeOf[p] # First(todo) => (p \in Available' <=> p \in Available)
      BY <1>11, Elsewhere
    <3> QED
      BY <2>2, <2>3, <3>1, <3>2 DEF PolledInv
  <2>4. ScanFails => UNCHANGED <<memoryVars, polled>>
    BY DEF ScanFails
  <2> QED
    BY <1>1, <1>10, <1>11, <2>1, <2>2, <2>3, <2>4
<1>12. ASSUME RescanFirst PROVE PolledInv'
  <2>1. \E ps, a, br : ShowInstance(First(todo), ps, a, br)
    BY <1>12 DEF RescanFirst
  <2> QED
    BY <1>10, <1>12, <2>1
<1>13. \/ Aside \/ Connect \/ Poll \/ Cancel \/ Reject
       \/ Identify \/ ScanScope \/ FirstRead \/ Read \/ Check \/ Rescan \/ RescanFirst
  BY DEF Next, Client, Aside
<1> QED
  BY <1>2, <1>3, <1>4, <1>5, <1>6, <1>7, <1>8, <1>9, <1>11, <1>12, <1>13

LEMMA AlwaysPolled == Spec => [](TypeInv /\ PolledInv)
<1>1. Init => TypeInv /\ PolledInv
  <2>1. Init => PolledInv
    BY DEF Init, PolledInv
  <2> QED
    BY <2>1, InitTyped
<1>2. TypeInv /\ PolledInv /\ [Next]_vars => TypeInv' /\ PolledInv'
  BY StepTyped, PolledStep
<1> QED
  BY <1>1, <1>2, PTL DEF Spec

\* What is polled follows from who wants it and what the unit has, whatever changed them
\* (_update_polling()), unless a poll() was cancelled half way through a rescan.
THEOREM PolledFollows == Spec => []PollingFollows
<1>1. TypeInv /\ PolledInv => PollingFollows
  <2> SUFFICES ASSUME TypeInv, PolledInv, stage = "idle", ~interrupted
               PROVE  polled = wanted \intersect Available
    BY DEF PollingFollows
  <2>1. polled \subseteq Points /\ wanted \intersect Available \subseteq Points
    BY DEF TypeInv, TypeOK, Available
  <2>2. \A p \in Points : p \in polled <=> p \in wanted \intersect Available
    BY DEF PolledInv
  <2> QED
    BY <2>1, <2>2
<1> QED
  BY <1>1, AlwaysPolled, PTL

LEMMA GoneStep ==
    ASSUME TypeInv, GoneInv, [Next]_vars
    PROVE  GoneInv'
<1>0. TypeOK /\ PassInv
  BY DEF TypeInv
<1>1. ASSUME UNCHANGED <<memoryVars, polled>>, stage' # "reading" PROVE GoneInv'
  BY <1>1 DEF GoneInv, memoryVars
<1>2. ASSUME Aside PROVE GoneInv'
  <2>1. UNCHANGED <<memoryVars, taskVars>>
    BY <1>2, AsideIs
  <2>2. ASSUME NEW p \in Points, SetPolling(p) PROVE polled' \intersect byRead = {}
    <3>1. polled' = IF p \in wanted' \intersect Available THEN polled \union {p} ELSE polled \ {p}
      BY <2>2 DEF SetPolling
    <3>2. p \in Available => p \notin byRead
      BY DEF Available, Unavailable, Missing
    <3> QED
      BY <3>1, <3>2 DEF GoneInv
  <2>3. polled' \intersect byRead = {}
    BY <1>2, <2>2 DEF GoneInv, Aside, Change, WriteBegins, WriteEnds, CheckComesDue, RefreshScan, vars
  <2> QED
    BY <2>1, <2>3 DEF GoneInv, memoryVars, taskVars
<1>3. ASSUME Connect PROVE GoneInv'
  BY <1>1, <1>3 DEF Connect
<1>4. ASSUME Poll PROVE GoneInv'
  <2>1. UNCHANGED <<memoryVars, polled>>
    BY <1>4 DEF Poll
  <2>2. stage' # "reading" \/ asked' \subseteq polled
    BY <1>4 DEF Poll
  <2> QED
    BY <1>1, <2>1, <2>2 DEF GoneInv, memoryVars
<1>5. ASSUME Cancel \/ Reject \/ Identify \/ ScanScope \/ Check PROVE GoneInv'
  <2>1. UNCHANGED <<memoryVars, polled>>
    BY <1>5 DEF Cancel, Reject, Identify, ScanScope, Check, ScanFails
  <2>2. stage' # "reading"
    BY <1>5 DEF Cancel, Reject, Identify, ScanScope, Check, ScanFails, NextCheck, Tell
  <2> QED
    BY <1>1, <2>1, <2>2
<1>6. ASSUME FirstRead PROVE GoneInv'
  <2>1. stage' # "reading"
    BY <1>6 DEF FirstRead, ScanFails, Commit, NextCheck, Tell
  <2>2. UNCHANGED <<memoryVars, polled>> \/ polled' = wanted \intersect Available'
    BY <1>6 DEF FirstRead, ScanFails, Commit
  <2>3. Available' \intersect byRead' = {}
    BY DEF Available, Unavailable, Missing
  <2> QED
    BY <1>1, <2>1, <2>2, <2>3 DEF GoneInv
<1>7. ASSUME Read PROVE GoneInv'
  <2>1. PICK a : byRead' = byRead \union Gone(asked, a) /\ polled' = polled \ Gone(asked, a)
    BY <1>7 DEF Read
  <2>2. stage' # "reading"
    BY <1>7 DEF Read, NextCheck, Tell
  <2> QED
    BY <2>1, <2>2 DEF GoneInv
<1>8. ASSUME NEW s, NEW ps, NEW a, NEW br, ShowInstance(s, ps, a, br),
             br \subseteq byRead, \A p \in ps : p \in resolved /\ ScopeOf[p] = s
      PROVE  GoneInv'
  <2> DEFINE own == {p \in resolved : ScopeOf[p] = s}
  <2>1. /\ byRead' = br \union Gone(ps, a)
        /\ polled' = (polled \ own) \union (own \intersect wanted \intersect Available')
    BY <1>8 DEF ShowInstance
  <2>2. stage' # "reading"
    BY <1>8 DEF ShowInstance, NextCheck, Tell
  <2>3. Available' \intersect byRead' = {}
    BY DEF Available, Unavailable, Missing
  <2>4. Gone(ps, a) \subseteq own
    BY <1>8 DEF Gone
  <2> HIDE DEF own
  <2> QED
    BY <1>8, <2>1, <2>2, <2>3, <2>4 DEF GoneInv
<1>9. ASSUME Rescan PROVE GoneInv'
  <2> DEFINE s == First(todo)
             own == {p \in resolved : ScopeOf[p] = s}
             ps == own \ Missing(byScan', byRead \ own)
  <2>1. \/ ScanFails
        \/ \E a : ShowInstance(s, ps, a, byRead \ own)
        \/ byRead' = byRead \ own /\ stage' = "rescanFirst" /\ polled' = polled
    BY <1>9 DEF Rescan
  <2>2. ScanFails => UNCHANGED <<memoryVars, polled>> /\ stage' # "reading"
    BY DEF ScanFails, NextCheck, Tell
  <2>3. ASSUME NEW a, ShowInstance(s, ps, a, byRead \ own) PROVE GoneInv'
    <3>1. \A p \in ps : p \in resolved /\ ScopeOf[p] = s
      OBVIOUS
    <3>2. byRead \ own \subseteq byRead
      OBVIOUS
    <3> HIDE DEF ps, own, s
    <3> QED
      BY <1>8, <2>3, <3>1, <3>2
  <2>4. ASSUME byRead' = byRead \ own, stage' = "rescanFirst", polled' = polled PROVE GoneInv'
    BY <2>4 DEF GoneInv
  <2> HIDE DEF ps, own, s
  <2> QED
    BY <1>1, <2>1, <2>2, <2>3, <2>4
<1>10. ASSUME RescanFirst PROVE GoneInv'
  <2>1. PICK a : ShowInstance(First(todo), asked, Also(a, scan.read), byRead)
    BY <1>10 DEF RescanFirst
  <2>2. \A p \in asked : p \in resolved /\ ScopeOf[p] = First(todo)
    BY <1>0, <1>10 DEF TypeOK, PassInv, RescanFirst
  <2> QED
    BY <1>8, <2>1, <2>2
<1>11. \/ Aside \/ Connect \/ Poll \/ Cancel \/ Reject
       \/ Identify \/ ScanScope \/ FirstRead \/ Read \/ Check \/ Rescan \/ RescanFirst
  BY DEF Next, Client, Aside
<1> QED
  BY <1>2, <1>3, <1>4, <1>5, <1>6, <1>7, <1>9, <1>10, <1>11

LEMMA OwedStep ==
    ASSUME TypeInv, OwedInv, [Next]_vars
    PROVE  OwedInv'
<1>0. PassInv /\ op \in {"connect", "poll"}
  BY DEF TypeInv, TypeOK
<1>1. ASSUME NEW shown, NEW dueNow, NEW rest, NextCheck(shown, dueNow, rest),
             owed' \subseteq rest, op = "poll"
      PROVE  OwedInv'
  BY <1>1, NextCheckIs DEF OwedInv
<1>2. ASSUME ScanFails, UNCHANGED owed,
             stage \in {"identify", "scanning", "first", "rescan"}
      PROVE  OwedInv'
  <2>1. First(todo) \notin owed
    BY <1>2 DEF OwedInv
  <2>2. ASSUME op = "connect", stage' = "idle", UNCHANGED <<op, todo>> PROVE OwedInv'
    BY <1>2, <2>2 DEF OwedInv
  <2>3. ASSUME op = "poll", NextCheck(values, checkDue, todo \ {First(todo)}) PROVE OwedInv'
    <3>1. owed' \subseteq todo \ {First(todo)}
      BY <1>2, <2>1 DEF OwedInv
    <3> QED
      BY <1>1, <2>3, <3>1
  <2> QED
    BY <1>2, <2>2, <2>3 DEF ScanFails
<1>3. ASSUME owed' = {} PROVE OwedInv'
  BY <1>3 DEF OwedInv
<1>4. ASSUME Aside PROVE OwedInv'
  <2>1. UNCHANGED <<taskVars, owed>>
    BY <1>4 DEF Aside, Change, WriteBegins, WriteEnds, SetPolling, CheckComesDue, RefreshScan, vars
  <2> QED
    BY <2>1 DEF OwedInv, taskVars
<1>5. ASSUME Connect \/ Poll PROVE OwedInv'
  <2>1. stage = "idle" /\ owed' = owed
    BY <1>5 DEF Connect, Poll
  <2> QED
    BY <1>3, <2>1 DEF OwedInv
<1>6. ASSUME Cancel \/ Reject PROVE OwedInv'
  BY <1>3, <1>6 DEF Cancel, Reject
<1>7. ASSUME Identify \/ ScanScope PROVE OwedInv'
  <2>1. stage \in {"identify", "scanning"} /\ owed' = owed
    BY <1>7 DEF Identify, ScanScope
  <2>2. ScanFails \/ (stage' \in {"first", "scanning"} /\ UNCHANGED <<op, todo>>)
    BY <1>7 DEF Identify, ScanScope
  <2> QED
    BY <1>2, <2>1, <2>2 DEF OwedInv
<1>8. ASSUME FirstRead PROVE OwedInv'
  <2>1. stage = "first" /\ ((ScanFails /\ owed' = owed) \/ owed' = {})
    BY <1>8 DEF FirstRead, Commit
  <2> QED
    BY <1>2, <1>3, <2>1
<1>9. ASSUME Read PROVE OwedInv'
  <2> DEFINE due(a) == checkDue \union AskedFor(Gone(asked, a))
             rests(a) == DueChecks(due(a), requested \/ AskedFor(Gone(asked, a)) # {})
  <2>1. PICK a :
          /\ owed' = owed \union AskedFor(Gone(asked, a))
          /\ \E rest \in rests(a) : NextCheck(Published(values, asked, a), due(a), rest)
    BY <1>9 DEF Read
  <2>2. PICK rest \in rests(a) : NextCheck(Published(values, asked, a), due(a), rest)
    BY <2>1
  <2>3. op = "poll" /\ owed = {}
    BY <1>0, <1>9 DEF PassInv, OwedInv, Read
  <2>4. AskedFor(Gone(asked, a)) \subseteq rest
    BY <2>2 DEF DueChecks
  <2> HIDE DEF due, rests
  <2> QED
    BY <1>1, <2>1, <2>2, <2>3, <2>4
<1>10. ASSUME Check PROVE OwedInv'
  <2>1. stage = "checking" /\ op = "poll" /\ owed' = owed \ {First(todo)}
    BY <1>0, <1>10 DEF PassInv, Check
  <2>2. \/ NextCheck(values, checkDue, todo \ {First(todo)})
        \/ stage' \in {"identify", "rescan"} /\ UNCHANGED <<op, todo>>
    BY <1>10 DEF Check
  <2>3. owed' \subseteq todo \ {First(todo)}
    BY <2>1 DEF OwedInv
  <2> QED
    BY <1>1, <2>1, <2>2, <2>3 DEF OwedInv
<1>11. ASSUME Rescan \/ RescanFirst PROVE OwedInv'
  <2>1. /\ stage \in {"rescan", "rescanFirst"} /\ op = "poll" /\ owed' = owed
        /\ Rescan => stage = "rescan"
    BY <1>0, <1>11 DEF PassInv, Rescan, RescanFirst
  <2>2. owed' \subseteq todo \ {First(todo)}
    BY <2>1 DEF OwedInv
  <2>3. \/ Rescan /\ ScanFails
        \/ \E shown, due : NextCheck(shown, due, todo \ {First(todo)})
        \/ stage' = "rescanFirst" /\ UNCHANGED <<op, todo>>
    BY <1>11 DEF Rescan, RescanFirst, ShowInstance
  <2> QED
    BY <1>1, <1>2, <2>1, <2>2, <2>3 DEF OwedInv
<1>12. \/ Aside \/ Connect \/ Poll \/ Cancel \/ Reject
       \/ Identify \/ ScanScope \/ FirstRead \/ Read \/ Check \/ Rescan \/ RescanFirst
  BY DEF Next, Client, Aside
<1> QED
  BY <1>4, <1>5, <1>6, <1>7, <1>8, <1>9, <1>10, <1>11, <1>12

\* A register found gone is not polled again before a scan has looked, and the check of what
\* decides whether the unit has it is made before the pass is over, on the schedule or
\* without, whatever comes of the checks before it (_publish(), _run_checks()).
THEOREM GoneMeansCheck == Spec => []GoneIsChecked
<1>1. Init => TypeInv /\ GoneInv /\ OwedInv
  <2>1. Init => GoneInv /\ OwedInv
    BY DEF Init, GoneInv, OwedInv
  <2> QED
    BY <2>1, InitTyped
<1>2. TypeInv /\ GoneInv /\ OwedInv /\ [Next]_vars => TypeInv' /\ GoneInv' /\ OwedInv'
  BY StepTyped, GoneStep, OwedStep
<1>3. TypeInv /\ GoneInv /\ OwedInv => GoneIsChecked
  BY DEF GoneInv, OwedInv, GoneIsChecked
<1> QED
  BY <1>1, <1>2, <1>3, PTL DEF Spec

-----------------------------------------------------------------------------
(***************************************************************************)
(* What is shown of the points a unit has lost.                            *)
(***************************************************************************)
LEMMA PublishedIs ==
    ASSUME NEW shown, NEW ps, NEW a, NEW p \in Points
    PROVE  /\ p \in ps \ disturbed => Published(shown, ps, a)[p] = Quality(a[p])
           /\ p \notin ps \ disturbed => Published(shown, ps, a)[p] = shown[p]
BY DEF Published

\* What Tell() shows: the points lost as missing, the others as they were to be shown.
LEMMA TellShows ==
    ASSUME NEW shown, Tell(shown) \/ values' = shown, NEW p \in Points
    PROVE  \/ values'[p] = shown[p]
           \/ values'[p] = "missing" /\ p \in resolved'
BY DEF Tell

LEMMA FreshStep ==
    ASSUME TypeInv, FreshInv, [Next]_vars
    PROVE  FreshInv'
<1>0. connects \in Nat /\ op \in {"connect", "poll"}
  BY DEF FreshInv, TypeInv, TypeOK
<1>1. ASSUME Fresh, Aside PROVE Fresh'
  <2>1. resolved' = resolved /\ resolved = {} /\ writing = {} /\ Available = {}
    BY <1>1, AsideIs DEF Fresh, memoryVars, Available
  <2>2. ASSUME UNCHANGED <<values, writing>> PROVE Fresh'
    BY <1>1, <2>1, <2>2 DEF Fresh
  <2> QED
    BY <1>1, <2>1, <2>2
    DEF Aside, Change, WriteBegins, WriteEnds, SetPolling, CheckComesDue, RefreshScan, vars
<1>2. ASSUME Aside PROVE FreshInv'
  <2>1. connects' = connects /\ op' = op /\ stage' = stage
    BY <1>2, AsideIs DEF taskVars
  <2> QED
    BY <1>1, <1>2, <2>1 DEF FreshInv
<1>3. ASSUME Connect PROVE FreshInv'
  <2>1. connects' = connects + 1 /\ UNCHANGED <<memoryVars, values, writing>>
    BY <1>3 DEF Connect
  <2>2. connects' \in Nat /\ connects' # 0 /\ (connects' = 1 => connects = 0)
    BY <1>0, <2>1
  <2>3. Fresh => Fresh'
    BY <2>1 DEF Fresh, memoryVars
  <2> QED
    BY <2>2, <2>3 DEF FreshInv
<1>4. ASSUME Poll PROVE FreshInv'
  <2>1. op' = "poll" /\ resolved # {} /\ connects' = connects
    BY <1>4 DEF Poll, boundVars
  <2> QED
    BY <2>1 DEF FreshInv, Fresh
<1>5. ASSUME Cancel \/ Reject \/ Client PROVE FreshInv'
  <2>1. /\ stage # "idle" /\ UNCHANGED <<op, writing, connects>>
        /\ \/ op = "poll"
           \/ UNCHANGED <<memoryVars, values>>
           \/ stage' = "idle"
    BY <1>5, WithinPass
  <2>2. UNCHANGED <<memoryVars, values>> /\ Fresh => Fresh'
    BY <2>1 DEF Fresh, memoryVars
  <2> QED
    BY <2>1, <2>2 DEF FreshInv
<1>6. Aside \/ Connect \/ Poll \/ Cancel \/ Reject \/ Client
  BY DEF Next, Aside
<1> QED
  BY <1>2, <1>3, <1>4, <1>5, <1>6

\* What is shown of a point the model does not have: nothing new but by a write.
LEMMA ShownElsewhere ==
    ASSUME TypeInv, Cancel \/ Reject \/ Client
    PROVE  \/ /\ resolved' = resolved
              /\ \A p \in Points \ resolved : values'[p] = values[p]
           \/ /\ Points \ Extra \subseteq resolved'
              /\ \A p \in Points \ resolved' : values'[p] = "none"
<1> DEFINE Kept == /\ resolved' = resolved
                   /\ \A p \in Points \ resolved : values'[p] = values[p]
           Dropped == /\ Points \ Extra \subseteq resolved'
                      /\ \A p \in Points \ resolved' : values'[p] = "none"
<1>0. TypeOK /\ PassInv /\ FoundInv
  BY DEF TypeInv
<1>1. ASSUME NEW shown, Tell(shown) \/ values' = shown, resolved' = resolved,
             \A p \in Points \ resolved : shown[p] = values[p]
      PROVE  Kept
  BY <1>1, TellShows
<1>2. ASSUME NEW ps, NEW a, ps \subseteq resolved
      PROVE  \A p \in Points \ resolved : Published(values, ps, a)[p] = values[p]
  BY <1>2, PublishedIs
<1>3. ASSUME resolved' = resolved, Tell(values) \/ values' = values PROVE Kept
  BY <1>1, <1>3
<1>4. ASSUME NEW ps, NEW a, NEW dueNow, NEW rest, ps \subseteq resolved, resolved' = resolved,
             NextCheck(Published(values, ps, a), dueNow, rest)
      PROVE  Kept
  <2>1. Tell(Published(values, ps, a)) \/ values' = Published(values, ps, a)
    BY <1>4, NextCheckIs
  <2> QED
    BY <1>1, <1>2, <1>4, <2>1
<1>5. ASSUME ScanFails PROVE Kept
  <2>1. resolved' = resolved
    BY <1>5 DEF ScanFails, memoryVars
  <2>2. Tell(values) \/ values' = values
    BY <1>5, NextCheckIs DEF ScanFails
  <2> QED
    BY <1>3, <2>1, <2>2
<1>6. ASSUME Cancel \/ Reject \/ Identify \/ ScanScope \/ Check PROVE Kept
  <2>1. \/ ScanFails
        \/ /\ UNCHANGED memoryVars
           /\ Tell(values) \/ values' = values
    BY <1>6, NextCheckIs DEF Cancel, Reject, Identify, ScanScope, Check
  <2> QED
    BY <1>3, <1>5, <2>1 DEF memoryVars
<1>7. ASSUME Read PROVE Kept
  <2>1. resolved' = resolved /\ asked \subseteq resolved
    BY <1>0, <1>7 DEF Read, TypeOK
  <2>2. \E a, dueNow, rest : NextCheck(Published(values, asked, a), dueNow, rest)
    BY <1>7 DEF Read
  <2> QED
    BY <1>4, <2>1, <2>2
<1>8. ASSUME NEW s, NEW ps, NEW a, NEW br, ShowInstance(s, ps, a, br), ps \subseteq resolved,
             resolved' = resolved
      PROVE  Kept
  BY <1>4, <1>8 DEF ShowInstance
<1>9. ASSUME Rescan PROVE Kept
  <2> DEFINE own == {p \in resolved : ScopeOf[p] = First(todo)}
             ps == own \ Missing(byScan', byRead \ own)
  <2>1. PICK a : \/ ScanFails
                 \/ /\ resolved' = resolved
                    /\ ShowInstance(First(todo), ps, a, byRead \ own) \/ values' = values
    BY <1>9 DEF Rescan
  <2>2. ps \subseteq resolved
    OBVIOUS
  <2> HIDE DEF ps, own
  <2> QED
    BY <1>3, <1>5, <1>8, <2>1, <2>2
<1>10. ASSUME RescanFirst PROVE Kept
  <2>1. resolved' = resolved /\ asked \subseteq resolved
    BY <1>0, <1>10 DEF RescanFirst, TypeOK
  <2>2. \E a, br : ShowInstance(First(todo), asked, a, br)
    BY <1>10 DEF RescanFirst
  <2> QED
    BY <1>8, <2>1, <2>2
<1>11. ASSUME FirstRead PROVE Kept \/ Dropped
  <2>1. PICK a : ScanFails \/ Commit(a)
    BY <1>11 DEF FirstRead
  <2>2. ASSUME Commit(a) PROVE Dropped
    <3> DEFINE readable == scan.points \ Missing(scan.found, {})
               kept == [p \in Points |-> IF p \in scan.points THEN values[p] ELSE "none"]
               shown == Published(kept, readable, Also(a, scan.read))
    <3>1. resolved' = scan.points /\ (Tell(shown) \/ values' = shown)
      BY <2>2 DEF Commit
    <3>2. Points \ Extra \subseteq scan.points
      BY <1>0, <1>11 DEF FoundInv, FirstRead
    <3>3. ASSUME NEW p \in Points \ scan.points PROVE shown[p] = "none"
      <4>1. kept[p] = "none" /\ p \notin readable
        OBVIOUS
      <4> HIDE DEF kept, readable
      <4> QED
        BY <4>1, PublishedIs
    <3> HIDE DEF shown
    <3>4. \A p \in Points \ resolved' : values'[p] = "none"
      BY <3>1, <3>3, TellShows
    <3> QED
      BY <3>1, <3>2, <3>4
  <2> QED
    BY <1>5, <2>1, <2>2
<1> HIDE DEF Kept, Dropped
<1>12. Kept \/ Dropped
  BY <1>6, <1>7, <1>9, <1>10, <1>11 DEF Client
<1> QED
  BY <1>12 DEF Kept, Dropped

LEMMA ForeignStep ==
    ASSUME TypeInv, ForeignInv, [Next]_vars
    PROVE  ForeignInv'
<1>0. writing \subseteq Writable /\ Writable \subseteq Points /\ resolved \subseteq Points
      /\ values \in [Points -> Shown]
  BY MemoryIs, ClientScanAssumption DEF TypeInv, TypeOK, ClientScanAssumption
<1>1. ASSUME UNCHANGED <<resolved, values, writing>> PROVE ForeignInv'
  BY <1>1 DEF ForeignInv
<1>2. ASSUME Aside PROVE ForeignInv'
  <2>1. resolved' = resolved
    BY <1>2, AsideIs DEF memoryVars
  <2>2. ASSUME NEW p \in Points, WriteBegins(p) PROVE ForeignInv'
    <3>1. p \in resolved /\ writing' = writing \union {p} /\ values' = values
      BY <2>2 DEF WriteBegins, Available
    <3> QED
      BY <2>1, <3>1 DEF ForeignInv
  <2>3. ASSUME NEW p \in Points, WriteEnds(p) PROVE ForeignInv'
    <3>1. p \in writing /\ writing' = writing \ {p}
      BY <2>3 DEF WriteEnds
    <3>2. \A q \in Points \ {p} : values'[q] = values[q]
      BY <1>0, <2>3 DEF WriteEnds
    <3>3. p \notin resolved => p \in Droppable
      BY <1>0, <3>1 DEF ForeignInv, Droppable
    <3> QED
      BY <2>1, <3>1, <3>2, <3>3 DEF ForeignInv
  <2> QED
    BY <1>1, <1>2, <2>1, <2>2, <2>3
    DEF Aside, Change, SetPolling, CheckComesDue, RefreshScan, vars
<1>3. ASSUME Connect \/ Poll PROVE ForeignInv'
  BY <1>1, <1>3 DEF Connect, Poll, memoryVars
<1>4. ASSUME Cancel \/ Reject \/ Client PROVE ForeignInv'
  <2>1. writing' = writing
    BY <1>4, WithinPass
  <2>2. \/ /\ resolved' = resolved
           /\ \A p \in Points \ resolved : values'[p] = values[p]
        \/ /\ Points \ Extra \subseteq resolved'
           /\ \A p \in Points \ resolved' : values'[p] = "none"
    BY <1>4, ShownElsewhere
  <2>3. ASSUME resolved' = resolved, \A p \in Points \ resolved : values'[p] = values[p]
        PROVE  ForeignInv'
    BY <2>1, <2>3 DEF ForeignInv
  <2>4. ASSUME Points \ Extra \subseteq resolved',
               \A p \in Points \ resolved' : values'[p] = "none"
        PROVE  ForeignInv'
    BY <1>0, <2>1, <2>4 DEF ForeignInv
  <2> QED
    BY <2>2, <2>3, <2>4
<1>5. Aside \/ Connect \/ Poll \/ Cancel \/ Reject \/ Client
  BY DEF Next, Aside
<1> QED
  BY <1>2, <1>3, <1>4, <1>5

\* Where a step of a pass leads: the checks left are among those there were, and only
\* Rescan goes on to read what the instance has.
LEMMA GoesOn ==
    ASSUME TypeInv, Cancel \/ Reject \/ Client
    PROVE  /\ stage' # "reading"
           /\ stage' = "rescanFirst" => Rescan
           /\ op = "poll" /\ stage # "reading" => todo' \subseteq todo
<1> DEFINE Goes == /\ stage' # "reading"
                   /\ stage' = "rescanFirst" => Rescan
                   /\ op = "poll" /\ stage # "reading" => todo' \subseteq todo
<1>1. ASSUME NEW shown, Tell(shown) PROVE Goes
  BY <1>1 DEF Tell
<1>2. ASSUME NEW shown, NEW dueNow, NextCheck(shown, dueNow, todo \ {First(todo)}) PROVE Goes
  BY <1>2, NextCheckIs
<1>3. ASSUME ScanFails PROVE Goes
  <2>1. ASSUME op = "connect", stage' = "idle" PROVE Goes
    BY <2>1
  <2> QED
    BY <1>2, <1>3, <2>1 DEF ScanFails
<1>4. ASSUME stage' \in {"idle", "identify", "scanning", "first", "rescan"}, todo' = todo
      PROVE  Goes
  BY <1>4
<1>5. ASSUME Cancel \/ Reject PROVE Goes
  <2>1. Tell(values) \/ (stage' = "idle" /\ todo' = todo)
    BY <1>5 DEF Cancel, Reject
  <2> QED
    BY <1>1, <1>4, <2>1
<1>6. ASSUME Identify \/ ScanScope PROVE Goes
  <2>1. ScanFails \/ (stage' \in {"scanning", "first"} /\ todo' = todo)
    BY <1>6 DEF Identify, ScanScope
  <2> QED
    BY <1>3, <1>4, <2>1
<1>7. ASSUME FirstRead PROVE Goes
  <2>1. ScanFails \/ (\E shown : Tell(shown)) \/ (stage' = "idle" /\ todo' = todo)
    BY <1>7 DEF FirstRead, Commit
  <2> QED
    BY <1>1, <1>3, <1>4, <2>1
<1>8. ASSUME Read PROVE Goes
  <2>1. stage = "reading" /\ \E shown, dueNow, rest : NextCheck(shown, dueNow, rest)
    BY <1>8 DEF Read
  <2> QED
    BY <2>1, NextCheckIs
<1>9. ASSUME Check PROVE Goes
  <2>1. \/ NextCheck(values, checkDue, todo \ {First(todo)})
        \/ stage' \in {"identify", "rescan"} /\ todo' = todo
    BY <1>9 DEF Check
  <2> QED
    BY <1>2, <1>4, <2>1
<1>10. ASSUME NEW ps, NEW a, NEW br, ShowInstance(First(todo), ps, a, br) PROVE Goes
  BY <1>2, <1>10 DEF ShowInstance
<1>11. ASSUME Rescan PROVE Goes
  <2>1. \/ ScanFails
        \/ \E ps, a, br : ShowInstance(First(todo), ps, a, br)
        \/ stage' = "rescanFirst" /\ todo' = todo
    BY <1>11 DEF Rescan
  <2> QED
    BY <1>3, <1>10, <1>11, <2>1
<1>12. ASSUME RescanFirst PROVE Goes
  BY <1>10, <1>12 DEF RescanFirst
<1> HIDE DEF Goes
<1>13. Goes
  BY <1>5, <1>6, <1>7, <1>8, <1>9, <1>11, <1>12 DEF Client
<1> QED
  BY <1>13 DEF Goes

LEMMA AskedStep ==
    ASSUME TypeInv, PolledInv, AskedInv, [Next]_vars
    PROVE  AskedInv'
<1>1. ASSUME Aside PROVE AskedInv'
  <2>1. UNCHANGED <<memoryVars, taskVars, interrupted>>
    BY <1>1, AsideIs
  <2> QED
    BY <2>1, AvailableStays DEF AskedInv, taskVars
<1>2. ASSUME Connect PROVE AskedInv'
  BY <1>2 DEF Connect, AskedInv
<1>3. ASSUME Poll PROVE AskedInv'
  <2>1. stage = "idle" /\ UNCHANGED <<memoryVars, interrupted>>
    BY <1>3 DEF Poll
  <2>2. stage' \in {"reading", "idle", "checking"} /\ (stage' = "reading" => asked' \subseteq polled)
    BY <1>3, <2>1 DEF Poll
  <2>3. ~interrupted => polled \subseteq Available
    <3>1. polled \subseteq Points
      BY DEF TypeInv, TypeOK
    <3> QED
      BY <2>1, <3>1 DEF PolledInv
  <2> QED
    BY <2>1, <2>2, <2>3, AvailableStays DEF AskedInv
<1>4. ASSUME Rescan, stage' = "rescanFirst" PROVE AskedInv'
  <2> DEFINE own == {p \in resolved : ScopeOf[p] = First(todo)}
  <2>1. ScanFails \/ (\E s, ps, a, br : ShowInstance(s, ps, a, br))
           => stage' # "rescanFirst"
    <3>1. ScanFails => \/ stage' = "idle"
                       \/ \E shown, dueNow, rest : NextCheck(shown, dueNow, rest)
      BY DEF ScanFails
    <3>2. (\E s, ps, a, br : ShowInstance(s, ps, a, br))
             => \E shown, dueNow, rest : NextCheck(shown, dueNow, rest)
      BY DEF ShowInstance
    <3>3. \A shown, dueNow, rest : NextCheck(shown, dueNow, rest) => stage' # "rescanFirst"
      BY NextCheckIs
    <3> QED
      BY <3>1, <3>2, <3>3
  <2>2. \/ ScanFails
        \/ \E s, ps, a, br : ShowInstance(s, ps, a, br)
        \/ /\ resolved' = resolved /\ byRead' = byRead \ own
           /\ asked' = own \ Missing(byScan', byRead \ own)
    BY <1>4 DEF Rescan
  <2> HIDE DEF own
  <2>3. /\ resolved' = resolved /\ byRead' = byRead \ own
        /\ asked' = own \ Missing(byScan', byRead \ own)
    BY <1>4, <2>1, <2>2
  <2>4. asked' \subseteq Available'
    BY <2>3 DEF Available, Unavailable, own
  <2> QED
    BY <2>4 DEF AskedInv
<1>5. ASSUME Cancel \/ Reject \/ Client PROVE AskedInv'
  <2>1. stage' # "reading" /\ (stage' = "rescanFirst" => Rescan)
    BY <1>5, GoesOn
  <2> QED
    BY <1>4, <2>1 DEF AskedInv
<1>6. Aside \/ Connect \/ Poll \/ Cancel \/ Reject \/ Client
  BY DEF Next, Aside
<1> QED
  BY <1>1, <1>2, <1>3, <1>5, <1>6

LEMMA GainedStep ==
    ASSUME TypeInv, GainedInv, [Next]_vars
    PROVE  GainedInv'
<1>0. TypeOK /\ PassInv
  BY DEF TypeInv
<1>1. ASSUME Aside PROVE GainedInv'
  <2>1. UNCHANGED <<memoryVars, taskVars>>
    BY <1>1, AsideIs
  <2> QED
    BY <2>1, AvailableStays DEF GainedInv, taskVars
<1>2. ASSUME Connect PROVE GainedInv'
  BY <1>2 DEF Connect, GainedInv
<1>3. ASSUME Poll PROVE GainedInv'
  <2>1. UNCHANGED memoryVars /\ before' = Available
    BY <1>3 DEF Poll
  <2> QED
    BY <2>1, AvailableStays DEF GainedInv
<1>4. ASSUME Cancel \/ Reject \/ Client, op = "poll", stage' # "idle" PROVE GainedInv'
  <2>1. stage # "idle" /\ op' = op /\ before' = before
    BY <1>4, WithinPass
  <2>2. /\ stage' # "reading" /\ (stage' = "rescanFirst" => Rescan)
        /\ stage # "reading" => todo' \subseteq todo
    BY <1>4, GoesOn
  <2>3. ASSUME UNCHANGED memoryVars, stage \notin {"reading", "rescanFirst"} PROVE GainedInv'
    <3>1. Available' = Available
      BY <2>3, AvailableStays
    <3>2. \A p \in Available \ before : ScopeOf[p] \notin todo
      BY <1>4, <2>1, <2>3 DEF GainedInv
    <3>3. Unit \in todo => Available \subseteq before
      BY <1>4, <2>1 DEF GainedInv
    <3> QED
      BY <2>1, <2>2, <2>3, <3>1, <3>2, <3>3 DEF GainedInv
  <2>4. ASSUME Read PROVE GainedInv'
    <3>1. Available' \subseteq Available
      <4>1. PICK a : byRead' = byRead \union Gone(asked, a)
        BY <2>4 DEF Read
      <4>2. UNCHANGED <<resolved, byScan>>
        BY <2>4 DEF Read
      <4> QED
        BY <4>1, <4>2, ReadTakesAway
    <3>2. Available \subseteq before
      BY <1>4, <2>1, <2>4 DEF GainedInv, Read
    <3> QED
      BY <2>1, <3>1, <3>2 DEF GainedInv
  <2>5. ASSUME Rescan \/ RescanFirst PROVE GainedInv'
    <3>1. stage \in {"rescan", "rescanFirst"} /\ First(todo) # Unit /\ todo \subseteq Scopes
          /\ todo # {}
      BY <1>0, <2>5 DEF Rescan, RescanFirst, PassInv
    <3>2. Unit \notin todo
      BY <3>1, FirstIs
    <3>3. Available' \subseteq Points
      BY <1>0, <2>5, Elsewhere DEF Available, TypeOK
    <3>4. stage' = "rescanFirst" => todo' = todo
      <4>1. ASSUME stage' = "rescanFirst" PROVE todo' = todo
        <5>1. Rescan
          BY <2>2, <4>1
        <5>2. \/ ScanFails
              \/ \E s, ps, a, br : ShowInstance(s, ps, a, br)
              \/ todo' = todo
          BY <5>1 DEF Rescan
        <5>3. (\E s, ps, a, br : ShowInstance(s, ps, a, br))
                => \E shown, dueNow, rest : NextCheck(shown, dueNow, rest)
          BY DEF ShowInstance
        <5>4. ScanFails => todo' = todo \/ \E shown, dueNow, rest : NextCheck(shown, dueNow, rest)
          BY DEF ScanFails
        <5>5. \A shown, dueNow, rest : NextCheck(shown, dueNow, rest) => stage' # "rescanFirst"
          BY NextCheckIs
        <5> QED
          BY <4>1, <5>2, <5>3, <5>4, <5>5
      <4> QED
        BY <4>1
    <3>5. stage' # "rescanFirst" => First(todo) \notin todo'
      <4>1. ASSUME stage' # "rescanFirst" PROVE First(todo) \notin todo'
        <5>1. \/ ScanFails
              \/ \E ps, a, br : ShowInstance(First(todo), ps, a, br)
          BY <2>5, <4>1 DEF Rescan, RescanFirst
        <5>2. \E shown, dueNow : NextCheck(shown, dueNow, todo \ {First(todo)})
          BY <1>4, <5>1 DEF ScanFails, ShowInstance
        <5>3. todo' = todo \ {First(todo)}
          BY <5>2, NextCheckIs
        <5> QED
          BY <5>3
      <4> QED
        BY <4>1
    <3>6. ASSUME NEW p \in Available' \ before, ScopeOf[p] \in todo'
          PROVE  stage' = "rescanFirst" /\ ScopeOf[p] = First(todo')
      <4>1. ScopeOf[p] \in todo
        BY <2>2, <3>1, <3>6
      <4>2. ScopeOf[p] = First(todo)
        <5>1. ASSUME ScopeOf[p] # First(todo) PROVE FALSE
          <6>1. p \in Available
            BY <2>5, <3>3, <3>6, <5>1, Elsewhere
          <6> QED
            BY <1>4, <2>1, <3>6, <4>1, <5>1, <6>1 DEF GainedInv
        <5> QED
          BY <5>1
      <4>3. stage' = "rescanFirst"
        BY <3>5, <3>6, <4>2
      <4>4. First(todo') = First(todo)
        BY <3>4, <4>3
      <4> QED
        BY <4>2, <4>3, <4>4
    <3> QED
      BY <2>1, <2>2, <3>1, <3>2, <3>6 DEF GainedInv
  <2>6. ASSUME Cancel \/ Reject \/ Identify \/ ScanScope \/ FirstRead \/ Check PROVE GainedInv'
    <3>1. stage \notin {"reading", "rescanFirst"} \/ Cancel
      BY <2>6 DEF Reject, Identify, ScanScope, FirstRead, Check
    <3>2. Cancel \/ Reject => stage' = "idle"
      BY DEF Cancel, Reject, Tell
    <3>3. Identify \/ ScanScope \/ Check => UNCHANGED memoryVars
      BY DEF Identify, ScanScope, Check, ScanFails
    <3>4. FirstRead => UNCHANGED memoryVars \/ stage' = "idle"
      BY DEF FirstRead, ScanFails, Commit, Tell
    <3> QED
      BY <1>4, <2>3, <2>6, <3>1, <3>2, <3>3, <3>4
  <2> QED
    BY <1>4, <2>4, <2>5, <2>6 DEF Client
<1>5. ASSUME Cancel \/ Reject \/ Client PROVE GainedInv'
  <2>1. op' = op
    BY <1>5, WithinPass
  <2>2. op # "poll" \/ stage' = "idle" => GainedInv'
    BY <2>1 DEF GainedInv
  <2> QED
    BY <1>4, <1>5, <2>2
<1>6. Aside \/ Connect \/ Poll \/ Cancel \/ Reject \/ Client
  BY DEF Next, Aside
<1> QED
  BY <1>1, <1>2, <1>3, <1>5, <1>6

\* What a scan that is through shows of a point it finds the unit lacks.
CommitShown(a) ==
    Published([p \in Points |-> IF p \in scan.points THEN values[p] ELSE "none"],
              scan.points \ Missing(scan.found, {}), Also(a, scan.read))

LEMMA CommitShows ==
    ASSUME NEW a, Commit(a), NEW p \in Points, p \in resolved' \intersect Unavailable'
    PROVE  CommitShown(a)[p] \in {"missing", values[p]}
<1> DEFINE read == Also(a, scan.read)
           readable == scan.points \ Missing(scan.found, {})
           kept == [q \in Points |-> IF q \in scan.points THEN values[q] ELSE "none"]
<1>1. /\ resolved' = scan.points /\ byScan' = scan.found /\ byRead' = Gone(readable, read)
      /\ kept[p] = values[p]
  BY DEF Commit
<1>2. CommitShown(a) = Published(kept, readable, read)
  BY DEF CommitShown
<1> HIDE DEF read, kept
<1>3. CASE p \in readable \ disturbed
  <2>1. read[p] = "gone"
    BY <1>1, <1>3 DEF Unavailable, Missing, Gone
  <2> HIDE DEF readable
  <2>2. Published(kept, readable, read)[p] = Quality(read[p])
    BY <1>3, PublishedIs
  <2> QED
    BY <1>2, <2>1, <2>2, QualityIs
<1>4. CASE p \notin readable \ disturbed
  <2> HIDE DEF readable
  <2>1. Published(kept, readable, read)[p] = kept[p]
    BY <1>4, PublishedIs
  <2> QED
    BY <1>1, <1>2, <2>1
<1> QED
  BY <1>3, <1>4

\* A point that was read, and is neither found gone nor recorded missing, is there.
LEMMA ReadShows ==
    ASSUME NEW ps, NEW a, NEW p \in Points,
           p \in ps \ disturbed => a[p] = "gone"
    PROVE  Published(values, ps, a)[p] \in {"missing", values[p]}
BY PublishedIs, QualityIs

\* What the unit lacks shows no value, or the pass is still to tell of it.
Lost(shown) ==
    \A p \in (resolved \intersect Unavailable) \ Droppable :
        p \in before \/ shown[p] \in {"none", "missing"}

LostAfter(shown) ==
    \A p \in (resolved' \intersect Unavailable') \ Droppable :
        p \in before \/ shown[p] \in {"none", "missing"}

LEMMA LostStays ==
    ASSUME Lost(values), resolved' = resolved, Unavailable' = Unavailable
    PROVE  LostAfter(values)
BY DEF Lost, LostAfter

KnownInv ==
    /\ TypeInv
    /\ PolledInv
    /\ FreshInv
    /\ ForeignInv
    /\ AskedInv
    /\ GainedInv
    /\ LostInv

\* The steps of a pass that record something.
LEMMA ReadLoses ==
    ASSUME KnownInv, Read, ~interrupted, Lost(values)
    PROVE  \E shown : /\ Tell(shown) \/ values' = shown
                      /\ LostAfter(shown)
<1>1. PICK a : /\ byRead' = byRead \union Gone(asked, a)
               /\ \E dueNow, rest : NextCheck(Published(values, asked, a), dueNow, rest)
  BY DEF Read
<1>2. stage = "reading" /\ UNCHANGED <<resolved, byScan>> /\ op = "poll" /\ resolved \subseteq Points
  BY DEF Read, KnownInv, TypeInv, TypeOK, PassInv
<1>3. Available' = Available \ Gone(asked, a) /\ asked \subseteq Available /\ Available \subseteq before
  BY <1>1, <1>2, ReadTakesAway DEF KnownInv, AskedInv, GainedInv
<1>4. ASSUME NEW p \in (resolved' \intersect Unavailable') \ Droppable, p \notin before
      PROVE  Published(values, asked, a)[p] \in {"none", "missing"}
  <2>1. p \in resolved /\ p \in Unavailable /\ p \in Points
    BY <1>2, <1>3, <1>4 DEF Available
  <2>2. p \notin asked
    BY <1>3, <1>4
  <2>3. Published(values, asked, a)[p] = values[p]
    BY <2>1, <2>2, PublishedIs
  <2> QED
    BY <1>4, <2>1, <2>3 DEF Lost
<1>5. Tell(Published(values, asked, a)) \/ values' = Published(values, asked, a)
  BY <1>1, NextCheckIs
<1>6. LostAfter(Published(values, asked, a))
  BY <1>4 DEF LostAfter
<1> QED
  BY <1>5, <1>6

LEMMA RescanLoses ==
    ASSUME KnownInv, Rescan, Lost(values)
    PROVE  \E shown : /\ Tell(shown) \/ values' = shown
                      /\ LostAfter(shown)
<1> DEFINE s == First(todo)
           own == {p \in resolved : ScopeOf[p] = s}
           ps == own \ Missing(byScan', byRead \ own)
<1>0. /\ stage = "rescan" /\ op = "poll" /\ resolved \subseteq Points /\ todo \subseteq Scopes
      /\ ScopeOf \in [Points -> Scopes] /\ todo # {}
  BY OrderIs DEF Rescan, KnownInv, TypeInv, TypeOK, PassInv
<1>1. PICK a : \/ ScanFails
               \/ ShowInstance(s, ps, a, byRead \ own)
               \/ values' = values /\ byRead' = byRead \ own
  BY DEF Rescan
<1>2. /\ resolved' = resolved
      /\ \A p \in Points : ScopeOf[p] # s => (p \in Available' <=> p \in Available)
  BY Elsewhere DEF KnownInv
\* A point lost now was there when the pass began.
<1>3. ASSUME NEW p \in (resolved' \intersect Unavailable') \ Droppable, p \notin before
      PROVE  values[p] \in {"none", "missing"} /\ p \in Points
  <2>1. p \in Points /\ p \in resolved /\ p \notin Available'
    BY <1>0, <1>2, <1>3 DEF Available
  <2>2. p \notin Available
    <3>1. ASSUME p \in Available PROVE FALSE
      <4>1. ScopeOf[p] = s
        BY <1>2, <2>1, <3>1
      <4>2. s \in todo
        BY <1>0, FirstIs
      <4> QED
        BY <1>0, <1>3, <3>1, <4>1, <4>2 DEF KnownInv, GainedInv
    <3> QED
      BY <3>1
  <2> QED
    BY <1>3, <2>1, <2>2 DEF Lost, Available
<1>4. ASSUME ScanFails PROVE (Tell(values) \/ values' = values) /\ LostAfter(values)
  <2>1. Unavailable' = Unavailable /\ resolved' = resolved
    BY <1>4, AvailableStays DEF ScanFails
  <2>2. Tell(values) \/ values' = values
    BY <1>4, NextCheckIs DEF ScanFails
  <2> QED
    BY <2>1, <2>2, LostStays
<1>5. ASSUME values' = values PROVE (Tell(values) \/ values' = values) /\ LostAfter(values)
  BY <1>3, <1>5 DEF LostAfter
<1>6. ASSUME ShowInstance(s, ps, a, byRead \ own)
      PROVE  /\ Tell(Published(values, ps, a)) \/ values' = Published(values, ps, a)
             /\ LostAfter(Published(values, ps, a))
  <2>1. /\ byRead' = (byRead \ own) \union Gone(ps, a)
        /\ \E dueNow, rest : NextCheck(Published(values, ps, a), dueNow, rest)
    BY <1>6 DEF ShowInstance
  <2>2. Tell(Published(values, ps, a)) \/ values' = Published(values, ps, a)
    BY <2>1, NextCheckIs
  <2>3. ASSUME NEW p \in (resolved' \intersect Unavailable') \ Droppable, p \notin before
        PROVE  Published(values, ps, a)[p] \in {"none", "missing"}
    <3>1. p \in ps \ disturbed => a[p] = "gone"
      <4>1. p \in Unavailable'
        BY <2>3
      <4> HIDE DEF own
      <4> QED
        BY <2>1, <4>1 DEF Unavailable, Missing, Gone
    <3> HIDE DEF ps
    <3> QED
      BY <1>3, <2>3, <3>1, ReadShows
  <2> HIDE DEF ps
  <2> QED
    BY <2>2, <2>3 DEF LostAfter
<1> HIDE DEF ps, own, s
<1> QED
  BY <1>1, <1>4, <1>5, <1>6

LEMMA RescanFirstLoses ==
    ASSUME KnownInv, RescanFirst, Lost(values)
    PROVE  \E shown : /\ Tell(shown) \/ values' = shown
                      /\ LostAfter(shown)
<1>1. PICK a : ShowInstance(First(todo), asked, a, byRead)
  BY DEF RescanFirst
<1>2. stage = "rescanFirst" /\ UNCHANGED <<resolved, byScan>> /\ resolved \subseteq Points
  BY DEF RescanFirst, KnownInv, TypeInv, TypeOK
<1>3. /\ byRead' = byRead \union Gone(asked, a)
      /\ \E dueNow, rest : NextCheck(Published(values, asked, a), dueNow, rest)
  BY <1>1 DEF ShowInstance
<1>4. Available' = Available \ Gone(asked, a) /\ asked \subseteq Available
  BY <1>2, <1>3, ReadTakesAway DEF KnownInv, AskedInv
<1>5. ASSUME NEW p \in (resolved' \intersect Unavailable') \ Droppable, p \notin before
      PROVE  Published(values, asked, a)[p] \in {"none", "missing"}
  <2>1. p \in Points /\ p \in resolved /\ p \notin Available'
    BY <1>2, <1>5 DEF Available
  <2>2. CASE p \in Available
    <3>1. p \in asked \ disturbed /\ a[p] = "gone"
      BY <1>4, <2>1, <2>2 DEF Gone
    <3> QED
      BY <2>1, <3>1, PublishedIs, QualityIs
  <2>3. CASE p \notin Available
    <3>1. p \notin asked /\ p \in Unavailable
      BY <1>4, <2>1, <2>3 DEF Available
    <3>2. Published(values, asked, a)[p] = values[p]
      BY <2>1, <3>1, PublishedIs
    <3> QED
      BY <1>5, <2>1, <3>1, <3>2 DEF Lost
  <2> QED
    BY <2>2, <2>3
<1>6. Tell(Published(values, asked, a)) \/ values' = Published(values, asked, a)
  BY <1>3, NextCheckIs
<1>7. LostAfter(Published(values, asked, a))
  BY <1>5 DEF LostAfter
<1> QED
  BY <1>6, <1>7

\* A step of a pass after its first await.
LEMMA PassLoses ==
    ASSUME KnownInv, Cancel \/ Reject \/ Client, op = "poll", ~interrupted, Lost(values)
    PROVE  \E shown : /\ Tell(shown) \/ values' = shown
                      /\ LostAfter(shown)
<1> DEFINE Goes == \E shown : (Tell(shown) \/ values' = shown) /\ LostAfter(shown)
<1>1. ASSUME UNCHANGED memoryVars, Tell(values) \/ values' = values PROVE Goes
  <2>1. LostAfter(values)
    BY <1>1, AvailableStays, LostStays
  <2> QED
    BY <1>1, <2>1
<1>2. ASSUME ScanFails PROVE Goes
  <2>1. UNCHANGED memoryVars /\ (Tell(values) \/ values' = values)
    BY <1>2, NextCheckIs DEF ScanFails
  <2> QED
    BY <1>1, <2>1
<1>3. ASSUME Cancel \/ Reject \/ Identify \/ ScanScope \/ Check PROVE Goes
  <2>1. \/ ScanFails
        \/ /\ UNCHANGED memoryVars
           /\ Tell(values) \/ values' = values
    BY <1>3, NextCheckIs DEF Cancel, Reject, Identify, ScanScope, Check
  <2> QED
    BY <1>1, <1>2, <2>1
<1>4. ASSUME FirstRead PROVE Goes
  <2>1. PICK a : ScanFails \/ Commit(a)
    BY <1>4 DEF FirstRead
  <2>2. ASSUME Commit(a) PROVE Goes
    <3>1. stage = "first" /\ TypeOK /\ PassInv /\ FoundInv
      BY <1>4 DEF FirstRead, KnownInv, TypeInv
    <3>2. resolved' = scan.points /\ scan.points \subseteq Points
      BY <2>2, <3>1 DEF Commit, FoundInv
    <3>3. Available \subseteq before
      <4>1. Unit \in todo /\ stage # "idle"
        BY <3>1, FirstIs DEF PassInv
      <4> QED
        BY <4>1 DEF KnownInv, GainedInv
    <3>4. Tell(CommitShown(a)) \/ values' = CommitShown(a)
      BY <2>2 DEF Commit, CommitShown
    <3>5. ASSUME NEW p \in (resolved' \intersect Unavailable') \ Droppable, p \notin before
          PROVE  CommitShown(a)[p] \in {"none", "missing"}
      <4>1. p \in Points
        BY <3>2, <3>5
      <4>2. CommitShown(a)[p] \in {"missing", values[p]}
        BY <2>2, <3>5, <4>1, CommitShows
      <4>3. values[p] \in {"none", "missing"}
        <5>1. CASE p \notin resolved
          BY <3>5, <4>1, <5>1 DEF KnownInv, ForeignInv
        <5>2. CASE p \in resolved
          BY <3>3, <3>5, <5>2 DEF Lost, Available
        <5> QED
          BY <5>1, <5>2
      <4> QED
        BY <4>2, <4>3
    <3>6. LostAfter(CommitShown(a))
      BY <3>5 DEF LostAfter
    <3> QED
      BY <3>4, <3>6
  <2> HIDE DEF Goes
  <2> QED
    BY <1>2, <2>1, <2>2
<1> HIDE DEF Goes
<1>5. Goes
  BY <1>3, <1>4, ReadLoses, RescanLoses, RescanFirstLoses DEF Client, Goes
<1> QED
  BY <1>5 DEF Goes

LEMMA LostStep ==
    ASSUME KnownInv, [Next]_vars
    PROVE  LostInv'
<1>0. /\ connects \in Nat /\ resolved \subseteq Points /\ values \in [Points -> Shown]
      /\ op \in {"connect", "poll"}
  BY MemoryIs DEF KnownInv, TypeInv, FreshInv, TypeOK
<1>1. ASSUME connects < 2, ~interrupted
      PROVE  \A p \in (resolved \intersect Unavailable) \ Droppable :
                \/ values[p] \in {"none", "missing"}
                \/ op = "poll" /\ stage # "idle" /\ p \in before
  BY <1>1 DEF KnownInv, LostInv
<1>2. ASSUME Aside PROVE LostInv'
  <2>1. /\ Unavailable' = Unavailable /\ resolved' = resolved
        /\ UNCHANGED <<op, stage, before, interrupted, connects>>
    BY <1>2, AsideIs, AvailableStays DEF taskVars
  <2>2. ASSUME NEW p \in Points, p \in Unavailable
        PROVE  values'[p] = values[p]
    BY <1>0, <1>2, <2>2
    DEF Aside, Change, WriteBegins, WriteEnds, SetPolling, CheckComesDue, RefreshScan, vars
  <2> QED
    BY <1>0, <1>1, <2>1, <2>2 DEF LostInv
<1>3. ASSUME Connect PROVE LostInv'
  <2>1. connects' = connects + 1 /\ resolved' = resolved
    BY <1>3 DEF Connect, memoryVars
  <2>2. connects' < 2 => connects = 0
    BY <1>0, <2>1
  <2>3. connects = 0 => resolved = {}
    BY DEF KnownInv, FreshInv, Fresh
  <2> QED
    BY <2>1, <2>2, <2>3 DEF LostInv
<1>4. ASSUME Poll PROVE LostInv'
  <2>1. stage = "idle" /\ UNCHANGED <<memoryVars, values, interrupted, connects>>
    BY <1>4 DEF Poll, boundVars
  <2>2. Unavailable' = Unavailable /\ resolved' = resolved
    BY <2>1, AvailableStays
  <2> QED
    BY <1>1, <2>1, <2>2 DEF LostInv
<1>5. ASSUME Cancel \/ Reject \/ Client PROVE LostInv'
  <2>1. /\ stage # "idle" /\ UNCHANGED <<op, before, connects>>
        /\ \/ op = "poll" /\ (stage' = "idle" => \E shown : Tell(shown))
           \/ op = "connect" /\ UNCHANGED <<memoryVars, values>>
           \/ op = "connect" /\ stage = "first" /\ stage' = "idle"
    BY <1>5, WithinPass DEF KnownInv
  <2>2. ~interrupted' => ~interrupted
    BY <1>5 DEF Cancel, Reject, Client, Identify, ScanScope, FirstRead, Read, Check, Rescan,
                RescanFirst
  <2>3. ASSUME connects < 2, ~interrupted, op = "poll"
        PROVE  \A p \in (resolved' \intersect Unavailable') \ Droppable :
                  \/ values'[p] \in {"none", "missing"}
                  \/ stage' # "idle" /\ p \in before
    <3>1. Lost(values)
      BY <1>1, <2>3 DEF Lost
    <3>2. PICK shown : (Tell(shown) \/ values' = shown) /\ LostAfter(shown)
      BY <1>5, <2>3, <3>1, PassLoses
    <3>3. ASSUME NEW p \in (resolved' \intersect Unavailable') \ Droppable, p \in Points
          PROVE  \/ values'[p] \in {"none", "missing"}
                 \/ stage' # "idle" /\ p \in before
      <4>1. CASE p \notin before
        BY <3>2, <3>3, <4>1, TellShows DEF LostAfter
      <4>2. ASSUME p \in before, stage' = "idle" PROVE values'[p] = "missing"
        <5>1. PICK told : Tell(told)
          BY <2>1, <2>3, <4>2
        <5>2. p \in (before \ Available') \intersect resolved'
          BY <3>3, <4>2 DEF Available
        <5> QED
          BY <3>3, <5>1, <5>2 DEF Tell
      <4> QED
        BY <4>1, <4>2
    <3>4. resolved' \subseteq Points
      BY StepTyped DEF KnownInv, TypeInv, TypeOK
    <3> QED
      BY <3>3, <3>4
  <2>4. ASSUME op = "connect", UNCHANGED <<memoryVars, values>>, connects < 2, ~interrupted
        PROVE  \A p \in (resolved' \intersect Unavailable') \ Droppable :
                  values'[p] \in {"none", "missing"}
    BY <1>1, <2>4, AvailableStays
  <2>5. ASSUME op = "connect", stage = "first", stage' = "idle", connects < 2, ~interrupted
        PROVE  \A p \in (resolved' \intersect Unavailable') \ Droppable :
                  values'[p] \in {"none", "missing"}
    <3>1. connects # 0
      BY <2>1 DEF KnownInv, FreshInv
    <3>2. connects = 1
      BY <1>0, <2>5, <3>1
    <3>3. Fresh
      BY <2>1, <2>5, <3>2 DEF KnownInv, FreshInv
    <3>4. resolved' \subseteq Points
      BY StepTyped DEF KnownInv, TypeInv, TypeOK
    <3>5. FirstRead \/ (UNCHANGED <<memoryVars, values>>)
      BY <1>5, <2>5 DEF Cancel, Reject, Client, Identify, ScanScope, Read, Check, Rescan, RescanFirst
    <3>6. CASE UNCHANGED <<memoryVars, values>>
      BY <2>4, <2>5, <3>6
    <3>7. CASE FirstRead
      <4>1. PICK a : ScanFails \/ Commit(a)
        BY <3>7 DEF FirstRead
      <4>2. ScanFails => UNCHANGED <<memoryVars, values>>
        BY <2>5 DEF ScanFails
      <4>3. ASSUME Commit(a), NEW p \in (resolved' \intersect Unavailable') \ Droppable
            PROVE  values'[p] \in {"none", "missing"}
        <5>1. CommitShown(a)[p] \in {"missing", values[p]}
          BY <3>4, <4>3, CommitShows
        <5>2. values[p] = "none"
          BY <3>3, <3>4, <4>3 DEF Fresh
        <5>3. values' = CommitShown(a)
          BY <2>5, <4>3 DEF Commit, CommitShown
        <5> QED
          BY <5>1, <5>2, <5>3
      <4> QED
        BY <3>6, <4>1, <4>2, <4>3
    <3> QED
      BY <3>5, <3>6, <3>7
  <2> QED
    BY <1>0, <2>1, <2>2, <2>3, <2>4, <2>5 DEF LostInv
<1>6. Aside \/ Connect \/ Poll \/ Cancel \/ Reject \/ Client
  BY DEF Next, Aside, KnownInv
<1> QED
  BY <1>2, <1>3, <1>4, <1>5, <1>6

\* A point the unit has lost shows no value once a pass is over, in the time of one connect(),
\* whatever was read, written or cancelled: what it lost is told, what was not there shows
\* nothing, and no read brings it back (_tell_points()).
THEOREM LostShowsNothing == Spec => []LostIsMissing
<1>1. Init => KnownInv
  <2> SUFFICES ASSUME Init PROVE KnownInv
    OBVIOUS
  <2>1. TypeInv
    BY InitTyped
  <2>2. /\ connects = 0 /\ stage = "idle" /\ resolved = {} /\ writing = {}
        /\ \A p \in Points : values[p] = "none"
    BY DEF Init
  <2>3. FreshInv /\ ForeignInv /\ AskedInv /\ GainedInv /\ LostInv
    BY <2>2 DEF FreshInv, Fresh, ForeignInv, AskedInv, GainedInv, LostInv
  <2>4. PolledInv
    BY DEF Init, PolledInv
  <2> QED
    BY <2>1, <2>3, <2>4 DEF KnownInv
<1>2. KnownInv /\ [Next]_vars => KnownInv'
  BY StepTyped, PolledStep, FreshStep, ForeignStep, AskedStep, GainedStep, LostStep DEF KnownInv
<1>3. KnownInv => LostIsMissing
  BY DEF KnownInv, LostInv, LostIsMissing, Droppable
<1> QED
  BY <1>1, <1>2, <1>3, PTL DEF Spec
=============================================================================
