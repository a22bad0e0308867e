------------------------- MODULE NabtoDeviceProofs -------------------------
(***************************************************************************)
(* What a micro_nabto device promises of a read, proved for any points,    *)
(* registers, lists, rules and units: each point has an outcome, only      *)
(* those the unit lacks are missing, and what is held back is read again   *)
(* at the times of the rule.                                               *)
(***************************************************************************)
EXTENDS NabtoDevice, Recursion

-----------------------------------------------------------------------------
(***************************************************************************)
(* Batches: each point of a read is in one of them, once.                  *)
(***************************************************************************)

RegistersOf(points) == UNION {Range(Spans[p]) : p \in points}

BatchRecords == [points : Seq(Points), items : Seq(Registers)]

IsBatch(batch) ==
    /\ batch.points # << >>
    /\ IsInjective(batch.points)
    /\ Range(batch.items) = RegistersOf(Range(batch.points))

\* The points of `points` are in the batches, each once.
Batched(batches, points) ==
    /\ batches \in Seq(BatchRecords)
    /\ \A i \in DOMAIN batches : IsBatch(batches[i])
    /\ \A i, j \in DOMAIN batches :
            i # j => Range(batches[i].points) \cap Range(batches[j].points) = {}
    /\ points = UNION {Range(batches[i].points) : i \in DOMAIN batches}

LEMMA ItemsAre ==
    ASSUME NabtoDeviceAssumption, NEW points \in Seq(Points), points # << >>
    PROVE  /\ Items(points) \in Seq(Registers)
           /\ Range(Items(points)) = RegistersOf(Range(points))
<1> DEFINE seqs == [i \in DOMAIN points |-> Spans[points[i]]]
           L == Len(points)
<1>1. L \in Nat /\ 1 <= L /\ DOMAIN points = 1 .. L /\ 1 \in 1 .. L /\ L \in 1 .. L
  BY EmptySeq, LenProperties
<1>2. /\ seqs \in Seq(Seq(Registers)) /\ Len(seqs) = L
      /\ \A i \in 1 .. L : points[i] \in Points /\ Spans[points[i]] \in Seq(Registers)
                           /\ seqs[i] = Spans[points[i]]
  <2>1. \A i \in 1 .. L : points[i] \in Points
    BY <1>1, ElementOfSeq
  <2>2. \A i \in 1 .. L : Spans[points[i]] \in Seq(Registers)
    BY <2>1 DEF NabtoDeviceAssumption
  <2>3. seqs = [i \in 1 .. L |-> Spans[points[i]]]
    BY <1>1
  <2>4. seqs \in [1 .. L -> Seq(Registers)]
    BY <2>2, <2>3
  <2>5. seqs \in Seq(Seq(Registers)) /\ Len(seqs) = L
    BY <1>1, <2>4, IsASeq, LenProperties
  <2> QED
    BY <2>1, <2>2, <2>3, <2>5
<1>3. seqs # << >>
  BY <1>1, <1>2, EmptySeq
<1> HIDE DEF L
<1>4. Items(points) = FlattenSeq(seqs)
  BY DEF Items
<1> HIDE DEF seqs
<1>5. PICK f \in [1 .. L -> Seq(Registers)] :
          /\ FlattenSeq(seqs) = f[L]
          /\ f[1] = seqs[1]
          /\ \A n \in 1 .. L : n # 1 => f[n] = f[n - 1] \o seqs[n]
  <2>1. seqs \in Seq(Seq(Registers)) /\ L = Len(seqs)
    BY <1>2
  <2> QED
    BY <1>3, <2>1, Flattened
<1> DEFINE S == {n \in 1 .. L : Range(f[n]) = UNION {Range(seqs[i]) : i \in 1 .. n}}
<1>6. 1 \in S
  <2>1. 1 .. 1 = {1}
    OBVIOUS
  <2> QED
    BY <1>1, <1>5, <2>1
<1>7. ASSUME NEW n \in 1 .. L, n # 1, n - 1 \in S PROVE n \in S
  <2>1. n - 1 \in 1 .. L /\ 1 .. n = (1 .. n - 1) \union {n}
    BY <1>1, <1>7
  <2>2. f[n - 1] \in Seq(Registers) /\ seqs[n] \in Seq(Registers) /\ f[n] = f[n - 1] \o seqs[n]
    BY <1>2, <1>5, <1>7, <2>1
  <2>3. Range(f[n]) = Range(f[n - 1]) \union Range(seqs[n])
    BY <2>2, RangeConcatenation
  <2>4. Range(f[n - 1]) = UNION {Range(seqs[i]) : i \in 1 .. n - 1}
    BY <1>7
  <2>5. Range(f[n]) = UNION {Range(seqs[i]) : i \in 1 .. n}
    BY <2>1, <2>3, <2>4
  <2> QED
    BY <2>5
<1> HIDE DEF S
<1>8. 1 .. L \subseteq S
  BY <1>1, <1>6, <1>7, UpTo
<1>9. L \in S
  BY <1>1, <1>8
<1>10. Range(f[L]) = UNION {Range(seqs[i]) : i \in 1 .. L}
  BY <1>9 DEF S
<1>11. Range(points) = {points[i] : i \in 1 .. L}
  BY <1>1 DEF Range
<1>12. UNION {Range(seqs[i]) : i \in 1 .. L} = RegistersOf(Range(points))
  <2>1. \A i \in 1 .. L : seqs[i] = Spans[points[i]]
    BY <1>2
  <2>2. ASSUME NEW r PROVE r \in UNION {Range(seqs[i]) : i \in 1 .. L}
                            <=> r \in UNION {Range(Spans[p]) : p \in Range(points)}
    BY <1>11, <2>1
  <2> QED
    BY <2>2 DEF RegistersOf
<1> QED
  BY <1>1, <1>4, <1>5, <1>10, <1>12

LEMMA BatchIs ==
    ASSUME NabtoDeviceAssumption, NEW points \in Seq(Points), points # << >>
    PROVE  /\ BatchOf(points) \in BatchRecords
           /\ BatchOf(points).points = points
           /\ IsInjective(points) => IsBatch(BatchOf(points))
  BY ItemsAre DEF BatchOf, BatchRecords, IsBatch

\* What _batches() makes of its batches so far and the next point.
Grown(batches, point) ==
    IF Joins(batches, point)
    THEN [batches EXCEPT ![Len(batches)] = BatchOf(Append(@.points, point))]
    ELSE Append(batches, BatchOf(<<point>>))

LEMMA OnePoint ==
    ASSUME NEW p \in Points
    PROVE  /\ <<p>> \in Seq(Points) /\ <<p>> # << >> /\ IsInjective(<<p>>) /\ Range(<<p>>) = {p}
<1>1. <<p>> \in Seq(Points) /\ <<p>> # << >> /\ DOMAIN <<p>> = 1 .. 1 /\ <<p>>[1] = p
  OBVIOUS
<1>2. Range(<<p>>) = {p}
  BY <1>1 DEF Range
<1>3. IsInjective(<<p>>)
  BY <1>1 DEF IsInjective
<1> QED
  BY <1>1, <1>2, <1>3

LEMMA OneMore ==
    ASSUME NEW points \in Seq(Points), NEW p \in Points
    PROVE  /\ Append(points, p) \in Seq(Points) /\ Append(points, p) # << >>
           /\ Range(Append(points, p)) = Range(points) \union {p}
           /\ IsInjective(points) /\ p \notin Range(points) => IsInjective(Append(points, p))
<1> DEFINE more == Append(points, p)
           L == Len(points)
<1>1. /\ more \in Seq(Points) /\ DOMAIN more = 1 .. L + 1 /\ DOMAIN points = 1 .. L /\ L \in Nat
      /\ more[L + 1] = p /\ \A i \in 1 .. L : more[i] = points[i]
  OBVIOUS
<1> HIDE DEF more, L
<1>2. more # << >>
  BY <1>1, EmptySeq
<1>3. Range(more) = Range(points) \union {p}
  <2>1. 1 .. L + 1 = (1 .. L) \union {L + 1}
    BY <1>1
  <2> QED
    BY <1>1, <2>1 DEF Range
<1>4. ASSUME IsInjective(points), p \notin Range(points), NEW i \in DOMAIN more, NEW j \in DOMAIN more,
             more[i] = more[j]
      PROVE  i = j
  <2>1. (i \in 1 .. L \/ i = L + 1) /\ (j \in 1 .. L \/ j = L + 1)
    BY <1>1
  <2>2. \A n \in 1 .. L : more[n] # p
    BY <1>1, <1>4 DEF Range
  <2>3. \A n, k \in 1 .. L : points[n] = points[k] => n = k
    BY <1>1, <1>4 DEF IsInjective
  <2> QED
    BY <1>1, <1>4, <2>1, <2>2, <2>3
<1> QED
  BY <1>1, <1>2, <1>3, <1>4 DEF more, IsInjective

LEMMA GrownIs ==
    ASSUME NabtoDeviceAssumption, NEW batches \in Seq(BatchRecords), NEW p \in Points
    PROVE  Grown(batches, p) \in Seq(BatchRecords)
<1>1. BatchOf(<<p>>) \in BatchRecords
  BY OnePoint, BatchIs
<1>2. CASE Joins(batches, p)
  <2> DEFINE L == Len(batches)
  <2>1. L \in 1 .. L /\ DOMAIN batches = 1 .. L
    BY <1>2, EmptySeq, LenProperties DEF Joins
  <2>2. batches[L].points \in Seq(Points)
    <3>1. batches[L] \in BatchRecords
      BY <2>1, ElementOfSeq
    <3> QED
      BY <3>1 DEF BatchRecords
  <2>3. BatchOf(Append(batches[L].points, p)) \in BatchRecords
    BY <2>2, OneMore, BatchIs
  <2>4. [batches EXCEPT ![L] = BatchOf(Append(@.points, p))]
            = [batches EXCEPT ![L] = BatchOf(Append(batches[L].points, p))]
    BY <2>1
  <2>5. [batches EXCEPT ![L] = BatchOf(Append(batches[L].points, p))] \in Seq(BatchRecords)
    BY <2>1, <2>3, ExceptSeq
  <2> QED
    BY <1>2, <2>4, <2>5 DEF Grown
<1>3. CASE ~Joins(batches, p)
  BY <1>1, <1>3, AppendProperties DEF Grown
<1> QED
  BY <1>2, <1>3

LEMMA GrownBatched ==
    ASSUME NabtoDeviceAssumption, NEW batches, NEW points, Batched(batches, points),
           NEW p \in Points, p \notin points
    PROVE  Batched(Grown(batches, p), points \union {p})
<1> DEFINE L == Len(batches)
           grown == Grown(batches, p)
<1>1. /\ batches \in Seq(BatchRecords) /\ L \in Nat /\ DOMAIN batches = 1 .. L
      /\ grown \in Seq(BatchRecords)
  BY GrownIs, LenProperties DEF Batched
<1>2. \A i \in 1 .. L : IsBatch(batches[i]) /\ Range(batches[i].points) \subseteq points
                        /\ batches[i].points \in Seq(Points) /\ p \notin Range(batches[i].points)
  <2>1. \A i \in 1 .. L : batches[i] \in BatchRecords
    BY <1>1, ElementOfSeq
  <2>2. \A i \in 1 .. L : batches[i].points \in Seq(Points)
    BY <2>1 DEF BatchRecords
  <2>3. \A i \in 1 .. L : IsBatch(batches[i])
    BY <1>1 DEF Batched
  <2>4. points = UNION {Range(batches[i].points) : i \in 1 .. L}
    BY <1>1 DEF Batched
  <2>5. \A i \in 1 .. L : Range(batches[i].points) \subseteq points
    BY <2>4
  <2> HIDE DEF L
  <2> QED
    BY <2>2, <2>3, <2>5
<1>3. \A i, j \in 1 .. L :
          i # j => Range(batches[i].points) \cap Range(batches[j].points) = {}
  BY <1>1 DEF Batched
<1>4. points = UNION {Range(batches[i].points) : i \in 1 .. L}
  BY <1>1 DEF Batched
<1>5. CASE Joins(batches, p)
  <2> DEFINE last_ == Append(batches[L].points, p)
  <2>1. L \in 1 .. L
    BY <1>1, <1>5, EmptySeq DEF Joins
  <2>2. /\ last_ \in Seq(Points) /\ last_ # << >> /\ IsInjective(last_)
        /\ Range(last_) = Range(batches[L].points) \union {p}
    BY <1>2, <2>1, OneMore DEF IsBatch
  <2> HIDE DEF last_
  <2>3. IsBatch(BatchOf(last_)) /\ BatchOf(last_).points = last_
    BY <2>2, BatchIs
  <2>4. /\ DOMAIN grown = 1 .. L /\ grown[L] = BatchOf(last_)
        /\ \A i \in 1 .. L : i # L => grown[i] = batches[i]
    BY <1>1, <1>5, <2>1 DEF Grown, last_
  <2> HIDE DEF grown, L
  <2>5. \A i \in 1 .. L : IsBatch(grown[i])
    BY <1>2, <2>3, <2>4
  <2>6. \A i \in 1 .. L : Range(grown[i].points)
                            = Range(batches[i].points) \union (IF i = L THEN {p} ELSE {})
    BY <2>2, <2>3, <2>4
  <2>7. \A i, j \in 1 .. L :
            i # j => Range(grown[i].points) \cap Range(grown[j].points) = {}
    <3>1. ASSUME NEW i \in 1 .. L, NEW j \in 1 .. L, i # j
          PROVE  Range(grown[i].points) \cap Range(grown[j].points) = {}
      <4>1. /\ Range(batches[i].points) \cap Range(batches[j].points) = {}
            /\ p \notin Range(batches[i].points) /\ p \notin Range(batches[j].points)
        BY <1>2, <1>3, <3>1
      <4>2. i # L \/ j # L
        BY <3>1
      <4> QED
        BY <2>6, <4>1, <4>2
    <3> QED
      BY <3>1
  <2>8. points \union {p} = UNION {Range(grown[i].points) : i \in 1 .. L}
    BY <1>4, <2>1, <2>6
  <2> QED
    BY <1>1, <2>4, <2>5, <2>7, <2>8 DEF Batched, grown
<1>6. CASE ~Joins(batches, p)
  <2>1. IsBatch(BatchOf(<<p>>)) /\ Range(BatchOf(<<p>>).points) = {p}
    BY OnePoint, BatchIs
  <2>2. BatchOf(<<p>>) \in BatchRecords
    BY OnePoint, BatchIs
  <2>3. /\ DOMAIN grown = 1 .. L + 1 /\ grown[L + 1] = BatchOf(<<p>>)
        /\ \A i \in 1 .. L : grown[i] = batches[i]
    BY <1>1, <1>6, <2>2, AppendProperties, LenProperties DEF Grown
  <2> HIDE DEF grown, L
  <2>4. \A i \in 1 .. L + 1 : i \in 1 .. L \/ i = L + 1
    BY <1>1
  <2>5. \A i \in 1 .. L + 1 : IsBatch(grown[i])
    BY <1>2, <2>1, <2>3, <2>4
  <2>6. \A i, j \in 1 .. L + 1 :
            i # j => Range(grown[i].points) \cap Range(grown[j].points) = {}
    <3>1. ASSUME NEW i \in 1 .. L + 1, NEW j \in 1 .. L + 1, i # j
          PROVE  Range(grown[i].points) \cap Range(grown[j].points) = {}
      <4>1. CASE i \in 1 .. L /\ j \in 1 .. L
        BY <1>3, <2>3, <3>1, <4>1
      <4>2. CASE i = L + 1
        BY <1>2, <2>1, <2>3, <2>4, <3>1, <4>2
      <4>3. CASE j = L + 1
        <5>1. i \in 1 .. L /\ Range(grown[j].points) = {p}
          BY <2>1, <2>3, <2>4, <3>1, <4>3
        <5>2. p \notin Range(grown[i].points)
          BY <1>2, <2>3, <5>1
        <5> QED
          BY <5>1, <5>2
      <4> QED
        BY <2>4, <4>1, <4>2, <4>3
    <3> QED
      BY <3>1
  <2>7. (1 .. L) \subseteq 1 .. L + 1 /\ L + 1 \in 1 .. L + 1
    BY <1>1
  <2>8. points \union {p} = UNION {Range(grown[i].points) : i \in 1 .. L + 1}
    BY <1>4, <2>1, <2>3, <2>4, <2>7
  <2> QED
    BY <1>1, <2>3, <2>5, <2>6, <2>8 DEF Batched, grown
<1> QED
  BY <1>5, <1>6

\* _batches(): the points in order, each with the batch before it or starting one.
LEMMA BatchesAre ==
    ASSUME NabtoDeviceAssumption, NEW points \in Seq(Points), IsInjective(points)
    PROVE  Batched(Batches(points), Range(points))
<1> DEFINE L == Len(points)
           V == Seq(BatchRecords)
           Solves(f) == f = [n \in 0 .. L |->
                    IF n = 0 THEN << >>
                    ELSE IF Joins(f[n - 1], points[n])
                         THEN [f[n - 1] EXCEPT
                                  ![Len(f[n - 1])] = BatchOf(Append(@.points, points[n]))]
                         ELSE Append(f[n - 1], BatchOf(<<points[n]>>))]
           E == [n \in 0 .. L |-> [v \in V |-> IF n = 0 THEN v ELSE Grown(v, points[n])]]
<1>1. L \in Nat /\ 0 <= L /\ DOMAIN points = 1 .. L /\ 0 \in Nat /\ 0 \in 0 .. L /\ L \in 0 .. L
  BY LenProperties
<1>2. \A n \in 0 .. L : n # 0 => points[n] \in Points /\ n \in 1 .. L /\ n - 1 \in 0 .. L
  BY <1>1, ElementOfSeq
<1> HIDE DEF L
<1>3. \E f : Solves(f)
  <2>1. \A n \in 0 .. L :
            [v \in V |-> IF n = 0 THEN v ELSE Grown(v, points[n])] \in [V -> V]
    BY <1>2, GrownIs
  <2>2. E \in [0 .. L -> [V -> V]]
    BY <2>1
  <2>3. << >> \in V
    BY EmptySeq
  <2>4. \A n \in 0 .. L : n # 0 => \A v \in V : E[n][v] = Grown(v, points[n])
    OBVIOUS
  <2> HIDE DEF E, V, Solves
  <2>5. PICK f \in [0 .. L -> V] : Unfolds(f, 0, L, << >>, E)
    BY <1>1, <2>2, <2>3, Recursive
  <2>6. f[0] = << >> /\ \A n \in 0 .. L : n # 0 => f[n] = Grown(f[n - 1], points[n])
    BY <1>2, <2>4, <2>5 DEF Unfolds
  <2>7. Solves(f)
    BY <2>5, <2>6 DEF Solves, Grown
  <2> QED
    BY <2>7
<1> DEFINE batches == CHOOSE f : Solves(f)
<1>4. Batches(points) = batches[L]
  BY DEF Batches, L
<1>5. Solves(batches)
  BY <1>3
<1> HIDE DEF batches
<1>6. /\ batches[0] = << >>
      /\ \A n \in 0 .. L : n # 0 => batches[n] = Grown(batches[n - 1], points[n])
  BY <1>1, <1>5 DEF Grown
<1> HIDE DEF Solves
<1> DEFINE S == {n \in 0 .. L : Batched(batches[n], {points[i] : i \in 1 .. n})}
<1>7. 0 \in S
  <2>1. 1 .. 0 = {} /\ DOMAIN << >> = {}
    OBVIOUS
  <2>2. {points[i] : i \in 1 .. 0} = {}
    BY <2>1
  <2>3. Batched(<< >>, {})
    BY <2>1, EmptySeq DEF Batched
  <2> QED
    BY <1>1, <1>6, <2>2, <2>3
<1>8. ASSUME NEW n \in 0 .. L, n # 0, n - 1 \in S PROVE n \in S
  <2>1. Batched(batches[n - 1], {points[i] : i \in 1 .. n - 1})
    BY <1>8
  <2>2. n \in 1 .. L /\ \A i \in 1 .. n - 1 : i \in 1 .. L /\ i # n
    BY <1>1, <1>8
  <2>3. points[n] \in Points /\ points[n] \notin {points[i] : i \in 1 .. n - 1}
    BY <1>1, <1>2, <2>2 DEF IsInjective
  <2>4. Batched(Grown(batches[n - 1], points[n]), {points[i] : i \in 1 .. n - 1} \union {points[n]})
    BY <2>1, <2>3, GrownBatched
  <2>5. 1 .. n = (1 .. n - 1) \union {n}
    BY <2>2
  <2>6. {points[i] : i \in 1 .. n} = {points[i] : i \in 1 .. n - 1} \union {points[n]}
    BY <2>5
  <2> QED
    BY <1>6, <1>8, <2>4, <2>6
<1> HIDE DEF S
<1>9. 0 .. L \subseteq S
  BY <1>1, <1>7, <1>8, UpTo
<1>10. Batched(batches[L], {points[i] : i \in 1 .. L})
  BY <1>1, <1>9 DEF S
<1>11. Range(points) = {points[i] : i \in 1 .. L}
  BY <1>1 DEF Range
<1> QED
  BY <1>4, <1>10, <1>11

\* The points of `points` are in the groups, each once, those of one space in one group.
Grouped(groups, points) ==
    /\ groups \in Seq(Seq(Points))
    /\ \A i \in DOMAIN groups :
          groups[i] # << >> /\ IsInjective(groups[i])
    /\ \A i \in DOMAIN groups : \A p \in Range(groups[i]) : Space[p] = Space[Head(groups[i])]
    /\ \A i, j \in DOMAIN groups :
            Space[Head(groups[i])] = Space[Head(groups[j])] => i = j
    /\ points = UNION {Range(groups[i]) : i \in DOMAIN groups}

\* What read() makes of the points by their spaces and the next one.
SameSpace(groups, point) == {i \in DOMAIN groups : Space[Head(groups[i])] = Space[point]}
Sorted(groups, point) ==
    IF SameSpace(groups, point) = {}
    THEN Append(groups, <<point>>)
    ELSE [groups EXCEPT ![CHOOSE i \in SameSpace(groups, point) : TRUE] = Append(@, point)]

LEMMA SortedIs ==
    ASSUME NEW groups \in Seq(Seq(Points)), NEW p \in Points
    PROVE  Sorted(groups, p) \in Seq(Seq(Points))
<1>1. CASE SameSpace(groups, p) = {}
  BY <1>1, OnePoint, AppendProperties DEF Sorted
<1>2. CASE SameSpace(groups, p) # {}
  <2> DEFINE k == CHOOSE i \in SameSpace(groups, p) : TRUE
  <2>1. k \in DOMAIN groups
    BY <1>2 DEF SameSpace
  <2>2. k \in 1 .. Len(groups) /\ groups[k] \in Seq(Points)
    BY <2>1, ElementOfSeq, LenProperties
  <2>3. Append(groups[k], p) \in Seq(Points)
    BY <2>2, OneMore
  <2>4. [groups EXCEPT ![k] = Append(@, p)] = [groups EXCEPT ![k] = Append(groups[k], p)]
    BY <2>1
  <2>5. [groups EXCEPT ![k] = Append(groups[k], p)] \in Seq(Seq(Points))
    BY <2>2, <2>3, ExceptSeq
  <2> QED
    BY <1>2, <2>4, <2>5 DEF Sorted
<1> QED
  BY <1>1, <1>2

LEMMA HeadStays ==
    ASSUME NEW points \in Seq(Points), points # << >>, NEW p \in Points
    PROVE  Head(Append(points, p)) = Head(points) /\ Head(points) \in Range(points)
<1>1. Len(points) \in Nat /\ 1 \in 1 .. Len(points) /\ DOMAIN points = 1 .. Len(points)
  BY EmptySeq, LenProperties
<1> QED
  BY <1>1, HeadTailAppend DEF Range

LEMMA SortedGrouped ==
    ASSUME NabtoDeviceAssumption, NEW groups, NEW points, Grouped(groups, points),
           NEW p \in Points, p \notin points
    PROVE  Grouped(Sorted(groups, p), points \union {p})
<1> DEFINE L == Len(groups)
           sorted == Sorted(groups, p)
<1>1. /\ groups \in Seq(Seq(Points)) /\ L \in Nat /\ DOMAIN groups = 1 .. L
      /\ sorted \in Seq(Seq(Points))
  BY SortedIs, LenProperties DEF Grouped
<1>2. \A i \in 1 .. L : groups[i] \in Seq(Points) /\ groups[i] # << >> /\ IsInjective(groups[i])
  BY <1>1, ElementOfSeq DEF Grouped
<1>3. \A i \in 1 .. L : \A q \in Range(groups[i]) : Space[q] = Space[Head(groups[i])]
  BY <1>1 DEF Grouped
<1>4. \A i, j \in 1 .. L : Space[Head(groups[i])] = Space[Head(groups[j])] => i = j
  BY <1>1 DEF Grouped
<1>5. points = UNION {Range(groups[i]) : i \in 1 .. L}
  BY <1>1 DEF Grouped
<1>6. \A i \in 1 .. L : p \notin Range(groups[i])
  BY <1>5
<1>7. CASE SameSpace(groups, p) = {}
  <2>1. \A i \in 1 .. L : Space[Head(groups[i])] # Space[p]
    BY <1>1, <1>7 DEF SameSpace
  <2>2. /\ DOMAIN sorted = 1 .. L + 1 /\ sorted[L + 1] = <<p>>
        /\ \A i \in 1 .. L : sorted[i] = groups[i]
    BY <1>1, <1>7, OnePoint, AppendProperties, LenProperties DEF Sorted
  <2> HIDE DEF sorted, L
  <2>3. \A i \in 1 .. L + 1 : i \in 1 .. L \/ i = L + 1
    BY <1>1
  <2>4. Head(<<p>>) = p /\ IsInjective(<<p>>) /\ Range(<<p>>) = {p} /\ <<p>> # << >>
    BY OnePoint
  <2>5. \A i \in 1 .. L + 1 : sorted[i] # << >> /\ IsInjective(sorted[i])
    BY <1>2, <2>2, <2>3, <2>4
  <2>6. \A i \in 1 .. L + 1 : \A q \in Range(sorted[i]) : Space[q] = Space[Head(sorted[i])]
    BY <1>3, <2>2, <2>3, <2>4
  <2>7. \A i, j \in 1 .. L + 1 : Space[Head(sorted[i])] = Space[Head(sorted[j])] => i = j
    BY <1>4, <2>1, <2>2, <2>3, <2>4
  <2>8. (1 .. L) \subseteq 1 .. L + 1 /\ L + 1 \in 1 .. L + 1
    BY <1>1
  <2>9. points \union {p} = UNION {Range(sorted[i]) : i \in 1 .. L + 1}
    BY <1>5, <2>2, <2>3, <2>4, <2>8
  <2> QED
    BY <1>1, <2>2, <2>5, <2>6, <2>7, <2>9 DEF Grouped, sorted
<1>8. CASE SameSpace(groups, p) # {}
  <2> DEFINE k == CHOOSE i \in SameSpace(groups, p) : TRUE
  <2>1. k \in 1 .. L /\ Space[Head(groups[k])] = Space[p]
    BY <1>1, <1>8 DEF SameSpace
  <2>2. sorted = [groups EXCEPT ![k] = Append(@, p)]
    BY <1>8 DEF Sorted
  <2> HIDE DEF k, L
  <2>3. /\ DOMAIN sorted = 1 .. L /\ sorted[k] = Append(groups[k], p)
        /\ \A i \in 1 .. L : i # k => sorted[i] = groups[i]
    BY <1>1, <2>1, <2>2
  <2> HIDE DEF sorted
  <2>4. /\ sorted[k] # << >> /\ IsInjective(sorted[k])
        /\ Range(sorted[k]) = Range(groups[k]) \union {p}
        /\ Head(sorted[k]) = Head(groups[k])
    BY <1>2, <1>6, <2>1, <2>3, OneMore, HeadStays
  <2>5. \A i \in 1 .. L : sorted[i] # << >> /\ IsInjective(sorted[i])
    BY <1>2, <2>3, <2>4
  <2>6. \A i \in 1 .. L : Head(sorted[i]) = Head(groups[i])
    BY <2>3, <2>4
  <2>7. \A i \in 1 .. L : Range(sorted[i]) = Range(groups[i]) \union (IF i = k THEN {p} ELSE {})
    BY <2>3, <2>4
  <2>8. \A i \in 1 .. L : \A q \in Range(sorted[i]) : Space[q] = Space[Head(sorted[i])]
    BY <1>3, <2>1, <2>6, <2>7
  <2>9. \A i, j \in 1 .. L : Space[Head(sorted[i])] = Space[Head(sorted[j])] => i = j
    BY <1>4, <2>6
  <2>10. points \union {p} = UNION {Range(sorted[i]) : i \in 1 .. L}
    BY <1>5, <2>1, <2>7
  <2> QED
    BY <1>1, <2>3, <2>5, <2>8, <2>9, <2>10 DEF Grouped, sorted
<1> QED
  BY <1>7, <1>8

\* read(): the points of each space, the spaces in the order they come up.
LEMMA SpacesAre ==
    ASSUME NabtoDeviceAssumption, NEW points \in Seq(Points), IsInjective(points)
    PROVE  Grouped(BySpace(points), Range(points))
<1> DEFINE L == Len(points)
           V == Seq(Seq(Points))
           Solves(f) == f = [n \in 0 .. L |->
                    IF n = 0 THEN << >>
                    ELSE IF {i \in DOMAIN f[n - 1] : Space[Head(f[n - 1][i])] = Space[points[n]]} = {}
                         THEN Append(f[n - 1], <<points[n]>>)
                         ELSE [f[n - 1] EXCEPT
                                  ![CHOOSE i \in {i \in DOMAIN f[n - 1] :
                                        Space[Head(f[n - 1][i])] = Space[points[n]]} : TRUE]
                                  = Append(@, points[n])]]
           E == [n \in 0 .. L |-> [v \in V |-> IF n = 0 THEN v ELSE Sorted(v, points[n])]]
<1>1. L \in Nat /\ 0 <= L /\ DOMAIN points = 1 .. L /\ 0 \in Nat /\ 0 \in 0 .. L /\ L \in 0 .. L
  BY LenProperties
<1>2. \A n \in 0 .. L : n # 0 => points[n] \in Points /\ n \in 1 .. L /\ n - 1 \in 0 .. L
  BY <1>1, ElementOfSeq
<1> HIDE DEF L
<1>3. \E f : Solves(f)
  <2>1. \A n \in 0 .. L :
            [v \in V |-> IF n = 0 THEN v ELSE Sorted(v, points[n])] \in [V -> V]
    BY <1>2, SortedIs
  <2>2. E \in [0 .. L -> [V -> V]]
    BY <2>1
  <2>3. << >> \in V
    BY EmptySeq
  <2>4. \A n \in 0 .. L : n # 0 => \A v \in V : E[n][v] = Sorted(v, points[n])
    OBVIOUS
  <2> HIDE DEF E, V, Solves
  <2>5. PICK f \in [0 .. L -> V] : Unfolds(f, 0, L, << >>, E)
    BY <1>1, <2>2, <2>3, Recursive
  <2>6. f[0] = << >> /\ \A n \in 0 .. L : n # 0 => f[n] = Sorted(f[n - 1], points[n])
    BY <1>2, <2>4, <2>5 DEF Unfolds
  <2>7. Solves(f)
    BY <2>5, <2>6 DEF Solves, Sorted, SameSpace
  <2> QED
    BY <2>7
<1> DEFINE spaces == CHOOSE f : Solves(f)
<1>4. BySpace(points) = spaces[L]
  BY DEF BySpace, L
<1>5. Solves(spaces)
  BY <1>3
<1> HIDE DEF spaces
<1>6. /\ spaces[0] = << >>
      /\ \A n \in 0 .. L : n # 0 => spaces[n] = Sorted(spaces[n - 1], points[n])
  BY <1>1, <1>5 DEF Sorted, SameSpace
<1> HIDE DEF Solves
<1> DEFINE S == {n \in 0 .. L : Grouped(spaces[n], {points[i] : i \in 1 .. n})}
<1>7. 0 \in S
  <2>1. 1 .. 0 = {} /\ DOMAIN << >> = {}
    OBVIOUS
  <2>2. {points[i] : i \in 1 .. 0} = {}
    BY <2>1
  <2>3. Grouped(<< >>, {})
    BY <2>1, EmptySeq DEF Grouped
  <2> QED
    BY <1>1, <1>6, <2>2, <2>3
<1>8. ASSUME NEW n \in 0 .. L, n # 0, n - 1 \in S PROVE n \in S
  <2>1. Grouped(spaces[n - 1], {points[i] : i \in 1 .. n - 1})
    BY <1>8
  <2>2. n \in 1 .. L /\ \A i \in 1 .. n - 1 : i \in 1 .. L /\ i # n
    BY <1>1, <1>8
  <2>3. points[n] \in Points /\ points[n] \notin {points[i] : i \in 1 .. n - 1}
    BY <1>1, <1>2, <2>2 DEF IsInjective
  <2>4. Grouped(Sorted(spaces[n - 1], points[n]), {points[i] : i \in 1 .. n - 1} \union {points[n]})
    BY <2>1, <2>3, SortedGrouped
  <2>5. 1 .. n = (1 .. n - 1) \union {n}
    BY <2>2
  <2>6. {points[i] : i \in 1 .. n} = {points[i] : i \in 1 .. n - 1} \union {points[n]}
    BY <2>5
  <2> QED
    BY <1>6, <1>8, <2>4, <2>6
<1> HIDE DEF S
<1>9. 0 .. L \subseteq S
  BY <1>1, <1>7, <1>8, UpTo
<1>10. Grouped(spaces[L], {points[i] : i \in 1 .. L})
  BY <1>1, <1>9 DEF S
<1>11. Range(points) = {points[i] : i \in 1 .. L}
  BY <1>1 DEF Range
<1> QED
  BY <1>4, <1>10, <1>11

LEMMA JoinedBatched ==
    ASSUME NEW a, NEW b, NEW S, NEW T, Batched(a, S), Batched(b, T), S \cap T = {}
    PROVE  Batched(a \o b, S \union T)
<1> DEFINE M == Len(a)
           N == Len(b)
           c == a \o b
<1>1. /\ a \in Seq(BatchRecords) /\ M \in Nat /\ DOMAIN a = 1 .. M
      /\ b \in Seq(BatchRecords) /\ N \in Nat /\ DOMAIN b = 1 .. N
  BY LenProperties DEF Batched
<1>2. c \in Seq(BatchRecords) /\ DOMAIN c = 1 .. M + N
  BY <1>1, ConcatProperties, LenProperties
<1>3. /\ \A i \in 1 .. M : c[i] = a[i]
      /\ \A i \in M + 1 .. M + N : c[i] = b[i - M] /\ i - M \in 1 .. N
  BY <1>1, ConcatProperties
<1>4. \A i \in 1 .. M : IsBatch(a[i]) /\ Range(a[i].points) \subseteq S
  BY <1>1 DEF Batched
<1>5. \A i \in 1 .. N : IsBatch(b[i]) /\ Range(b[i].points) \subseteq T
  BY <1>1 DEF Batched
<1>6. /\ \A i, j \in 1 .. M : i # j => Range(a[i].points) \cap Range(a[j].points) = {}
      /\ \A i, j \in 1 .. N : i # j => Range(b[i].points) \cap Range(b[j].points) = {}
      /\ S = UNION {Range(a[i].points) : i \in 1 .. M}
      /\ T = UNION {Range(b[i].points) : i \in 1 .. N}
  BY <1>1 DEF Batched
<1> HIDE DEF M, N, c
<1>7. \A i \in 1 .. M + N : i \in 1 .. M \/ i \in M + 1 .. M + N
  BY <1>1
<1>8. \A i \in 1 .. M + N : IsBatch(c[i])
  BY <1>3, <1>4, <1>5, <1>7
<1>9. ASSUME NEW i \in 1 .. M + N, NEW j \in 1 .. M + N, i # j
      PROVE  Range(c[i].points) \cap Range(c[j].points) = {}
  <2>1. CASE i \in 1 .. M /\ j \in 1 .. M
    BY <1>3, <1>6, <1>9, <2>1
  <2>2. CASE i \in 1 .. M /\ j \in M + 1 .. M + N
    <3>1. Range(c[i].points) \subseteq S /\ Range(c[j].points) \subseteq T
      BY <1>3, <1>4, <1>5, <2>2
    <3> QED
      BY <3>1
  <2>3. CASE i \in M + 1 .. M + N /\ j \in 1 .. M
    <3>1. Range(c[i].points) \subseteq T /\ Range(c[j].points) \subseteq S
      BY <1>3, <1>4, <1>5, <2>3
    <3> QED
      BY <3>1
  <2>4. CASE i \in M + 1 .. M + N /\ j \in M + 1 .. M + N
    <3>1. i - M # j - M
      BY <1>1, <1>9, <2>4
    <3> QED
      BY <1>3, <1>6, <2>4, <3>1
  <2> QED
    BY <1>7, <2>1, <2>2, <2>3, <2>4
<1>10. S \union T = UNION {Range(c[i].points) : i \in 1 .. M + N}
  <2>1. ASSUME NEW p \in S \union T PROVE \E i \in 1 .. M + N : p \in Range(c[i].points)
    <3>1. CASE p \in S
      <4>1. PICK i \in 1 .. M : p \in Range(a[i].points)
        BY <1>6, <3>1
      <4>2. i \in 1 .. M + N
        BY <1>1
      <4> QED
        BY <1>3, <4>1, <4>2
    <3>2. CASE p \in T
      <4>1. PICK i \in 1 .. N : p \in Range(b[i].points)
        BY <1>6, <3>2
      <4> DEFINE k == M + i
      <4>2. k \in M + 1 .. M + N /\ k - M = i /\ k \in 1 .. M + N
        BY <1>1
      <4> HIDE DEF k
      <4>3. c[k] = b[i]
        BY <1>3, <4>2
      <4> QED
        BY <4>1, <4>2, <4>3
    <3> QED
      BY <2>1, <3>1, <3>2
  <2>2. ASSUME NEW i \in 1 .. M + N PROVE Range(c[i].points) \subseteq S \union T
    BY <1>3, <1>4, <1>5, <1>7
  <2> QED
    BY <2>1, <2>2
<1> QED
  BY <1>2, <1>8, <1>9, <1>10 DEF Batched, c

LEMMA NoBatches == Batched(<< >>, {})
<1>1. DOMAIN << >> = {} /\ << >> \in Seq(BatchRecords)
  BY EmptySeq
<1> QED
  BY <1>1 DEF Batched

\* read() asks for each point of its list in one batch, once.
LEMMA RequestsAre ==
    ASSUME NabtoDeviceAssumption, NEW points \in Lists
    PROVE  Batched(ReadRequests[points], Range(points))
<1> DEFINE spaces == BySpace(points)
           L == Len(spaces)
           seqs == [i \in DOMAIN spaces |-> Batches(spaces[i])]
<1>1. points \in Seq(Points) /\ IsInjective(points)
  BY DEF NabtoDeviceAssumption
<1>2. Grouped(spaces, Range(points))
  BY <1>1, SpacesAre
<1>3. ReadRequests[points] = FlattenSeq(seqs)
  BY DEF ReadRequests
<1> HIDE DEF spaces
<1>4. spaces \in Seq(Seq(Points)) /\ L \in Nat /\ DOMAIN spaces = 1 .. L
  BY <1>2, LenProperties DEF Grouped
<1> HIDE DEF L
<1>5. \A i \in 1 .. L : spaces[i] \in Seq(Points) /\ IsInjective(spaces[i])
  BY <1>2, <1>4, ElementOfSeq DEF Grouped, L
<1>6. \A i, j \in 1 .. L : i # j => Range(spaces[i]) \cap Range(spaces[j]) = {}
  BY <1>2, <1>4 DEF Grouped
<1>7. \A i \in 1 .. L : seqs[i] = Batches(spaces[i]) /\ Batched(seqs[i], Range(spaces[i]))
  BY <1>4, <1>5, BatchesAre
<1>8. seqs = [i \in 1 .. L |-> seqs[i]]
  BY <1>4
<1> HIDE DEF seqs
<1>9. seqs \in Seq(Seq(BatchRecords)) /\ Len(seqs) = L
  <2>1. seqs \in [1 .. L -> Seq(BatchRecords)]
    BY <1>7, <1>8 DEF Batched
  <2> QED
    BY <1>4, <2>1, IsASeq, LenProperties
<1>10. Range(points) = UNION {Range(spaces[i]) : i \in 1 .. L}
  BY <1>2, <1>4 DEF Grouped
<1>11. CASE L = 0
  <2>1. seqs = << >> /\ FlattenSeq(seqs) = seqs
    BY <1>9, <1>11, EmptySeq DEF FlattenSeq
  <2>2. 1 .. L = {}
    BY <1>11
  <2>3. Range(points) = {}
    BY <1>10, <2>2
  <2> QED
    BY <1>3, <2>1, <2>3, NoBatches
<1>12. CASE L # 0
  <2>1. seqs # << >> /\ L = Len(seqs) /\ 1 \in 1 .. L /\ L \in 1 .. L /\ 1 <= L
    BY <1>4, <1>9, <1>12, EmptySeq
  <2>2. PICK f \in [1 .. L -> Seq(BatchRecords)] :
          /\ FlattenSeq(seqs) = f[L]
          /\ f[1] = seqs[1]
          /\ \A n \in 1 .. L : n # 1 => f[n] = f[n - 1] \o seqs[n]
    <3>1. seqs \in Seq(Seq(BatchRecords)) /\ seqs # << >> /\ L = Len(seqs)
      BY <1>9, <2>1
    <3> QED
      BY <3>1, Flattened
  <2> DEFINE S == {n \in 1 .. L : Batched(f[n], UNION {Range(spaces[i]) : i \in 1 .. n})}
  <2>3. 1 \in S
    <3>1. 1 .. 1 = {1}
      OBVIOUS
    <3>2. UNION {Range(spaces[i]) : i \in 1 .. 1} = Range(spaces[1])
      BY <3>1
    <3> QED
      BY <1>7, <2>1, <2>2, <3>2
  <2>4. ASSUME NEW n \in 1 .. L, n # 1, n - 1 \in S PROVE n \in S
    <3> DEFINE before == UNION {Range(spaces[i]) : i \in 1 .. n - 1}
    <3>1. /\ Batched(f[n - 1], before) /\ Batched(seqs[n], Range(spaces[n]))
          /\ f[n] = f[n - 1] \o seqs[n]
      BY <1>7, <2>2, <2>4
    <3>2. 1 .. n = (1 .. n - 1) \union {n} /\ \A i \in 1 .. n - 1 : i \in 1 .. L /\ i # n
      BY <1>4
    <3>3. before \cap Range(spaces[n]) = {}
      <4>1. \A i \in 1 .. n - 1 : Range(spaces[i]) \cap Range(spaces[n]) = {}
        BY <1>6, <3>2
      <4> QED
        BY <4>1
    <3>4. before \union Range(spaces[n]) = UNION {Range(spaces[i]) : i \in 1 .. n}
      BY <3>2
    <3> HIDE DEF before
    <3>5. Batched(f[n - 1] \o seqs[n], before \union Range(spaces[n]))
      BY <3>1, <3>3, JoinedBatched
    <3> QED
      BY <2>4, <3>1, <3>4, <3>5
  <2> HIDE DEF S
  <2>5. 1 .. L \subseteq S
    BY <1>4, <2>1, <2>3, <2>4, UpTo
  <2>6. Batched(f[L], UNION {Range(spaces[i]) : i \in 1 .. L})
    BY <2>1, <2>5 DEF S
  <2> QED
    BY <1>3, <1>10, <2>2, <2>6
<1> QED
  BY <1>11, <1>12

\* What is left when the first batch is done.
LEMMA RestBatched ==
    ASSUME NEW batches, NEW S, Batched(batches, S), batches # << >>
    PROVE  /\ IsBatch(Head(batches)) /\ Head(batches) \in BatchRecords
           /\ Range(Head(batches).points) \subseteq S
           /\ Batched(Tail(batches), S \ Range(Head(batches).points))
<1> DEFINE L == Len(batches)
           rest == Tail(batches)
           first == Range(batches[1].points)
<1>1. /\ batches \in Seq(BatchRecords) /\ L \in Nat /\ DOMAIN batches = 1 .. L
      /\ 1 \in 1 .. L /\ Head(batches) = batches[1]
  BY EmptySeq, LenProperties DEF Batched
<1>2. /\ rest \in Seq(BatchRecords) /\ DOMAIN rest = 1 .. L - 1
      /\ \A i \in 1 .. L - 1 : rest[i] = batches[i + 1]
  BY <1>1, HeadTailProperties, LenProperties
<1>3. /\ \A i \in 1 .. L : IsBatch(batches[i])
      /\ \A i, j \in 1 .. L : i # j => Range(batches[i].points) \cap Range(batches[j].points) = {}
      /\ S = UNION {Range(batches[i].points) : i \in 1 .. L}
  BY <1>1 DEF Batched
<1> HIDE DEF L, rest
<1>4. \A i \in 1 .. L - 1 : i + 1 \in 1 .. L /\ i + 1 # 1
  BY <1>1
<1>5. \A i \in 1 .. L - 1 : IsBatch(rest[i])
  BY <1>2, <1>3, <1>4
<1>6. ASSUME NEW i \in 1 .. L - 1, NEW j \in 1 .. L - 1, i # j
      PROVE  Range(rest[i].points) \cap Range(rest[j].points) = {}
  <2>1. i + 1 \in 1 .. L /\ j + 1 \in 1 .. L /\ i + 1 # j + 1
    BY <1>4, <1>6
  <2> QED
    BY <1>2, <1>3, <2>1
<1>7. S \ first = UNION {Range(rest[i].points) : i \in 1 .. L - 1}
  <2>1. ASSUME NEW i \in 1 .. L - 1 PROVE Range(rest[i].points) \subseteq S \ first
    <3>1. i + 1 \in 1 .. L /\ i + 1 # 1
      BY <1>4
    <3>2. Range(batches[i + 1].points) \cap first = {}
      BY <1>1, <1>3, <3>1
    <3>3. Range(batches[i + 1].points) \subseteq S
      BY <1>3, <3>1
    <3> QED
      BY <1>2, <3>2, <3>3
  <2>2. ASSUME NEW p \in S \ first PROVE \E i \in 1 .. L - 1 : p \in Range(rest[i].points)
    <3>1. PICK k \in 1 .. L : p \in Range(batches[k].points)
      BY <1>3
    <3>2. k # 1
      BY <3>1
    <3> DEFINE i == k - 1
    <3>3. i \in 1 .. L - 1 /\ i + 1 = k
      BY <1>1, <3>2
    <3> HIDE DEF i
    <3>4. rest[i] = batches[k]
      BY <1>2, <3>3
    <3> QED
      BY <3>1, <3>3, <3>4
  <2> QED
    BY <2>1, <2>2
<1>8. Batched(rest, S \ first)
  BY <1>2, <1>5, <1>6, <1>7 DEF Batched
<1>9. batches[1] \in BatchRecords /\ first \subseteq S
  BY <1>1, <1>3, ElementOfSeq
<1> QED
  BY <1>1, <1>3, <1>8, <1>9 DEF rest

LEMMA PartIs ==
    ASSUME NEW points \in Seq(Points), IsInjective(points),
           NEW m \in 1 .. Len(points), NEW n \in m .. Len(points)
    PROVE  /\ SubSeq(points, m, n) \in Seq(Points) /\ SubSeq(points, m, n) # << >>
           /\ IsInjective(SubSeq(points, m, n))
           /\ Range(SubSeq(points, m, n)) = {points[i] : i \in m .. n}
<1> DEFINE part == SubSeq(points, m, n)
           L == n - m + 1
<1>1. Len(points) \in Nat /\ DOMAIN points = 1 .. Len(points)
  BY LenProperties
<1>2. m \in Int /\ n \in Int /\ m <= n /\ L \in Nat /\ L # 0
  BY <1>1
<1>3. \A i \in m .. n : i \in 1 .. Len(points) /\ points[i] \in Points
  BY <1>1, ElementOfSeq
<1>4. /\ part \in Seq(Points) /\ Len(part) = L
      /\ \A i \in 1 .. L : part[i] = points[m + i - 1]
  BY <1>2, <1>3, SubSeqProperties
<1> HIDE DEF part
<1>5. DOMAIN part = 1 .. L /\ part # << >>
  BY <1>2, <1>4, EmptySeq, LenProperties
<1>6. \A i \in 1 .. L : m + i - 1 \in m .. n
  BY <1>1
<1>7. \A i, j \in 1 .. L : m + i - 1 = m + j - 1 => i = j
  BY <1>1
<1>8. \A i \in m .. n : i - m + 1 \in 1 .. L /\ m + (i - m + 1) - 1 = i
  BY <1>1
<1>9. IsInjective(part)
  <2>1. ASSUME NEW i \in 1 .. L, NEW j \in 1 .. L, part[i] = part[j] PROVE i = j
    <3>1. m + i - 1 \in DOMAIN points /\ m + j - 1 \in DOMAIN points
      BY <1>1, <1>3, <1>6
    <3>2. points[m + i - 1] = points[m + j - 1]
      BY <1>4, <2>1
    <3>3. m + i - 1 = m + j - 1
      BY <3>1, <3>2 DEF IsInjective
    <3> QED
      BY <1>7, <3>3
  <2> QED
    BY <1>5, <2>1 DEF IsInjective
<1>10. Range(part) = {points[i] : i \in m .. n}
  <2>1. Range(part) = {part[i] : i \in 1 .. L}
    BY <1>5 DEF Range
  <2>2. \A i \in 1 .. L : part[i] \in {points[k] : k \in m .. n}
    BY <1>4, <1>6
  <2>3. ASSUME NEW i \in m .. n PROVE points[i] \in {part[k] : k \in 1 .. L}
    <3>1. part[i - m + 1] = points[m + (i - m + 1) - 1] /\ i - m + 1 \in 1 .. L
      BY <1>4, <1>8
    <3>2. points[m + (i - m + 1) - 1] = points[i]
      BY <1>8
    <3> QED
      BY <3>1, <3>2
  <2> QED
    BY <2>1, <2>2, <2>3
<1> QED
  BY <1>4, <1>5, <1>9, <1>10 DEF part

\* The two halves of a batch that is refused have its points.
LEMMA HalvesAre ==
    ASSUME NabtoDeviceAssumption, NEW points \in Seq(Points), IsInjective(points),
           points # << >>, Len(points) # 1
    PROVE  Batched([i \in 1 .. 2 |-> BatchOf(Halves(points)[i])], Range(points))
<1> DEFINE L == Len(points)
           middle == L \div 2
           left == SubSeq(points, 1, middle)
           right == SubSeq(points, middle + 1, L)
           halves == [i \in 1 .. 2 |-> BatchOf(Halves(points)[i])]
<1>1. L \in Nat /\ DOMAIN points = 1 .. L /\ L # 0 /\ L # 1
  BY EmptySeq, LenProperties
<1>2. middle \in 1 .. L - 1
  <2> HIDE DEF L
  <2> QED
    BY <1>1
<1> HIDE DEF middle
<1>3. /\ 1 \in 1 .. L /\ middle \in 1 .. L /\ middle + 1 \in 1 .. L /\ L \in middle + 1 .. L
      /\ 1 .. L = (1 .. middle) \union (middle + 1 .. L)
      /\ (1 .. middle) \cap (middle + 1 .. L) = {}
  <2> HIDE DEF L
  <2> QED
    BY <1>1, <1>2
<1>4. /\ left \in Seq(Points) /\ left # << >> /\ IsInjective(left)
      /\ Range(left) = {points[i] : i \in 1 .. middle}
  BY <1>3, PartIs
<1>5. /\ right \in Seq(Points) /\ right # << >> /\ IsInjective(right)
      /\ Range(right) = {points[i] : i \in middle + 1 .. L}
  BY <1>3, PartIs
<1>6. Halves(points) = <<left, right>>
  BY DEF Halves, middle
<1>7. halves = [i \in 1 .. 2 |-> BatchOf(<<left, right>>[i])]
  BY <1>6
<1>8. Range(points) = {points[i] : i \in 1 .. L}
  BY <1>1 DEF Range
<1> HIDE DEF left, right, halves
<1>9. DOMAIN halves = 1 .. 2 /\ halves[1] = BatchOf(left) /\ halves[2] = BatchOf(right)
  BY <1>7
<1>10. /\ IsBatch(halves[1]) /\ halves[1].points = left /\ halves[1] \in BatchRecords
       /\ IsBatch(halves[2]) /\ halves[2].points = right /\ halves[2] \in BatchRecords
  BY <1>4, <1>5, <1>9, BatchIs
<1>11. Range(left) \cap Range(right) = {}
  <2>1. \A i, j \in 1 .. L : points[i] = points[j] => i = j
    BY <1>1 DEF IsInjective
  <2>2. \A i \in 1 .. middle : \A j \in middle + 1 .. L : points[i] # points[j]
    BY <1>3, <2>1
  <2> QED
    BY <1>4, <1>5, <2>2
<1>12. Range(points) = Range(left) \union Range(right)
  BY <1>3, <1>4, <1>5, <1>8
<1>13. \A i \in 1 .. 2 : i = 1 \/ i = 2
  OBVIOUS
<1>14. halves \in Seq(BatchRecords)
  <2>1. halves \in [1 .. 2 -> BatchRecords]
    BY <1>7, <1>9, <1>10, <1>13
  <2>2. 2 \in Nat /\ \A i \in 1 .. 2 : halves[i] \in BatchRecords
    BY <2>1
  <2>3. halves = [i \in 1 .. 2 |-> halves[i]]
    BY <2>1
  <2>4. [i \in 1 .. 2 |-> halves[i]] \in Seq(BatchRecords)
    BY <2>2, IsASeq
  <2> QED
    BY <2>3, <2>4
<1>15. UNION {Range(halves[i].points) : i \in 1 .. 2} = Range(left) \union Range(right)
  <2>1. 1 \in 1 .. 2 /\ 2 \in 1 .. 2
    OBVIOUS
  <2> QED
    BY <1>10, <1>13, <2>1
<1>16. \A i, j \in 1 .. 2 : i # j => Range(halves[i].points) \cap Range(halves[j].points) = {}
  BY <1>10, <1>11, <1>13
<1> QED
  BY <1>9, <1>10, <1>12, <1>13, <1>14, <1>15, <1>16 DEF Batched, halves

-----------------------------------------------------------------------------
(***************************************************************************)
(* The times at which zeros are read again.                                *)
(***************************************************************************)

LEMMA Products ==
    ASSUME NEW n \in Nat, NEW G \in Nat
    PROVE  n * G \in Nat /\ (n + 1) * G = n * G + G /\ (G # 0 => n <= n * G)
<1>1. n * G \in Nat
  OBVIOUS
<1>2. (n + 1) * G = n * G + G
  OBVIOUS
<1>3. ASSUME G # 0 PROVE n <= n * G
  <2>1. G - 1 \in Nat
    BY <1>3
  <2>2. n * (G - 1) \in Nat
    BY <2>1
  <2>3. n * G = n * (G - 1) + n
    OBVIOUS
  <2> QED
    BY <1>1, <2>2, <2>3
<1> QED
  BY <1>1, <1>2, <1>3

\* The steps of the recursion in NextRetry.
Due(f, step, elapsed) ==
    IF step > elapsed \/ step >= rule.within
    THEN (IF step < rule.within THEN step ELSE rule.within) - elapsed
    ELSE IF rule.gap = 0 THEN 0
    ELSE f[step + rule.gap]

LEMMA DueExists ==
    ASSUME rule.within \in Nat, rule.gap \in Nat, NEW elapsed \in Nat
    PROVE  \E f : f = [step \in Nat |-> Due(f, step, elapsed)]
<1> DEFINE W == rule.within
           G == rule.gap
           S == {k \in Nat : \E f : f = [step \in Nat |-> f[step]] /\ \A step \in Nat :
                                step + k >= W => f[step] = Due(f, step, elapsed)}
<1>1. CASE G = 0
  <2> DEFINE f == [step \in Nat |-> Due(elapsed, step, elapsed)]
  <2>1. \A h : \A step \in Nat : Due(h, step, elapsed) = Due(elapsed, step, elapsed)
    BY <1>1 DEF Due
  <2>2. f = [step \in Nat |-> Due(f, step, elapsed)]
    BY <2>1
  <2> QED
    BY <2>2
<1>2. CASE G # 0
  <2>1. 0 \in S
    <3> DEFINE f == [step \in Nat |-> W - elapsed]
    <3>1. \A step \in Nat : step >= W => Due(f, step, elapsed) = W - elapsed
      BY DEF Due
    <3>2. \A step \in Nat : step + 0 >= W => f[step] = Due(f, step, elapsed)
      BY <3>1
    <3> QED
      BY <3>2
  <2>2. ASSUME NEW k \in Nat, k \in S PROVE k + 1 \in S
    <3>1. PICK f : /\ f = [step \in Nat |-> f[step]]
                   /\ \A step \in Nat : step + k >= W => f[step] = Due(f, step, elapsed)
      BY <2>2
    <3> DEFINE g == [step \in Nat |->
                        IF step + k >= W THEN f[step] ELSE Due(f, step, elapsed)]
    <3>2. \A step \in Nat : step + k >= W => g[step] = f[step]
      OBVIOUS
    <3>3. \A step \in Nat : ~(step + k >= W) => g[step] = Due(f, step, elapsed)
      OBVIOUS
    <3>4. g = [step \in Nat |-> g[step]]
      OBVIOUS
    <3> HIDE DEF g
    <3>5. \A step \in Nat : step + (k + 1) >= W => Due(g, step, elapsed) = Due(f, step, elapsed)
      <4>1. \A step \in Nat : step + (k + 1) >= W => step + G \in Nat /\ (step + G) + k >= W
        BY <1>2
      <4>2. \A step \in Nat : step + (k + 1) >= W => g[step + G] = f[step + G]
        BY <3>2, <4>1
      <4> QED
        BY <4>2 DEF Due
    <3>6. \A step \in Nat : step + (k + 1) >= W => g[step] = Due(g, step, elapsed)
      BY <3>1, <3>2, <3>3, <3>5
    <3> QED
      BY <3>4, <3>6
  <2> HIDE DEF S
  <2>3. W \in S
    BY <2>1, <2>2, Induct
  <2>4. PICK f : /\ f = [step \in Nat |-> f[step]]
                 /\ \A step \in Nat : step + W >= W => f[step] = Due(f, step, elapsed)
    BY <2>3 DEF S
  <2>5. \A step \in Nat : f[step] = Due(f, step, elapsed)
    BY <2>4
  <2>6. f = [step \in Nat |-> Due(f, step, elapsed)]
    BY <2>4, <2>5
  <2> QED
    BY <2>6
<1> QED
  BY <1>1, <1>2

\* _next_retry(): none before the zeros are taken, or the time to the next reading.
LEMMA NextRetryIs ==
    ASSUME NabtoDeviceAssumption, rule \in Rules, NEW elapsed \in 0 .. rule.within,
           elapsed < rule.within
    PROVE  /\ NextRetry(elapsed) \in 0 .. rule.within
           /\ NextRetry(elapsed) > 0 => IsReadingTime(elapsed + NextRetry(elapsed))
<1> DEFINE W == rule.within
           G == rule.gap
           Time(step) == \E n \in Nat : step = rule.first + n * G
           Good(r) == r \in 0 .. W /\ (r > 0 => IsReadingTime(elapsed + r))
           Solves(f) == f = [step \in Nat |-> Due(f, step, elapsed)]
           due == CHOOSE f : Solves(f)
<1>1. W \in Nat /\ G \in Nat /\ rule.first \in Nat /\ elapsed \in Nat
  BY DEF NabtoDeviceAssumption
<1>2. Solves(due)
  BY <1>1, DueExists
<1>3. NextRetry(elapsed) = due[rule.first]
  BY DEF NextRetry, Due
<1> HIDE DEF due
<1>4. \A step \in Nat : due[step] = Due(due, step, elapsed)
  BY <1>2
<1> HIDE DEF Solves
<1>5. \A step \in Nat : Time(step) => IsReadingTime(IF step < W THEN step ELSE W)
  <2>1. ASSUME NEW step \in Nat, Time(step), step < W PROVE \E n \in 0 .. W : step = rule.first + n * G
    <3>1. PICK n \in Nat : step = rule.first + n * G
      BY <2>1
    <3>2. CASE G = 0
      <4>1. step = rule.first + 0 * G /\ 0 \in 0 .. W
        BY <1>1, <3>1, <3>2
      <4> QED
        BY <4>1
    <3>3. CASE G # 0
      <4>1. n <= n * G /\ n * G \in Nat
        BY <1>1, <3>3, Products
      <4>2. n \in 0 .. W
        BY <1>1, <2>1, <3>1, <4>1
      <4> QED
        BY <3>1, <4>2
    <3> QED
      BY <3>2, <3>3
  <2>2. ASSUME NEW step \in Nat, Time(step), step < W PROVE IsReadingTime(step)
    BY <2>1, <2>2 DEF IsReadingTime
  <2>3. IsReadingTime(W)
    BY DEF IsReadingTime
  <2> HIDE DEF Time
  <2> QED
    BY <2>2, <2>3
<1>6. \A step \in Nat : Time(step) => Time(step + G)
  <2>1. ASSUME NEW step \in Nat, NEW n \in Nat, step = rule.first + n * G
        PROVE  Time(step + G)
    <3>1. (n + 1) * G = n * G + G /\ n * G \in Nat /\ n + 1 \in Nat
      BY <1>1, Products
    <3>2. step + G = rule.first + (n + 1) * G
      BY <1>1, <2>1, <3>1
    <3> QED
      BY <3>1, <3>2
  <2> QED
    BY <2>1
<1>7. Time(rule.first)
  <2>1. rule.first = rule.first + 0 * G
    BY <1>1
  <2> QED
    BY <2>1
<1> HIDE DEF Time
<1> DEFINE S == {k \in Nat : \A step \in Nat : step + k >= W /\ Time(step) => Good(due[step])}
<1>8. ASSUME NEW step \in Nat, Time(step), step > elapsed \/ step >= W PROVE Good(due[step])
  <2> DEFINE time == IF step < W THEN step ELSE W
  <2>1. due[step] = time - elapsed
    BY <1>4, <1>8 DEF Due
  <2>2. IsReadingTime(time)
    BY <1>5, <1>8
  <2>3. time \in Nat /\ time <= W /\ time > elapsed
    BY <1>1, <1>8
  <2> HIDE DEF time
  <2>4. elapsed + due[step] = time /\ due[step] \in 0 .. W
    BY <1>1, <2>1, <2>3
  <2> QED
    BY <2>2, <2>4
<1>9. ASSUME G = 0, NEW step \in Nat, ~(step > elapsed \/ step >= W) PROVE Good(due[step])
  <2>1. due[step] = 0
    BY <1>4, <1>9 DEF Due
  <2> QED
    BY <1>1, <2>1
<1>10. ASSUME G # 0, NEW step \in Nat, ~(step > elapsed \/ step >= W)
       PROVE  due[step] = due[step + G]
  BY <1>4, <1>10 DEF Due
<1> HIDE DEF Good
<1>11. 0 \in S
  BY <1>1, <1>8
<1>12. ASSUME NEW k \in Nat, k \in S PROVE k + 1 \in S
  <2>1. ASSUME NEW step \in Nat, step + (k + 1) >= W, Time(step) PROVE Good(due[step])
    <3>1. CASE G # 0 /\ ~(step > elapsed \/ step >= W)
      <4>1. step + G \in Nat /\ (step + G) + k >= W
        BY <1>1, <2>1, <3>1
      <4>2. Good(due[step + G])
        BY <1>6, <1>12, <2>1, <4>1
      <4> QED
        BY <1>10, <3>1, <4>2
    <3> QED
      BY <1>8, <1>9, <2>1, <3>1
  <2> QED
    BY <2>1
<1> HIDE DEF S
<1>13. W \in S
  BY <1>1, <1>11, <1>12, Induct
<1>14. rule.first + W >= W
  BY <1>1
<1>15. Good(due[rule.first])
  BY <1>1, <1>7, <1>13, <1>14 DEF S
<1> QED
  BY <1>3, <1>15 DEF Good

-----------------------------------------------------------------------------
(***************************************************************************)
(* The invariant.                                                          *)
(***************************************************************************)

\* The points still to be read.
Pending == UNION {Range(todo[i].points) : i \in DOMAIN todo}

\* What was read of a list so far, and what is still to come.
ReadInv ==
    /\ Batched(todo, Pending)
    /\ \A p \in Range(list) \ Pending : result[p].outcome # "none"
    /\ \A p \in Pending : result[p].retry = 0

NabtoInv == TypeOK /\ ReadInv /\ ReadAgainOnTime

Episodes(age) == [of : (SUBSET Registers) \ {{}}, age : 0 .. age]

\* The episodes change by what is asked for only.
EpisodesMove ==
    /\ episodes' \subseteq Episodes(rule.within)
    /\ \A e, f \in episodes' : e # f => e.of \cap f.of = {}
    /\ \A e \in episodes' : \A S \in SUBSET e.of :
          S # {} /\ S \cap Asked = {} => \E f \in episodes : S \subseteq f.of /\ f.age = e.age

LEMMA NotEmptyIs ==
    ASSUME NEW T, NEW seq \in Seq(T), seq # << >>
    PROVE  Range(seq) # {}
<1>1. 1 \in DOMAIN seq
  BY EmptySeq, LenProperties
<1>2. seq[1] \in Range(seq)
  BY <1>1 DEF Range
<1> QED
  BY <1>2

LEMMA SpanIs ==
    ASSUME NabtoDeviceAssumption, NEW p \in Points
    PROVE  Range(Spans[p]) # {}
<1>1. Spans[p] \in Seq(Registers) /\ Spans[p] # << >>
  BY DEF NabtoDeviceAssumption
<1> QED
  BY <1>1, NotEmptyIs

LEMMA AskedIs ==
    ASSUME NabtoDeviceAssumption, NabtoInv, todo # << >>
    PROVE  /\ IsBatch(Batch) /\ Batch \in BatchRecords /\ Range(Batch.points) \subseteq Pending
           /\ Batched(Tail(todo), Pending \ Range(Batch.points))
           /\ Batch.points \in Seq(Points) /\ Range(Batch.points) \subseteq Points
           /\ Asked = RegistersOf(Range(Batch.points)) /\ Asked \subseteq Registers /\ Asked # {}
           /\ Batch.items \in Seq(Registers)
<1>1. /\ IsBatch(Batch) /\ Batch \in BatchRecords /\ Range(Batch.points) \subseteq Pending
      /\ Batched(Tail(todo), Pending \ Range(Batch.points))
  BY RestBatched DEF NabtoInv, ReadInv, Batch
<1>2. Batch.points \in Seq(Points) /\ Batch.items \in Seq(Registers) /\ Batch.points # << >>
  BY <1>1 DEF BatchRecords, IsBatch
<1>3. Range(Batch.points) \subseteq Points /\ Asked \subseteq Registers
  BY <1>2, RangeOfSeq DEF Asked
<1>4. Asked = RegistersOf(Range(Batch.points))
  BY <1>1 DEF IsBatch, Asked
<1>5. Asked # {}
  <2>1. PICK p \in Range(Batch.points) : TRUE
    BY <1>2, NotEmptyIs
  <2>2. Range(Spans[p]) # {}
    BY <1>3, <2>1, SpanIs
  <2> QED
    BY <1>4, <2>2 DEF RegistersOf
<1> QED
  BY <1>1, <1>2, <1>3, <1>4, <1>5

\* What was to be read again at a time still is, of the points that are not asked for.
LEMMA OthersOnTime ==
    ASSUME NabtoDeviceAssumption, NabtoInv, todo # << >>, EpisodesMove, rule' = rule,
           NEW p \in Points \ Range(Batch.points), result'[p] = result[p], ~Shares(p),
           NEW e \in episodes', result[p].retry > 0, Range(Spans[p]) \subseteq e.of
    PROVE  IsReadingTime(e.age + result[p].retry)
<1>1. Range(Batch.points) \subseteq Points /\ Asked = RegistersOf(Range(Batch.points))
  BY AskedIs
<1>2. \A q \in Range(Batch.points) : Range(Spans[q]) \cap Range(Spans[p]) = {}
  BY <1>1 DEF Shares
<1>3. Range(Spans[p]) \cap Asked = {}
  BY <1>1, <1>2 DEF RegistersOf
<1>4. Range(Spans[p]) # {}
  BY SpanIs
<1> DEFINE S == Range(Spans[p])
<1> HIDE DEF S
<1>5. S \in SUBSET e.of /\ S # {} /\ S \cap Asked = {}
  BY <1>3, <1>4 DEF S
<1>6. PICK f \in episodes : S \subseteq f.of /\ f.age = e.age
  BY <1>5 DEF EpisodesMove
<1> QED
  BY <1>6 DEF S, NabtoInv, ReadAgainOnTime

LEMMA TurnsAre ==
    ASSUME NEW what
    PROVE  [Idle EXCEPT !.at = what] = [at |-> what, age |-> 0, found |-> {}]
  BY DEF Idle

LEMMA NextIs ==
    ASSUME NEW batches, NEW within, 0 \in 0 .. within
    PROVE  /\ ReadsNext(batches) \in [at : {"idle", "batch", "again", "first half", "second half"},
                                      age : 0 .. within, found : SUBSET Registers]
           /\ ReadsNext(batches).at = "idle" <=> batches = << >>
<1>1. ReadsNext(batches) =
        [at |-> IF batches = << >> THEN "idle" ELSE "batch", age |-> 0, found |-> {}]
  BY TurnsAre DEF ReadsNext
<1>2. CASE batches = << >>
  BY <1>1, <1>2
<1>3. CASE batches # << >>
  BY <1>1, <1>3
<1> QED
  BY <1>2, <1>3

LEMMA OnTimeIs ==
    ASSUME rule' = rule,
           \A p \in Points : \A e \in episodes' :
              result'[p].retry > 0 /\ Range(Spans[p]) \subseteq e.of /\ ~Shares(p)
                  => IsReadingTime(e.age + result'[p].retry)
    PROVE  ReadAgainOnTime'
  BY DEF ReadAgainOnTime, IsReadingTime, Shares

\* The batch is done.
LEMMA DoneKeeps ==
    ASSUME NabtoDeviceAssumption, NabtoInv, todo # << >>,
           NEW o \in Outcomes \ {"none"}, NEW r \in 0 .. rule.within, Done(o, r),
           EpisodesMove,
           r > 0 => \A e \in episodes' : e.of \cap Asked # {} => IsReadingTime(e.age + r),
           last' \in [Registers -> {0, 1}],
           zerosFor' \in [Registers -> (0 .. rule.within) \union {None}],
           UNCHANGED <<rule, list, unit>>
    PROVE  NabtoInv'
<1> DEFINE ps == Range(Batch.points)
<1>1. /\ IsBatch(Batch) /\ ps \subseteq Points /\ ps \subseteq Pending
      /\ Batched(Tail(todo), Pending \ ps) /\ Asked = RegistersOf(ps)
  BY AskedIs
<1>2. /\ result' = [p \in Points |-> IF p \in ps THEN [outcome |-> o, retry |-> r] ELSE result[p]]
      /\ todo' = Tail(todo)
      /\ turn' = ReadsNext(Tail(todo))
  BY DEF Done
<1> HIDE DEF ps
<1>3. /\ rule.within \in Nat /\ rule' = rule
      /\ result \in [Points -> [outcome : Outcomes, retry : 0 .. rule.within]]
  BY DEF NabtoInv, TypeOK, NabtoDeviceAssumption
<1>4. /\ result' \in [Points -> [outcome : Outcomes, retry : 0 .. rule.within]]
      /\ \A p \in ps : result'[p] = [outcome |-> o, retry |-> r]
      /\ \A p \in Points \ ps : result'[p] = result[p]
  BY <1>1, <1>2, <1>3
<1>5. Pending' = Pending \ ps /\ Batched(todo', Pending')
  BY <1>1, <1>2 DEF Batched, Pending
<1>6. TypeOK'
  <2>1. \A batch \in Range(todo') : batch.points \in Seq(Points) \ {<< >>}
    <3>1. todo' \in Seq(BatchRecords) /\ \A i \in DOMAIN todo' : IsBatch(todo'[i])
      BY <1>5 DEF Batched
    <3>2. \A i \in DOMAIN todo' : todo'[i] \in BatchRecords
      BY <3>1, ElementOfSeq, LenProperties
    <3> QED
      BY <3>1, <3>2 DEF Range, IsBatch, BatchRecords
  <2>2. /\ turn' \in [at : {"idle", "batch", "again", "first half", "second half"},
                      age : 0 .. rule.within, found : SUBSET Registers]
        /\ turn'.at = "idle" <=> todo' = << >>
    <3>1. 0 \in 0 .. rule.within
      BY <1>3
    <3> QED
      BY <1>2, <3>1, NextIs
  <2> QED
    <3>1. /\ rule' \in Rules /\ list' \in Seq(Points)
          /\ unit' \in [lacks : Absences, holds : Holdings \union {None}]
      BY DEF NabtoInv, TypeOK
    <3>2. /\ episodes' \subseteq [of : (SUBSET Registers) \ {{}}, age : 0 .. rule.within]
          /\ \A e, f \in episodes' : e # f => e.of \cap f.of = {}
      BY DEF EpisodesMove, Episodes
    <3> QED
      BY <1>3, <1>4, <2>1, <2>2, <3>1, <3>2 DEF TypeOK
<1>7. ReadInv'
  <2>1. \A p \in Range(list') \ Pending' : result'[p].outcome # "none"
    <3>1. ASSUME NEW p \in Range(list) \ Pending' PROVE result'[p].outcome # "none"
      <4>1. p \in Points
        BY <3>1, RangeOfSeq DEF NabtoInv, TypeOK
      <4>2. CASE p \in ps
        BY <1>4, <4>2
      <4>3. CASE p \notin ps
        BY <1>4, <1>5, <4>1, <4>3 DEF NabtoInv, ReadInv
      <4> QED
        BY <4>2, <4>3
    <3> QED
      BY <3>1
  <2>2. \A p \in Pending' : result'[p].retry = 0
    <3>1. ASSUME NEW p \in Pending' PROVE result'[p].retry = 0
      <4>1. p \in Pending /\ p \notin ps /\ result[p].retry = 0
        BY <1>5 DEF NabtoInv, ReadInv
      <4>2. p \in Points
        <5>1. PICK i \in DOMAIN todo : p \in Range(todo[i].points)
          BY <4>1 DEF Pending
        <5>2. todo[i].points \in Seq(Points)
          BY <5>1 DEF NabtoInv, TypeOK, Range
        <5> QED
          BY <5>1, <5>2, RangeOfSeq
      <4> QED
        BY <1>4, <4>1, <4>2
    <3> QED
      BY <3>1
  <2> QED
    BY <1>5, <2>1, <2>2 DEF ReadInv
<1>8. ASSUME NEW p \in Points, NEW e \in episodes',
             result'[p].retry > 0, Range(Spans[p]) \subseteq e.of, ~Shares(p)
      PROVE  IsReadingTime(e.age + result'[p].retry)
  <2>1. CASE p \in ps
    <3>1. Range(Spans[p]) \subseteq Asked
      BY <1>1, <2>1 DEF RegistersOf
    <3>2. Range(Spans[p]) # {}
      BY SpanIs
    <3>3. e.of \cap Asked # {}
      BY <1>8, <3>1, <3>2
    <3>4. result'[p].retry = r
      BY <1>4, <2>1
    <3> QED
      BY <1>8, <3>3, <3>4
  <2>2. CASE p \notin ps
    <3>1. result'[p] = result[p]
      BY <1>4, <2>2
    <3> QED
      BY <1>3, <1>8, <2>2, <3>1, OthersOnTime DEF ps
  <2> QED
    BY <2>1, <2>2
<1>9. ReadAgainOnTime'
  BY <1>3, <1>8, OnTimeIs
<1> QED
  BY <1>6, <1>7, <1>9 DEF NabtoInv

-----------------------------------------------------------------------------
(***************************************************************************)
(* What a request brings.                                                  *)
(***************************************************************************)

LEMMA AnswersAre ==
    ASSUME NabtoDeviceAssumption, NabtoInv, NEW S \in SUBSET Registers, NEW a \in Answers(S)
    PROVE  /\ a.what = "values" => a.values \in [S -> {0, 1}]
           /\ a.what = "refused" => S \cap unit.lacks # {}
<1>1. unit.holds \in Holdings \union {None} /\ Holdings \subseteq [Registers -> {0, 1}]
  BY DEF NabtoInv, TypeOK, NabtoDeviceAssumption
<1>2. \A h \in Holdings : Of(h, S) \in [S -> {0, 1}]
  BY <1>1 DEF Of
<1>3. CASE S \cap unit.lacks # {}
  <2>1. a = Answer("refused", << >>)
    BY <1>3 DEF Answers
  <2> QED
    BY <1>3, <2>1 DEF Answer
<1>4. CASE Settled /\ S \cap unit.lacks = {}
  <2>1. a = Answer("values", Of(unit.holds, S))
    BY <1>4 DEF Answers
  <2>2. unit.holds \in Holdings
    BY <1>1, <1>4 DEF Settled
  <2> QED
    BY <1>2, <2>1, <2>2 DEF Answer
<1>5. CASE ~Settled /\ S \cap unit.lacks = {}
  <2>1. \/ \E h \in Holdings : a = Answer("values", Of(h, S))
        \/ \E what \in {"no answer", "malformed"} : a = Answer(what, << >>)
    BY <1>5 DEF Answers
  <2>2. ASSUME NEW h \in Holdings, a = Answer("values", Of(h, S))
        PROVE  a.what = "values" /\ a.values \in [S -> {0, 1}]
    BY <1>2, <2>2 DEF Answer
  <2>3. ASSUME NEW what \in {"no answer", "malformed"}, a = Answer(what, << >>)
        PROVE  a.what # "values" /\ a.what # "refused"
    BY <2>3 DEF Answer
  <2> QED
    BY <2>1, <2>2, <2>3
<1> QED
  BY <1>3, <1>4, <1>5

LEMMA BatchAnswersAre ==
    ASSUME NabtoDeviceAssumption, NabtoInv, NEW items \in Seq(Registers), NEW a \in BatchAnswers(items)
    PROVE  /\ a.what = "values" => a.values \in [Range(items) -> {0, 1}]
           /\ a.what = "refused" => Range(items) \cap unit.lacks # {}
<1> DEFINE S == Range(items)
<1>1. S \in SUBSET Registers
  BY RangeOfSeq
<1>2. a \in Answers(S) \/ \E b \in Answers(S) : a = [b EXCEPT !.setAside = TRUE]
  BY DEF BatchAnswers
<1> HIDE DEF S
<1>3. CASE a \in Answers(S)
  BY <1>1, <1>3, AnswersAre DEF S
<1>4. ASSUME NEW b \in Answers(S), a = [b EXCEPT !.setAside = TRUE]
      PROVE  /\ a.what = "values" => a.values \in [S -> {0, 1}]
             /\ a.what = "refused" => S \cap unit.lacks # {}
  <2>1. /\ b.what = "values" => b.values \in [S -> {0, 1}]
        /\ b.what = "refused" => S \cap unit.lacks # {}
    BY <1>1, <1>4, AnswersAre
  <2>2. \E what, values : b = Answer(what, values)
    BY <1>4 DEF Answers
  <2>3. a.what = b.what /\ a.values = b.values
    BY <1>4, <2>2 DEF Answer
  <2> QED
    BY <2>1, <2>3
<1> QED
  BY <1>2, <1>3, <1>4 DEF S

LEMMA HeardIs ==
    ASSUME NabtoDeviceAssumption, NabtoInv, NEW S, NEW a, Hears(S, a)
    PROVE  zerosFor' \in [Registers -> (0 .. rule.within) \union {None}]
<1>1. rule.within \in Nat /\ zerosFor \in [Registers -> (0 .. rule.within) \union {None}]
  BY DEF NabtoInv, TypeOK, NabtoDeviceAssumption
<1> DEFINE F(r) == CASE r \notin S \/ a.what # "values" -> zerosFor[r]
                     [] r \in S /\ a.what = "values" /\ HasValues(a.values) -> None
                     [] OTHER -> IF zerosFor[r] = None /\ Cardinality(S) > 1 THEN 0 ELSE zerosFor[r]
<1>2. ASSUME NEW r \in Registers PROVE F(r) \in (0 .. rule.within) \union {None}
  <2>1. zerosFor[r] \in (0 .. rule.within) \union {None} /\ 0 \in 0 .. rule.within
    BY <1>1
  <2>2. CASE r \notin S \/ a.what # "values"
    BY <2>1, <2>2
  <2>3. CASE r \in S /\ a.what = "values" /\ HasValues(a.values)
    BY <2>3
  <2>4. CASE r \in S /\ a.what = "values" /\ ~HasValues(a.values)
    BY <2>1, <2>4
  <2> QED
    BY <2>2, <2>3, <2>4
<1>3. zerosFor' = [r \in Registers |-> F(r)]
  BY DEF Hears
<1> HIDE DEF F
<1> QED
  BY <1>2, <1>3

LEMMA LastIs ==
    ASSUME NabtoInv, NEW S \in SUBSET Registers, NEW values \in [S -> {0, 1}], Takes(values)
    PROVE  last' \in [Registers -> {0, 1}]
<1>1. last \in [Registers -> {0, 1}]
  BY DEF NabtoInv, TypeOK
<1>2. last' = [r \in Registers |-> IF r \in S THEN values[r] ELSE last[r]]
  BY DEF Takes
<1> QED
  BY <1>1, <1>2

LEMMA LeastIs ==
    ASSUME NEW S \in SUBSET Nat, S # {}
    PROVE  Min(S) \in S
<1> DEFINE R == {p \in Nat \X Nat : p[1] < p[2]}
<1>1. IsWellFoundedOn(R, Nat)
  BY NatLessThanWellFounded DEF OpToRel
<1> HIDE DEF R
<1>2. PICK x \in S : \A y \in S : ~ (<<y, x>> \in R)
  BY <1>1, WFMin
<1>3. ASSUME NEW y \in S PROVE x <= y
  <2>1. ~ (x > y)
    BY <1>2 DEF R
  <2> QED
    BY <2>1
<1> QED
  BY <1>3 DEF Min

LEMMA EpisodeIs ==
    ASSUME NEW items \in Seq(Registers)
    PROVE  EpisodeOf(items) = None \/ EpisodeOf(items) \in episodes
<1> DEFINE with == {i \in DOMAIN items : \E e \in episodes : items[i] \in e.of}
           first == Min(with)
<1>1. CASE with = {}
  BY <1>1 DEF EpisodeOf
<1>2. CASE with # {}
  <2>1. with \in SUBSET Nat
    BY LenProperties
  <2>2. first \in with
    BY <1>2, <2>1, LeastIs
  <2>3. \E e \in episodes : items[first] \in e.of
    BY <2>2
  <2>4. EpisodeOf(items) = CHOOSE e \in episodes : items[first] \in e.of
    BY <1>2 DEF EpisodeOf
  <2> HIDE DEF first
  <2> QED
    BY <2>3, <2>4
<1> QED
  BY <1>1, <1>2

-----------------------------------------------------------------------------
(***************************************************************************)
(* The invariant, step by step.                                            *)
(***************************************************************************)

LEMMA RuleIs ==
    ASSUME NabtoDeviceAssumption, NabtoInv
    PROVE  /\ rule \in Rules
           /\ rule.within \in Nat
           /\ 0 \in 0 .. rule.within
           /\ rule.atOnce \in BOOLEAN /\ rule.halves \in BOOLEAN
<1>1. rule \in [within : Nat, first : Nat, gap : Nat, atOnce : BOOLEAN, halves : BOOLEAN]
  BY DEF NabtoInv, TypeOK, NabtoDeviceAssumption
<1>2. rule.within \in Nat
  BY <1>1
<1>3. 0 \in 0 .. rule.within
  BY <1>2
<1> QED
  BY <1>1, <1>2, <1>3 DEF NabtoInv, TypeOK

LEMMA EpisodesStay ==
    ASSUME NabtoInv, episodes' \subseteq episodes
    PROVE  EpisodesMove
  BY DEF NabtoInv, TypeOK, EpisodesMove, Episodes

LEMMA FoundIs ==
    ASSUME NEW what, NEW found
    PROVE  [Idle EXCEPT !.at = what, !.found = found] = [at |-> what, age |-> 0, found |-> found]
<1> DEFINE now == [Idle EXCEPT !.at = what, !.found = found]
<1>1. DOMAIN Idle = {"at", "age", "found"} /\ Idle.age = 0
  BY DEF Idle
<1>2. now = [x \in {"at", "age", "found"} |->
                IF x = "found" THEN found ELSE IF x = "at" THEN what ELSE 0]
  BY <1>1
<1> HIDE DEF now
<1>3. now = [at |-> what, age |-> 0, found |-> found]
  BY <1>2
<1> QED
  BY <1>3 DEF now

LEMMA JoinedIs ==
    ASSUME NEW w, NEW e \in Episodes(w), NEW S \in SUBSET Registers
    PROVE  /\ [e EXCEPT !.of = @ \union S] \in Episodes(w)
           /\ [e EXCEPT !.of = @ \union S].of = e.of \union S
           /\ [e EXCEPT !.of = @ \union S].age = e.age
<1>1. [e EXCEPT !.of = @ \union S] = [of |-> e.of \union S, age |-> e.age]
  BY DEF Episodes
<1>2. e.of \in (SUBSET Registers) \ {{}} /\ e.age \in 0 .. w
  BY DEF Episodes
<1>3. e.of \union S \in (SUBSET Registers) \ {{}}
  BY <1>2
<1> QED
  BY <1>1, <1>2, <1>3 DEF Episodes

\* The registers asked for join one episode, of an age of theirs, and leave the others.
LEMMA EpisodesJoin ==
    ASSUME NabtoDeviceAssumption, NabtoInv, todo # << >>, NEW episode,
           \/ episode \in episodes
           \/ /\ episode \in Episodes(rule.within)
              /\ episode.of = Asked,
           \/ episodes' = Others(episode, Asked)
           \/ episodes' = Others(episode, Asked) \union {[episode EXCEPT !.of = @ \union Asked]}
    PROVE  /\ EpisodesMove
           /\ \A e \in episodes' : e.of \cap Asked # {} => e.age = episode.age
<1> DEFINE joined == [episode EXCEPT !.of = @ \union Asked]
           others == Others(episode, Asked)
<1>1. Asked \subseteq Registers /\ Asked # {}
  BY AskedIs
<1>2. /\ episodes \subseteq Episodes(rule.within)
      /\ \A e, f \in episodes : e # f => e.of \cap f.of = {}
  BY DEF NabtoInv, TypeOK, Episodes
<1>3. episode \in Episodes(rule.within)
  BY <1>2
<1>4. /\ joined \in Episodes(rule.within)
      /\ joined.of = episode.of \union Asked /\ joined.age = episode.age
  BY <1>1, <1>3, JoinedIs
<1>5. ASSUME NEW e \in others
      PROVE  /\ e \in Episodes(rule.within) /\ e.of \cap Asked = {}
             /\ \E o \in episodes \ {episode} : e.of = o.of \ Asked /\ e.age = o.age
  <2>1. PICK o \in episodes \ {episode} : e = [o EXCEPT !.of = @ \ Asked] /\ e.of # {}
    BY DEF Others
  <2>2. o \in Episodes(rule.within)
    BY <1>2
  <2>3. e.of = o.of \ Asked /\ e.age = o.age /\ e = [of |-> o.of \ Asked, age |-> o.age]
    BY <2>1, <2>2 DEF Episodes
  <2> QED
    BY <2>1, <2>2, <2>3 DEF Episodes
<1> HIDE DEF joined, others
<1>6. episodes' \subseteq others \union {joined}
  BY DEF joined, others
<1>7. \A e, f \in others : e # f => e.of \cap f.of = {}
  <2>1. ASSUME NEW e \in others, NEW f \in others, e # f PROVE e.of \cap f.of = {}
    <3>1. PICK o \in episodes \ {episode} : e.of = o.of \ Asked /\ e.age = o.age
      BY <1>5
    <3>2. PICK u \in episodes \ {episode} : f.of = u.of \ Asked /\ f.age = u.age
      BY <1>5
    <3>3. e \in Episodes(rule.within) /\ f \in Episodes(rule.within)
      BY <1>5
    <3>4. e = [of |-> e.of, age |-> e.age] /\ f = [of |-> f.of, age |-> f.age]
      BY <3>3 DEF Episodes
    <3>5. o # u
      BY <2>1, <3>1, <3>2, <3>4
    <3> QED
      BY <1>2, <3>1, <3>2, <3>5
  <2> QED
    BY <2>1
<1>8. \A e \in others : e.of \cap joined.of = {}
  <2>1. ASSUME NEW e \in others PROVE e.of \cap joined.of = {}
    <3>1. PICK o \in episodes \ {episode} : e.of = o.of \ Asked
      BY <1>5
    <3>2. e.of \cap Asked = {}
      BY <1>5
    <3>3. e.of \cap episode.of = {}
      BY <1>2, <3>1, <3>2
    <3> QED
      BY <1>4, <3>2, <3>3
  <2> QED
    BY <2>1
<1>9. /\ episodes' \subseteq Episodes(rule.within)
      /\ \A e, f \in episodes' : e # f => e.of \cap f.of = {}
  <2>1. episodes' \subseteq Episodes(rule.within)
    BY <1>4, <1>5, <1>6
  <2>2. ASSUME NEW e \in others \union {joined}, NEW f \in others \union {joined}, e # f
        PROVE  e.of \cap f.of = {}
    BY <1>7, <1>8, <2>2
  <2> QED
    BY <1>6, <2>1, <2>2
<1>10. ASSUME NEW e \in episodes', NEW S \in SUBSET e.of, S # {}, S \cap Asked = {}
       PROVE  \E f \in episodes : S \subseteq f.of /\ f.age = e.age
  <2>1. CASE e \in others
    <3>1. PICK o \in episodes \ {episode} : e.of = o.of \ Asked /\ e.age = o.age
      BY <1>5, <2>1
    <3> QED
      BY <3>1
  <2>2. CASE e = joined
    <3>1. S \subseteq episode.of
      BY <1>4, <1>10, <2>2
    <3>2. episode \in episodes
      BY <1>10, <3>1
    <3> QED
      BY <1>4, <2>2, <3>1, <3>2
  <2> QED
    BY <1>6, <2>1, <2>2
<1>11. ASSUME NEW e \in episodes', e.of \cap Asked # {} PROVE e.age = episode.age
  <2>1. e = joined
    BY <1>5, <1>6, <1>11
  <2> QED
    BY <1>4, <2>1
<1> QED
  BY <1>9, <1>10, <1>11 DEF EpisodesMove

LEMMA PendingIs ==
    ASSUME NabtoInv
    PROVE  Pending \subseteq Points
<1>1. ASSUME NEW i \in DOMAIN todo PROVE Range(todo[i].points) \subseteq Points
  <2>1. todo[i].points \in Seq(Points)
    BY DEF NabtoInv, TypeOK, Range
  <2> QED
    BY <2>1, RangeOfSeq
<1> QED
  BY <1>1 DEF Pending

\* What is held back is not still to be read.
LEMMA HeldBackIs ==
    ASSUME NabtoDeviceAssumption, NabtoInv, NEW p \in Points, result[p].retry > 0
    PROVE  p \notin Pending
<1>1. result[p].retry \in 0 .. rule.within /\ rule.within \in Nat
  BY DEF NabtoInv, TypeOK, NabtoDeviceAssumption
<1>2. p \in Pending => result[p].retry = 0
  BY DEF NabtoInv, ReadInv
<1> QED
  BY <1>1, <1>2

\* The batch needs another request.
LEMMA AsksAgainKeeps ==
    ASSUME NabtoDeviceAssumption, NabtoInv, todo # << >>, NEW now, AsksAgain(now),
           now \in [at : {"again", "first half", "second half"},
                    age : 0 .. rule.within, found : SUBSET Registers],
           EpisodesMove,
           zerosFor' \in [Registers -> (0 .. rule.within) \union {None}],
           UNCHANGED <<rule, list, unit>>
    PROVE  NabtoInv'
<1>1. turn' = now /\ UNCHANGED <<last, todo, result>>
  BY DEF AsksAgain
<1>2. TypeOK'
  <2>1. /\ turn' \in [at : {"idle", "batch", "again", "first half", "second half"},
                      age : 0 .. rule.within, found : SUBSET Registers]
        /\ turn'.at # "idle"
    BY <1>1
  <2> QED
    BY <1>1, <2>1 DEF NabtoInv, TypeOK, EpisodesMove, Episodes
<1>3. ReadInv'
  BY <1>1 DEF NabtoInv, ReadInv, Pending
<1>4. ASSUME NEW p \in Points, NEW e \in episodes',
             result[p].retry > 0, Range(Spans[p]) \subseteq e.of, ~Shares(p)
      PROVE  IsReadingTime(e.age + result[p].retry)
  <2>1. Range(Batch.points) \subseteq Pending
    BY AskedIs
  <2>2. p \notin Pending
    BY <1>4, HeldBackIs
  <2>3. p \in Points \ Range(Batch.points)
    BY <2>1, <2>2
  <2> QED
    BY <1>1, <1>4, <2>3, OthersOnTime
<1>5. ReadAgainOnTime'
  BY <1>1, <1>4, OnTimeIs
<1> QED
  BY <1>2, <1>3, <1>5 DEF NabtoInv

LEMMA HalvedKeeps ==
    ASSUME NabtoDeviceAssumption, NabtoInv, todo # << >>, turn.at = "batch",
           Len(Batch.points) # 1, Refused,
           zerosFor' \in [Registers -> (0 .. rule.within) \union {None}],
           UNCHANGED <<rule, last, episodes, list, unit>>
    PROVE  NabtoInv'
<1> DEFINE ps == Range(Batch.points)
           halves == [i \in 1 .. 2 |-> BatchOf(Halves(Batch.points)[i])]
<1>1. /\ IsBatch(Batch) /\ Batched(Tail(todo), Pending \ ps)
      /\ Batch.points \in Seq(Points) /\ ps \subseteq Pending
  BY AskedIs
<1>2. todo' = halves \o Tail(todo) /\ turn' = turn /\ result' = result
  BY DEF Refused
<1>3. Batched(halves, ps)
  BY <1>1, HalvesAre DEF IsBatch
<1> HIDE DEF ps, halves
<1>4. Batched(todo', Pending)
  <2>1. Batched(halves \o Tail(todo), ps \union (Pending \ ps))
    BY <1>1, <1>3, JoinedBatched
  <2>2. ps \union (Pending \ ps) = Pending
    BY <1>1
  <2> QED
    BY <1>2, <2>1, <2>2
<1>5. Pending' = Pending
  BY <1>4 DEF Batched, Pending
<1>6. todo' # << >>
  <2>1. Batch.points # << >> /\ ps # {}
    <3>1. Batch.points # << >>
      BY <1>1 DEF IsBatch
    <3> QED
      BY <1>1, <3>1, NotEmptyIs DEF ps
  <2>2. \E i \in DOMAIN todo' : TRUE
    BY <1>1, <1>4, <2>1 DEF Batched
  <2>3. todo' \in Seq(BatchRecords)
    BY <1>4 DEF Batched
  <2> QED
    BY <2>2, <2>3, EmptySeq
<1>7. TypeOK'
  <2>1. \A batch \in Range(todo') : batch.points \in Seq(Points) \ {<< >>}
    <3>1. todo' \in Seq(BatchRecords) /\ \A i \in DOMAIN todo' : IsBatch(todo'[i])
      BY <1>4 DEF Batched
    <3>2. \A i \in DOMAIN todo' : todo'[i] \in BatchRecords
      BY <3>1, ElementOfSeq, LenProperties
    <3> QED
      BY <3>1, <3>2 DEF Range, IsBatch, BatchRecords
  <2> QED
    BY <1>2, <1>6, <2>1 DEF NabtoInv, TypeOK
<1>8. ReadInv'
  BY <1>2, <1>4, <1>5 DEF NabtoInv, ReadInv
<1>9. ReadAgainOnTime'
  BY <1>2 DEF NabtoInv, ReadAgainOnTime, IsReadingTime, Shares
<1> QED
  BY <1>7, <1>8, <1>9 DEF NabtoInv

\* An outcome without a time to read again.
LEMMA OutcomeKeeps ==
    ASSUME NabtoDeviceAssumption, NabtoInv, todo # << >>,
           NEW o \in Outcomes \ {"none"}, Done(o, 0), EpisodesMove,
           last' \in [Registers -> {0, 1}],
           zerosFor' \in [Registers -> (0 .. rule.within) \union {None}],
           UNCHANGED <<rule, list, unit>>
    PROVE  NabtoInv'
<1>1. ~ (0 > 0)
  OBVIOUS
<1> QED
  BY <1>1, RuleIs, DoneKeeps

\* Values are taken.
LEMMA TakesKeeps ==
    ASSUME NabtoDeviceAssumption, NabtoInv, todo # << >>,
           NEW values \in [Asked -> {0, 1}], Takes(values), EpisodesMove,
           zerosFor' \in [Registers -> (0 .. rule.within) \union {None}],
           UNCHANGED <<rule, list, unit>>
    PROVE  NabtoInv'
<1>1. last' \in [Registers -> {0, 1}]
  BY AskedIs, LastIs
<1>2. Done("ok", 0)
  BY DEF Takes
<1>3. "ok" \in Outcomes \ {"none"}
  BY DEF Outcomes
<1> QED
  BY <1>1, <1>2, <1>3, OutcomeKeeps

LEMMA HeldKeeps ==
    ASSUME NabtoDeviceAssumption, NabtoInv, todo # << >>, NEW episode,
           \/ episode \in episodes
           \/ /\ episode \in Episodes(rule.within)
              /\ episode.of = Asked,
           Held(episode),
           zerosFor' \in [Registers -> (0 .. rule.within) \union {None}],
           UNCHANGED <<rule, list, unit>>
    PROVE  NabtoInv'
<1> DEFINE joined == [episode EXCEPT !.of = @ \union Asked]
           others == Others(episode, Asked)
<1>1. /\ rule \in Rules /\ rule.within \in Nat /\ rule' = rule
      /\ last \in [Registers -> {0, 1}]
      /\ episodes \subseteq Episodes(rule.within)
  BY DEF NabtoInv, TypeOK, NabtoDeviceAssumption, Episodes
<1>2. episode.age \in 0 .. rule.within
  BY <1>1 DEF Episodes
<1>3. CASE episode.age < rule.within
  <2>1. /\ episodes' = others \union {joined}
        /\ last' = last
        /\ Done("busy", NextRetry(episode.age))
    <3>1. ~ (episode.age >= rule.within)
      BY <1>1, <1>2, <1>3
    <3> QED
      BY <1>3, <3>1 DEF Held
  <2>2. EpisodesMove /\ \A e \in episodes' : e.of \cap Asked # {} => e.age = episode.age
    BY <2>1, EpisodesJoin
  <2> DEFINE r == NextRetry(episode.age)
  <2>3. r \in 0 .. rule.within /\ (r > 0 => IsReadingTime(episode.age + r))
    BY <1>1, <1>2, <1>3, NextRetryIs
  <2>4. Done("busy", r)
    BY <2>1
  <2> HIDE DEF r
  <2>5. r > 0 => \A e \in episodes' : e.of \cap Asked # {} => IsReadingTime(e.age + r)
    BY <2>2, <2>3
  <2> QED
    BY <1>1, <2>1, <2>2, <2>3, <2>4, <2>5, DoneKeeps DEF Outcomes
<1>4. CASE episode.age >= rule.within /\ rule.halves
  <2> DEFINE now == [Idle EXCEPT !.at = "first half"]
  <2>0. now = [at |-> "first half", age |-> 0, found |-> {}]
    BY TurnsAre
  <2>1. ~ (episode.age < rule.within)
    BY <1>1, <1>2, <1>4
  <2>2. /\ episodes' = others \union {joined}
        /\ AsksAgain(now)
    BY <1>4, <2>1 DEF Held
  <2>3. EpisodesMove
    BY <2>2, EpisodesJoin
  <2>4. now \in [at : {"again", "first half", "second half"},
                 age : 0 .. rule.within, found : SUBSET Registers]
    BY <2>0, RuleIs
  <2> HIDE DEF now
  <2> QED
    BY <2>2, <2>3, <2>4, AsksAgainKeeps
<1>5. CASE ~ (episode.age < rule.within) /\ ~ rule.halves
  <2>1. episodes' = others /\ Takes(Zeros(Asked))
    BY <1>5 DEF Held
  <2>2. EpisodesMove
    BY <2>1, EpisodesJoin
  <2>3. Zeros(Asked) \in [Asked -> {0, 1}]
    BY DEF Zeros
  <2> QED
    BY <2>1, <2>2, <2>3, TakesKeeps
<1> QED
  BY <1>1, <1>2, <1>3, <1>4, <1>5

LEMMA CheckedKeeps ==
    ASSUME NabtoDeviceAssumption, NabtoInv, todo # << >>,
           NEW values \in [Asked -> {0, 1}], NEW setAside \in BOOLEAN, Checked(values, setAside),
           zerosFor' \in [Registers -> (0 .. rule.within) \union {None}],
           UNCHANGED <<rule, list, unit>>
    PROVE  NabtoInv'
<1> DEFINE episode == EpisodeOf(Batch.items)
           zeros == IF episode = None THEN OnlyZeros(Batch.items, values)
                    ELSE ZerosWhereValuesWere(values)
           opened == [of |-> Asked, age |-> 0]
<1>1. rule.atOnce \in BOOLEAN /\ 0 \in 0 .. rule.within
  BY RuleIs
<1>2. Asked \subseteq Registers /\ Asked # {} /\ Batch.items \in Seq(Registers)
  BY AskedIs
<1>3. episode = None \/ episode \in episodes
  BY <1>2, EpisodeIs
<1>4. zeros \in BOOLEAN
  BY DEF OnlyZeros, ZerosWhereValuesWere
<1>5. CASE setAside \/ ~zeros
  <2>1. episodes' = After(episode, values, setAside) /\ Takes(values)
    BY <1>5 DEF Checked
  <2>2. EpisodesMove
    BY <2>1, EpisodesStay DEF After, Without
  <2> QED
    BY <2>1, <2>2, TakesKeeps
<1>6. CASE ~setAside /\ zeros /\ episode = None /\ rule.atOnce
  <2> DEFINE now == [Idle EXCEPT !.at = "again"]
  <2>0. now = [at |-> "again", age |-> 0, found |-> {}]
    BY TurnsAre
  <2>1. AsksAgain(now) /\ UNCHANGED episodes
    BY <1>6 DEF Checked
  <2>2. EpisodesMove
    BY <2>1, EpisodesStay
  <2>3. now \in [at : {"again", "first half", "second half"},
                 age : 0 .. rule.within, found : SUBSET Registers]
    BY <2>0, RuleIs
  <2> HIDE DEF now
  <2> QED
    BY <2>1, <2>2, <2>3, AsksAgainKeeps
<1>7. CASE ~setAside /\ zeros /\ episode = None /\ ~rule.atOnce
  <2>1. Held(opened)
    BY <1>7 DEF Checked
  <2>2. opened \in Episodes(rule.within) /\ opened.of = Asked
    <3>1. Asked \in (SUBSET Registers) \ {{}}
      BY <1>2
    <3> QED
      BY <1>1, <3>1 DEF Episodes
  <2> HIDE DEF opened
  <2> QED
    BY <2>1, <2>2, HeldKeeps
<1>8. CASE ~setAside /\ zeros /\ episode # None
  <2>1. Held(episode)
    BY <1>8 DEF Checked
  <2>2. episode \in episodes
    BY <1>3, <1>8
  <2> HIDE DEF episode
  <2> QED
    BY <2>1, <2>2, HeldKeeps
<1> QED
  BY <1>1, <1>4, <1>5, <1>6, <1>7, <1>8

LEMMA SetAsideIs ==
    ASSUME NEW items, NEW a \in BatchAnswers(items)
    PROVE  a.setAside \in BOOLEAN
<1>1. \/ a \in Answers(Range(items))
      \/ \E b \in Answers(Range(items)) : a = [b EXCEPT !.setAside = TRUE]
  BY DEF BatchAnswers
<1>2. ASSUME NEW b \in Answers(Range(items)) PROVE \E what, values : b = Answer(what, values)
  BY DEF Answers
<1>3. CASE a \in Answers(Range(items))
  <2>1. PICK what, values : a = Answer(what, values)
    BY <1>2, <1>3
  <2> QED
    BY <2>1 DEF Answer
<1>4. ASSUME NEW b \in Answers(Range(items)), a = [b EXCEPT !.setAside = TRUE]
      PROVE  a.setAside \in BOOLEAN
  <2>1. PICK what, values : b = Answer(what, values)
    BY <1>2
  <2> QED
    BY <1>4, <2>1 DEF Answer
<1> QED
  BY <1>1, <1>3, <1>4

LEMMA ReadBatchKeeps ==
    ASSUME NabtoDeviceAssumption, NabtoInv, ReadBatch
    PROVE  NabtoInv'
<1>1. turn.at = "batch" /\ todo # << >>
  BY DEF ReadBatch, NabtoInv, TypeOK
<1>2. PICK answer \in BatchAnswers(Batch.items) :
        /\ Hears(Asked, answer)
        /\ CASE answer.what = "values" -> Checked(answer.values, answer.setAside)
             [] answer.what = "refused" -> Refused /\ UNCHANGED <<last, episodes>>
             [] OTHER -> Done("failed", 0) /\ UNCHANGED <<last, episodes>>
  BY DEF ReadBatch
<1>3. UNCHANGED <<rule, list, unit>>
  BY DEF ReadBatch
<1>4. /\ zerosFor' \in [Registers -> (0 .. rule.within) \union {None}]
      /\ last \in [Registers -> {0, 1}]
  BY <1>2, HeardIs DEF NabtoInv, TypeOK
<1>5. answer.what = "values" => answer.values \in [Asked -> {0, 1}]
  BY <1>1, <1>2, AskedIs, BatchAnswersAre DEF Asked
<1>6. answer.setAside \in BOOLEAN
  BY <1>2, SetAsideIs
<1>7. CASE answer.what = "values"
  <2>1. Checked(answer.values, answer.setAside)
    BY <1>2, <1>7
  <2> QED
    BY <1>1, <1>3, <1>4, <1>5, <1>6, <1>7, <2>1, CheckedKeeps
<1>8. CASE answer.what = "refused"
  <2>1. Refused /\ UNCHANGED <<last, episodes>>
    BY <1>2, <1>8
  <2>2. CASE Len(Batch.points) = 1
    <3>1. Done("missing", 0)
      BY <2>1, <2>2 DEF Refused
    <3>2. EpisodesMove
      BY <2>1, EpisodesStay
    <3> QED
      BY <1>1, <1>3, <1>4, <2>1, <3>1, <3>2, OutcomeKeeps DEF Outcomes
  <2>3. CASE Len(Batch.points) # 1
    BY <1>1, <1>3, <1>4, <2>1, <2>3, HalvedKeeps
  <2> QED
    BY <2>2, <2>3
<1>9. CASE answer.what # "values" /\ answer.what # "refused"
  <2>1. Done("failed", 0) /\ UNCHANGED <<last, episodes>>
    BY <1>2, <1>9
  <2>2. EpisodesMove
    BY <2>1, EpisodesStay
  <2> QED
    BY <1>1, <1>3, <1>4, <2>1, <2>2, OutcomeKeeps DEF Outcomes
<1> QED
  BY <1>7, <1>8, <1>9

LEMMA ReadAgainKeeps ==
    ASSUME NabtoDeviceAssumption, NabtoInv, ReadAgain
    PROVE  NabtoInv'
<1>1. turn.at = "again" /\ todo # << >> /\ turn.age \in 0 .. rule.within
  BY DEF ReadAgain, NabtoInv, TypeOK
<1>2. PICK answer \in Answers(Asked) :
        /\ Hears(Asked, answer)
        /\ IF answer.what = "values" /\ HasValues(answer.values)
           THEN Takes(answer.values) /\ UNCHANGED episodes
           ELSE Held([of |-> Asked, age |-> turn.age])
  BY DEF ReadAgain
<1>3. UNCHANGED <<rule, list, unit>>
  BY DEF ReadAgain
<1>4. zerosFor' \in [Registers -> (0 .. rule.within) \union {None}]
  BY <1>2, HeardIs
<1>5. Asked \in (SUBSET Registers) \ {{}}
  BY <1>1, AskedIs
<1>6. CASE answer.what = "values" /\ HasValues(answer.values)
  <2>1. Takes(answer.values) /\ UNCHANGED episodes /\ answer.values \in [Asked -> {0, 1}]
    BY <1>2, <1>5, <1>6, AnswersAre
  <2>2. EpisodesMove
    BY <2>1, EpisodesStay
  <2> QED
    BY <1>1, <1>3, <1>4, <2>1, <2>2, TakesKeeps
<1>7. CASE ~ (answer.what = "values" /\ HasValues(answer.values))
  <2> DEFINE opened == [of |-> Asked, age |-> turn.age]
  <2>1. Held(opened)
    BY <1>2, <1>7
  <2>2. opened \in Episodes(rule.within) /\ opened.of = Asked
    BY <1>1, <1>5 DEF Episodes
  <2> HIDE DEF opened
  <2> QED
    BY <1>1, <1>3, <1>4, <2>1, <2>2, HeldKeeps
<1> QED
  BY <1>6, <1>7

\* The zeros are taken when a half brings none.
LEMMA TriedKeeps ==
    ASSUME NabtoDeviceAssumption, NabtoInv, todo # << >>,
           episodes' = Without(EpisodeOf(Batch.items)), Takes(Zeros(Asked)),
           zerosFor' \in [Registers -> (0 .. rule.within) \union {None}],
           UNCHANGED <<rule, list, unit>>
    PROVE  NabtoInv'
<1>1. EpisodesMove
  BY EpisodesStay DEF Without
<1>2. Zeros(Asked) \in [Asked -> {0, 1}]
  BY DEF Zeros
<1> QED
  BY <1>1, <1>2, TakesKeeps

LEMMA HalfIs ==
    ASSUME NEW first \in BOOLEAN, Batch.items \in Seq(Registers), Asked \subseteq Registers
    PROVE  Half(first) \subseteq Asked /\ Half(first) \in SUBSET Registers
<1> DEFINE items == Batch.items
           L == Len(items)
           middle == L \div 2
<1>1. L \in Nat /\ DOMAIN items = 1 .. L
  BY LenProperties
<1> HIDE DEF L
<1>2. middle \in 0 .. L
  BY <1>1
<1> USE DEF L
<1>3. ASSUME NEW m \in Nat, NEW n \in Nat, 1 <= m, n <= L
      PROVE  Range(SubSeq(items, m, n)) \subseteq Range(items)
  <2>1. CASE m <= n
    <3>1. SubSeq(items, m, n) = [i \in 1 .. n - m + 1 |-> items[i + m - 1]]
      BY <1>1, <1>3, <2>1
    <3>2. \A i \in 1 .. n - m + 1 : i + m - 1 \in 1 .. L
      BY <1>1, <1>3, <2>1
    <3> DEFINE part == SubSeq(items, m, n)
               k == n - m + 1
    <3> HIDE DEF part, k
    <3>3. DOMAIN part = 1 .. k /\ \A i \in 1 .. k : part[i] = items[i + m - 1]
      BY <3>1 DEF part, k
    <3>4. \A i \in 1 .. k : i + m - 1 \in DOMAIN items
      BY <1>1, <3>2 DEF k
    <3>5. \A i \in DOMAIN part : part[i] \in Range(items)
      BY <3>3, <3>4 DEF Range
    <3>6. Range(part) \subseteq Range(items)
      BY <3>5 DEF Range
    <3> QED
      BY <3>6 DEF part
  <2>2. CASE n < m
    <3>1. SubSeq(items, m, n) = << >>
      BY <1>1, <1>3, <2>2
    <3> QED
      BY <3>1 DEF Range
  <2> QED
    BY <1>3, <2>1, <2>2
<1> HIDE DEF middle, L
<1>4. Half(first) = Range(IF first THEN SubSeq(items, 1, middle) ELSE SubSeq(items, middle + 1, L))
  BY DEF Half, middle, L
<1>5. Range(items) = Asked
  BY DEF Asked
<1>6. Range(SubSeq(items, 1, middle)) \subseteq Range(items)
  BY <1>1, <1>2, <1>3
<1>7. Range(SubSeq(items, middle + 1, L)) \subseteq Range(items)
  BY <1>1, <1>2, <1>3
<1> QED
  BY <1>4, <1>5, <1>6, <1>7

LEMMA ReadFirstHalfKeeps ==
    ASSUME NabtoDeviceAssumption, NabtoInv, ReadFirstHalf
    PROVE  NabtoInv'
<1>1. turn.at = "first half" /\ todo # << >>
  BY DEF ReadFirstHalf, NabtoInv, TypeOK
<1> DEFINE now(found) == [Idle EXCEPT !.at = "second half", !.found = found]
           found(answer) == {r \in Half(TRUE) : answer.values[r] # 0}
<1>2. PICK answer \in Answers(Half(TRUE)) :
        /\ Hears(Half(TRUE), answer)
        /\ \/ /\ AsksAgain(now(found(answer)))
              /\ UNCHANGED episodes
           \/ /\ episodes' = Without(EpisodeOf(Batch.items))
              /\ Takes(Zeros(Asked))
  BY DEF ReadFirstHalf, HalfBrings
<1>3. UNCHANGED <<rule, list, unit>>
  BY DEF ReadFirstHalf
<1>4. zerosFor' \in [Registers -> (0 .. rule.within) \union {None}]
  BY <1>2, HeardIs
<1>5. CASE AsksAgain(now(found(answer))) /\ UNCHANGED episodes
  <2>1. EpisodesMove
    BY <1>5, EpisodesStay
  <2>2. Half(TRUE) \in SUBSET Registers
    BY <1>1, AskedIs, HalfIs
  <2> DEFINE set == found(answer)
             next == now(set)
  <2>3. set \in SUBSET Registers
    BY <2>2
  <2> HIDE DEF set
  <2>4. next = [at |-> "second half", age |-> 0, found |-> set]
    BY FoundIs
  <2> HIDE DEF next
  <2>5. next \in [at : {"again", "first half", "second half"},
                  age : 0 .. rule.within, found : SUBSET Registers]
    BY <2>3, <2>4, RuleIs
  <2>6. AsksAgain(next)
    BY <1>5 DEF next, set
  <2> QED
    BY <1>1, <1>3, <1>4, <2>1, <2>5, <2>6, AsksAgainKeeps
<1>6. CASE /\ episodes' = Without(EpisodeOf(Batch.items))
           /\ Takes(Zeros(Asked))
  BY <1>1, <1>3, <1>4, <1>6, TriedKeeps
<1> QED
  BY <1>2, <1>5, <1>6

LEMMA ReadSecondHalfKeeps ==
    ASSUME NabtoDeviceAssumption, NabtoInv, ReadSecondHalf
    PROVE  NabtoInv'
<1>1. turn.at = "second half" /\ todo # << >>
  BY DEF ReadSecondHalf, NabtoInv, TypeOK
<1> DEFINE values(answer) == [r \in Asked |-> IF r \in turn.found THEN 1
                                  ELSE IF r \in Half(FALSE) THEN answer.values[r] ELSE 0]
<1>2. PICK answer \in Answers(Half(FALSE)) :
        /\ Hears(Half(FALSE), answer)
        /\ \/ /\ answer.what = "values"
              /\ episodes' = Without(EpisodeOf(Batch.items))
              /\ Takes(values(answer))
           \/ /\ episodes' = Without(EpisodeOf(Batch.items))
              /\ Takes(Zeros(Asked))
  BY DEF ReadSecondHalf, HalfBrings
<1>3. UNCHANGED <<rule, list, unit>>
  BY DEF ReadSecondHalf
<1>4. zerosFor' \in [Registers -> (0 .. rule.within) \union {None}]
  BY <1>2, HeardIs
<1>5. CASE /\ answer.what = "values"
           /\ episodes' = Without(EpisodeOf(Batch.items))
           /\ Takes(values(answer))
  <2>1. EpisodesMove
    BY <1>5, EpisodesStay DEF Without
  <2>2. Half(FALSE) \in SUBSET Registers
    BY <1>1, AskedIs, HalfIs
  <2>3. answer.values \in [Half(FALSE) -> {0, 1}]
    BY <1>2, <1>5, <2>2, AnswersAre
  <2> DEFINE set == values(answer)
  <2>4. set \in [Asked -> {0, 1}]
    BY <2>3
  <2> HIDE DEF set
  <2>5. Takes(set)
    BY <1>5 DEF set
  <2> QED
    BY <1>1, <1>3, <1>4, <2>1, <2>4, <2>5, TakesKeeps
<1>6. CASE /\ episodes' = Without(EpisodeOf(Batch.items))
           /\ Takes(Zeros(Asked))
  BY <1>1, <1>3, <1>4, <1>6, TriedKeeps
<1> QED
  BY <1>2, <1>5, <1>6

LEMMA ReadKeeps ==
    ASSUME NabtoDeviceAssumption, NabtoInv, NEW points \in Lists, Read(points)
    PROVE  NabtoInv'
<1> DEFINE batches == ReadRequests[points]
           ps == Range(points)
<1>1. /\ turn.at = "idle"
      /\ list' = points /\ todo' = batches /\ turn' = ReadsNext(batches)
      /\ result' = [p \in Points |-> IF p \in ps THEN Unread ELSE [result[p] EXCEPT !.outcome = "none"]]
      /\ UNCHANGED <<rule, last, episodes, unit, zerosFor>>
  BY DEF Read
<1>2. points \in Seq(Points) /\ ps \subseteq Points
  BY RangeOfSeq DEF NabtoDeviceAssumption
<1>3. Batched(batches, ps)
  BY RequestsAre
<1>4. 0 \in 0 .. rule.within
  BY RuleIs
<1> HIDE DEF batches, ps
<1>5. Pending' = ps
  BY <1>1, <1>3 DEF Batched, Pending
<1>6. result \in [Points -> [outcome : Outcomes, retry : 0 .. rule.within]]
  BY DEF NabtoInv, TypeOK
<1>7. /\ result' \in [Points -> [outcome : Outcomes, retry : 0 .. rule.within]]
      /\ \A p \in ps : result'[p].retry = 0
      /\ \A p \in Points \ ps : result'[p].retry = result[p].retry
  <2>1. \A p \in ps : result'[p] = [outcome |-> "none", retry |-> 0]
    BY <1>1, <1>2 DEF Unread
  <2>2. \A p \in Points \ ps : result'[p] = [outcome |-> "none", retry |-> result[p].retry]
    BY <1>1, <1>6
  <2>3. "none" \in Outcomes
    BY DEF Outcomes
  <2>4. \A p \in Points : result'[p] \in [outcome : Outcomes, retry : 0 .. rule.within]
    <3>1. ASSUME NEW p \in ps PROVE result'[p] \in [outcome : Outcomes, retry : 0 .. rule.within]
      BY <1>4, <2>1, <2>3, <3>1
    <3>2. ASSUME NEW p \in Points \ ps
          PROVE  result'[p] \in [outcome : Outcomes, retry : 0 .. rule.within]
      <4> DEFINE r == result[p].retry
      <4>1. r \in 0 .. rule.within
        BY <1>6
      <4>2. result'[p] = [outcome |-> "none", retry |-> r]
        BY <2>2
      <4> HIDE DEF r
      <4> QED
        BY <2>3, <4>1, <4>2
    <3> QED
      BY <3>1, <3>2
  <2>5. result' = [p \in Points |-> result'[p]]
    BY <1>1
  <2> QED
    BY <2>1, <2>2, <2>4, <2>5
<1>8. TypeOK'
  <2>1. \A batch \in Range(todo') : batch.points \in Seq(Points) \ {<< >>}
    <3>1. todo' \in Seq(BatchRecords) /\ \A i \in DOMAIN todo' : IsBatch(todo'[i])
      BY <1>1, <1>3 DEF Batched
    <3>2. \A i \in DOMAIN todo' : todo'[i] \in BatchRecords
      BY <3>1, ElementOfSeq, LenProperties
    <3> QED
      BY <3>1, <3>2 DEF Range, IsBatch, BatchRecords
  <2>2. /\ turn' \in [at : {"idle", "batch", "again", "first half", "second half"},
                      age : 0 .. rule.within, found : SUBSET Registers]
        /\ turn'.at = "idle" <=> todo' = << >>
    BY <1>1, <1>4, NextIs
  <2> QED
    BY <1>1, <1>2, <1>7, <2>1, <2>2 DEF NabtoInv, TypeOK
<1>9. ReadInv'
  <2>1. Batched(todo', Pending')
    BY <1>1, <1>3, <1>5
  <2>2. \A p \in Range(list') \ Pending' : result'[p].outcome # "none"
    BY <1>1, <1>5 DEF ps
  <2>3. \A p \in Pending' : result'[p].retry = 0
    BY <1>5, <1>7
  <2> QED
    BY <2>1, <2>2, <2>3 DEF ReadInv
<1>10. ASSUME NEW p \in Points, NEW e \in episodes,
              result'[p].retry > 0, Range(Spans[p]) \subseteq e.of, ~Shares(p)
       PROVE  IsReadingTime(e.age + result'[p].retry)
  <2>1. ~ (0 > 0)
    OBVIOUS
  <2>2. p \notin ps
    BY <1>7, <1>10, <2>1
  <2>3. result'[p].retry = result[p].retry
    BY <1>7, <2>2
  <2> QED
    BY <1>10, <2>3 DEF NabtoInv, ReadAgainOnTime
<1>11. ReadAgainOnTime'
  BY <1>1, <1>10, OnTimeIs
<1> QED
  BY <1>8, <1>9, <1>11 DEF NabtoInv

LEMMA CancelKeeps ==
    ASSUME NabtoDeviceAssumption, NabtoInv, Cancel
    PROVE  NabtoInv'
<1>1. /\ todo' = << >> /\ turn' = Idle /\ list' = << >>
      /\ UNCHANGED <<rule, last, episodes, result, unit, zerosFor>>
  BY DEF Cancel
<1>2. Batched(<< >>, {})
  BY NoBatches
<1>3. Pending' = {}
  BY <1>1, <1>2 DEF Batched, Pending
<1>4. TypeOK'
  <2>1. Idle \in [at : {"idle", "batch", "again", "first half", "second half"},
                  age : 0 .. rule.within, found : SUBSET Registers]
    BY RuleIs DEF Idle
  <2>2. turn'.at = "idle"
    BY <1>1 DEF Idle
  <2>3. list' \in Seq(Points) /\ Range(todo') = {}
    BY <1>1 DEF Range
  <2> QED
    BY <1>1, <2>1, <2>2, <2>3 DEF NabtoInv, TypeOK
<1>5. ReadInv'
  BY <1>1, <1>2, <1>3 DEF ReadInv, Range
<1>6. ReadAgainOnTime'
  BY <1>1 DEF NabtoInv, ReadAgainOnTime, IsReadingTime, Shares
<1> QED
  BY <1>4, <1>5, <1>6 DEF NabtoInv

\* What is held back comes a step nearer its time.
LEMMA TickKeeps ==
    ASSUME NabtoDeviceAssumption, NabtoInv, Tick
    PROVE  NabtoInv'
<1> DEFINE W == rule.within
<1>1. /\ episodes' = {[e EXCEPT !.age = Older(@)] : e \in episodes}
      /\ turn' = [turn EXCEPT !.age = IF turn.at = "again" THEN Older(@) ELSE @]
      /\ result' = [p \in Points |-> [result[p] EXCEPT !.retry = IF @ > 0 THEN @ - 1 ELSE @]]
      /\ zerosFor' = [r \in Registers |-> IF zerosFor[r] = None THEN None ELSE Older(zerosFor[r])]
      /\ UNCHANGED <<rule, last, todo, list, unit>>
  BY DEF Tick
<1>2. W \in Nat
  BY RuleIs
<1>3. ASSUME NEW age \in 0 .. W
      PROVE  Older(age) \in 0 .. W /\ (age < W => Older(age) = age + 1)
  BY <1>2, <1>3 DEF Older
<1>4. /\ episodes \subseteq Episodes(W)
      /\ \A e, f \in episodes : e # f => e.of \cap f.of = {}
      /\ result \in [Points -> [outcome : Outcomes, retry : 0 .. W]]
      /\ turn \in [at : {"idle", "batch", "again", "first half", "second half"},
                   age : 0 .. W, found : SUBSET Registers]
      /\ zerosFor \in [Registers -> (0 .. W) \union {None}]
  BY DEF NabtoInv, TypeOK, Episodes
<1> HIDE DEF W
<1>5. ASSUME NEW e \in episodes'
      PROVE  \E f \in episodes : /\ e = [of |-> f.of, age |-> Older(f.age)]
                                 /\ f.of \in (SUBSET Registers) \ {{}} /\ f.age \in 0 .. W
  <2>1. PICK f \in episodes : e = [f EXCEPT !.age = Older(@)]
    BY <1>1
  <2>2. f \in Episodes(W)
    BY <1>4
  <2>3. e = [of |-> f.of, age |-> Older(f.age)]
    BY <2>1, <2>2 DEF Episodes
  <2> QED
    BY <2>2, <2>3 DEF Episodes
<1>6. /\ episodes' \subseteq Episodes(W)
      /\ \A e, f \in episodes' : e # f => e.of \cap f.of = {}
  <2>1. episodes' \subseteq Episodes(W)
    BY <1>3, <1>5 DEF Episodes
  <2>2. ASSUME NEW e \in episodes', NEW f \in episodes', e # f PROVE e.of \cap f.of = {}
    <3>1. PICK c \in episodes : e = [of |-> c.of, age |-> Older(c.age)]
      BY <1>5
    <3>2. PICK d \in episodes : f = [of |-> d.of, age |-> Older(d.age)]
      BY <1>5
    <3>3. c # d
      BY <2>2, <3>1, <3>2
    <3> QED
      BY <1>4, <3>1, <3>2, <3>3
  <2> QED
    BY <2>1, <2>2
<1>7. /\ result' \in [Points -> [outcome : Outcomes, retry : 0 .. W]]
      /\ \A p \in Points : /\ result'[p].outcome = result[p].outcome
                           /\ result[p].retry > 0 => result'[p].retry = result[p].retry - 1
                           /\ ~ (result[p].retry > 0) => result'[p].retry = 0
  <2>1. ASSUME NEW p \in Points
        PROVE  /\ result'[p] \in [outcome : Outcomes, retry : 0 .. W]
               /\ result'[p].outcome = result[p].outcome
               /\ result[p].retry > 0 => result'[p].retry = result[p].retry - 1
               /\ ~ (result[p].retry > 0) => result'[p].retry = 0
    <3> DEFINE o == result[p].outcome
               r == result[p].retry
               n == IF r > 0 THEN r - 1 ELSE r
    <3>1. o \in Outcomes /\ r \in 0 .. W
      BY <1>4
    <3>2. result'[p] = [outcome |-> o, retry |-> n]
      BY <1>1, <1>4
    <3> HIDE DEF o, r
    <3>3. n \in 0 .. W /\ (r > 0 => n = r - 1) /\ (~ (r > 0) => n = 0)
      BY <1>2, <3>1
    <3> HIDE DEF n
    <3>4. /\ result'[p] \in [outcome : Outcomes, retry : 0 .. W]
          /\ result'[p].outcome = o /\ result'[p].retry = n
      BY <3>1, <3>2, <3>3
    <3> QED
      BY <3>3, <3>4 DEF o, r
  <2>2. result' = [p \in Points |-> result'[p]]
    BY <1>1
  <2> QED
    BY <2>1, <2>2
<1>8. turn' \in [at : {"idle", "batch", "again", "first half", "second half"},
                 age : 0 .. W, found : SUBSET Registers]
      /\ turn'.at = turn.at
  <2> DEFINE a == IF turn.at = "again" THEN Older(turn.age) ELSE turn.age
  <2>1. turn.age \in 0 .. W
    BY <1>4
  <2>2. a \in 0 .. W
    BY <1>3, <2>1
  <2>3. turn' = [at |-> turn.at, age |-> a, found |-> turn.found]
    BY <1>1, <1>4
  <2> HIDE DEF a
  <2> QED
    BY <1>4, <2>2, <2>3
<1>9. zerosFor' \in [Registers -> (0 .. W) \union {None}]
  BY <1>1, <1>3, <1>4
<1>10. TypeOK'
  BY <1>1, <1>6, <1>7, <1>8, <1>9 DEF W, NabtoInv, TypeOK, Episodes
<1>11. ReadInv'
  <2>1. Pending' = Pending /\ Pending \subseteq Points
    BY <1>1, PendingIs DEF Pending
  <2>2. \A p \in Pending' : result'[p].retry = 0
    <3>1. ASSUME NEW p \in Pending PROVE result'[p].retry = 0
      <4>1. p \in Points /\ result[p].retry = 0 /\ ~ (0 > 0)
        BY <2>1 DEF NabtoInv, ReadInv
      <4> QED
        BY <1>7, <4>1
    <3> QED
      BY <2>1, <3>1
  <2>3. \A p \in Range(list') \ Pending' : result'[p].outcome # "none"
    <3>1. Range(list) \subseteq Points
      BY RangeOfSeq DEF NabtoInv, TypeOK
    <3> QED
      BY <1>1, <1>7, <2>1, <3>1 DEF NabtoInv, ReadInv
  <2>4. Batched(todo', Pending')
    BY <1>1, <2>1 DEF NabtoInv, ReadInv
  <2> QED
    BY <2>2, <2>3, <2>4 DEF ReadInv
<1>12. ASSUME NEW p \in Points, NEW e \in episodes',
              result'[p].retry > 0, Range(Spans[p]) \subseteq e.of, ~Shares(p)
       PROVE  IsReadingTime(e.age + result'[p].retry)
  <2>1. PICK f \in episodes : /\ e = [of |-> f.of, age |-> Older(f.age)]
                              /\ f.age \in 0 .. W
    BY <1>5
  <2>2. ~ (0 > 0)
    OBVIOUS
  <2>3. result[p].retry > 0 /\ result'[p].retry = result[p].retry - 1
    BY <1>7, <1>12, <2>2
  <2> DEFINE r == result[p].retry
             a == f.age
  <2>4. r \in 0 .. W /\ a \in 0 .. W /\ r > 0
    BY <1>4, <2>1, <2>3
  <2>5. IsReadingTime(a + r)
    BY <1>12, <2>1, <2>3 DEF NabtoInv, ReadAgainOnTime
  <2> HIDE DEF r, a
  <2>6. a + r <= W
    BY <1>2, <2>4, <2>5 DEF IsReadingTime, W
  <2>7. Older(a) = a + 1
    BY <1>2, <1>3, <2>4, <2>6
  <2>8. Older(a) + (r - 1) = a + r
    BY <1>2, <2>4, <2>7
  <2>9. e.age = Older(a) /\ result'[p].retry = r - 1
    BY <2>1, <2>3 DEF r, a
  <2> QED
    BY <2>5, <2>8, <2>9
<1>13. ReadAgainOnTime'
  BY <1>1, <1>12, OnTimeIs
<1> QED
  BY <1>10, <1>11, <1>13 DEF NabtoInv

LEMMA SettleKeeps ==
    ASSUME NabtoDeviceAssumption, NabtoInv, Settle
    PROVE  NabtoInv'
<1>1. /\ \E holds \in Holdings : unit' = [unit EXCEPT !.holds = holds]
      /\ UNCHANGED <<rule, last, episodes, todo, turn, list, result, zerosFor>>
  BY DEF Settle
<1>2. unit' \in [lacks : Absences, holds : Holdings \union {None}]
  BY <1>1 DEF NabtoInv, TypeOK
<1>3. TypeOK'
  BY <1>1, <1>2 DEF NabtoInv, TypeOK
<1>4. ReadInv'
  BY <1>1 DEF NabtoInv, ReadInv, Pending
<1>5. ReadAgainOnTime'
  BY <1>1 DEF NabtoInv, ReadAgainOnTime, IsReadingTime, Shares
<1> QED
  BY <1>3, <1>4, <1>5 DEF NabtoInv

LEMMA InitHolds ==
    ASSUME NabtoDeviceAssumption, Init
    PROVE  NabtoInv
<1>1. Batched(<< >>, {})
  BY NoBatches
<1>2. todo = << >> /\ list = << >> /\ episodes = {} /\ turn = Idle /\ rule \in Rules
  BY DEF Init
<1>3. Pending = {}
  BY <1>1, <1>2 DEF Batched, Pending
<1>4. rule.within \in Nat /\ 0 \in 0 .. rule.within
  BY <1>2 DEF NabtoDeviceAssumption
<1>5. TypeOK
  <2>1. last \in [Registers -> {0, 1}]
    BY DEF Init, Zeros
  <2>2. /\ turn \in [at : {"idle", "batch", "again", "first half", "second half"},
                     age : 0 .. rule.within, found : SUBSET Registers]
        /\ turn.at = "idle"
    BY <1>2, <1>4 DEF Idle
  <2>3. result \in [Points -> [outcome : Outcomes, retry : 0 .. rule.within]]
    BY <1>4 DEF Init, Unread, Outcomes
  <2>4. unit \in [lacks : Absences, holds : Holdings \union {None}]
    BY DEF Init
  <2>5. zerosFor \in [Registers -> (0 .. rule.within) \union {None}]
    BY DEF Init
  <2>6. list \in Seq(Points) /\ Range(todo) = {}
    BY <1>2 DEF Range
  <2> QED
    BY <1>2, <2>1, <2>2, <2>3, <2>4, <2>5, <2>6 DEF TypeOK
<1>6. ReadInv
  BY <1>1, <1>2, <1>3 DEF ReadInv, Range
<1>7. ReadAgainOnTime
  BY <1>2 DEF ReadAgainOnTime
<1> QED
  BY <1>5, <1>6, <1>7 DEF NabtoInv

LEMMA NextKeeps ==
    ASSUME NabtoDeviceAssumption, NabtoInv, [Next]_vars
    PROVE  NabtoInv'
<1>1. CASE Next
  <2>1. CASE Step
    BY <2>1, ReadBatchKeeps, ReadAgainKeeps, ReadFirstHalfKeeps, ReadSecondHalfKeeps DEF Step
  <2>2. CASE Tick
    BY <2>2, TickKeeps
  <2>3. CASE Cancel
    BY <2>3, CancelKeeps
  <2>4. CASE Settle
    BY <2>4, SettleKeeps
  <2>5. CASE \E points \in Lists : Read(points)
    BY <2>5, ReadKeeps
  <2> QED
    BY <1>1, <2>1, <2>2, <2>3, <2>4, <2>5 DEF Next
<1>2. CASE UNCHANGED vars
  <2>1. TypeOK'
    BY <1>2 DEF NabtoInv, TypeOK, vars
  <2>2. ReadInv'
    BY <1>2 DEF NabtoInv, ReadInv, Pending, vars
  <2>3. ReadAgainOnTime'
    BY <1>2 DEF NabtoInv, ReadAgainOnTime, IsReadingTime, Shares, vars
  <2> QED
    BY <2>1, <2>2, <2>3 DEF NabtoInv
<1> QED
  BY <1>1, <1>2

THEOREM InvHolds == Spec => []NabtoInv
<1>1. NabtoDeviceAssumption
  BY NabtoDeviceAssumption
<1>2. Init => NabtoInv
  BY <1>1, InitHolds
<1>3. NabtoInv /\ [Next]_vars => NabtoInv'
  BY <1>1, NextKeeps
<1> QED
  BY <1>2, <1>3, PTL DEF Spec

-----------------------------------------------------------------------------
(***************************************************************************)
(* Which steps take a point for missing.                                   *)
(***************************************************************************)

NoneMissing ==
    \A p \in Points : result'[p].outcome = "missing" => result[p].outcome = "missing"

LEMMA NotByDone ==
    ASSUME NEW o, NEW r, o # "missing", Done(o, r)
    PROVE  NoneMissing
  BY DEF Done, NoneMissing

LEMMA NotByAsking ==
    ASSUME NEW now, AsksAgain(now)
    PROVE  NoneMissing
  BY DEF AsksAgain, NoneMissing

LEMMA NotByTaking ==
    ASSUME NEW values, Takes(values)
    PROVE  NoneMissing
<1>1. Done("ok", 0)
  BY DEF Takes
<1> QED
  BY <1>1, NotByDone

LEMMA NotByHolding ==
    ASSUME NabtoDeviceAssumption, NabtoInv, NEW episode, episode.age \in 0 .. rule.within,
           Held(episode)
    PROVE  NoneMissing
<1>1. /\ episode.age < rule.within => ~ (episode.age >= rule.within)
      /\ rule.halves \in BOOLEAN
  BY RuleIs
<1>2. CASE episode.age < rule.within
  <2>1. Done("busy", NextRetry(episode.age))
    BY <1>1, <1>2 DEF Held
  <2> QED
    BY <2>1, NotByDone
<1>3. CASE ~ (episode.age < rule.within) /\ episode.age >= rule.within /\ rule.halves
  <2>1. AsksAgain([Idle EXCEPT !.at = "first half"])
    BY <1>3 DEF Held
  <2> QED
    BY <2>1, NotByAsking
<1>4. CASE ~ (episode.age < rule.within) /\ ~ (episode.age >= rule.within /\ rule.halves)
  <2>1. Takes(Zeros(Asked))
    BY <1>4 DEF Held
  <2> QED
    BY <2>1, NotByTaking
<1> QED
  BY <1>2, <1>3, <1>4

LEMMA NotByChecking ==
    ASSUME NabtoDeviceAssumption, NabtoInv, todo # << >>, NEW values, NEW setAside \in BOOLEAN,
           Checked(values, setAside)
    PROVE  NoneMissing
<1> DEFINE episode == EpisodeOf(Batch.items)
           zeros == IF episode = None THEN OnlyZeros(Batch.items, values)
                    ELSE ZerosWhereValuesWere(values)
           opened == [of |-> Asked, age |-> 0]
<1>1. rule.atOnce \in BOOLEAN /\ 0 \in 0 .. rule.within
  BY RuleIs
<1>2. zeros \in BOOLEAN
  BY DEF OnlyZeros, ZerosWhereValuesWere
<1>3. episode = None \/ episode.age \in 0 .. rule.within
  BY AskedIs, EpisodeIs DEF NabtoInv, TypeOK
<1>4. CASE setAside \/ ~zeros
  <2>1. Takes(values)
    BY <1>4 DEF Checked
  <2> QED
    BY <2>1, NotByTaking
<1>5. CASE ~setAside /\ zeros /\ episode = None /\ rule.atOnce
  <2>1. AsksAgain([Idle EXCEPT !.at = "again"])
    BY <1>5 DEF Checked
  <2> QED
    BY <2>1, NotByAsking
<1>6. CASE ~setAside /\ zeros /\ episode = None /\ ~rule.atOnce
  <2>1. Held(opened) /\ opened.age \in 0 .. rule.within
    BY <1>1, <1>6 DEF Checked
  <2> HIDE DEF opened
  <2> QED
    BY <2>1, NotByHolding
<1>7. CASE ~setAside /\ zeros /\ episode # None
  <2>1. Held(episode) /\ episode.age \in 0 .. rule.within
    BY <1>3, <1>7 DEF Checked
  <2> HIDE DEF episode
  <2> QED
    BY <2>1, NotByHolding
<1> QED
  BY <1>1, <1>2, <1>4, <1>5, <1>6, <1>7

\* A batch that is refused and has one point: the unit lacks one of the point's registers.
LEMMA MissingWhereLacking ==
    ASSUME NabtoDeviceAssumption, NabtoInv, ReadBatch, NEW p \in Points,
           result'[p].outcome = "missing", result[p].outcome # "missing"
    PROVE  Range(Spans[p]) \cap unit.lacks # {}
<1>1. turn.at = "batch" /\ todo # << >>
  BY DEF ReadBatch, NabtoInv, TypeOK
<1>2. PICK answer \in BatchAnswers(Batch.items) :
        CASE answer.what = "values" -> Checked(answer.values, answer.setAside)
          [] answer.what = "refused" -> Refused /\ UNCHANGED <<last, episodes>>
          [] OTHER -> Done("failed", 0) /\ UNCHANGED <<last, episodes>>
  BY DEF ReadBatch
<1>3. ~ NoneMissing
  BY DEF NoneMissing
<1>4. answer.what # "values"
  <2>1. ASSUME answer.what = "values" PROVE FALSE
    <3>1. Checked(answer.values, answer.setAside) /\ answer.setAside \in BOOLEAN
      BY <1>2, <2>1, SetAsideIs
    <3> QED
      BY <1>1, <1>3, <3>1, NotByChecking
  <2> QED
    BY <2>1
<1>5. answer.what = "refused"
  <2>1. ASSUME answer.what # "refused" PROVE FALSE
    <3>1. Done("failed", 0)
      BY <1>2, <1>4, <2>1
    <3> QED
      BY <1>3, <3>1, NotByDone
  <2> QED
    BY <2>1
<1>6. Refused
  BY <1>2, <1>5
<1>7. Len(Batch.points) = 1
  <2>1. ASSUME Len(Batch.points) # 1 PROVE FALSE
    <3>1. result' = result
      BY <1>6, <2>1 DEF Refused
    <3> QED
      BY <3>1
  <2> QED
    BY <2>1
<1>8. Done("missing", 0)
  BY <1>6, <1>7 DEF Refused
<1>9. /\ IsBatch(Batch) /\ Batch.points \in Seq(Points) /\ Range(Batch.points) \subseteq Points
      /\ Asked = RegistersOf(Range(Batch.points)) /\ Batch.items \in Seq(Registers)
  BY <1>1, AskedIs
<1>10. p \in Range(Batch.points)
  BY <1>8 DEF Done
<1>11. Range(Batch.points) = {p}
  <2>1. DOMAIN Batch.points = 1 .. 1
    BY <1>7, <1>9, LenProperties
  <2> QED
    BY <1>10, <2>1 DEF Range
<1>12. Asked = Range(Spans[p])
  BY <1>9, <1>11 DEF RegistersOf
<1>13. Asked \cap unit.lacks # {}
  BY <1>2, <1>5, <1>9, BatchAnswersAre DEF Asked
<1> QED
  BY <1>12, <1>13

LEMMA MissingSteps ==
    ASSUME NabtoDeviceAssumption, NabtoInv, [Next]_vars, NEW p \in Points,
           result'[p].outcome = "missing", result[p].outcome # "missing"
    PROVE  Range(Spans[p]) \cap unit.lacks # {}
<1>1. ~ NoneMissing
  BY DEF NoneMissing
<1>2. result \in [Points -> [outcome : Outcomes, retry : 0 .. rule.within]]
  BY DEF NabtoInv, TypeOK
<1>3. CASE ReadBatch
  BY <1>3, MissingWhereLacking
<1>4. CASE ReadAgain
  <2>1. \/ \E answer \in Answers(Asked) : Takes(answer.values)
        \/ Held([of |-> Asked, age |-> turn.age])
    BY <1>4 DEF ReadAgain
  <2>2. ~ \E answer \in Answers(Asked) : Takes(answer.values)
    BY <1>1, NotByTaking
  <2> DEFINE opened == [of |-> Asked, age |-> turn.age]
  <2>3. Held(opened) /\ opened.age \in 0 .. rule.within
    BY <2>1, <2>2 DEF NabtoInv, TypeOK
  <2> HIDE DEF opened
  <2> QED
    BY <1>1, <2>3, NotByHolding
<1>5. CASE ReadFirstHalf
  <2>1. (\E now : AsksAgain(now)) \/ Takes(Zeros(Asked))
    BY <1>5 DEF ReadFirstHalf, HalfBrings
  <2> QED
    BY <1>1, <2>1, NotByAsking, NotByTaking
<1>6. CASE ReadSecondHalf
  <2>1. \E values : Takes(values)
    BY <1>6 DEF ReadSecondHalf, HalfBrings
  <2> QED
    BY <1>1, <2>1, NotByTaking
<1>7. CASE Tick
  BY <1>2, <1>7 DEF Tick
<1>8. CASE Cancel \/ Settle \/ UNCHANGED vars
  BY <1>8 DEF Cancel, Settle, vars
<1>9. CASE \E points \in Lists : Read(points)
  BY <1>2, <1>9 DEF Read, Unread
<1> QED
  BY <1>3, <1>4, <1>5, <1>6, <1>7, <1>8, <1>9 DEF Next, Step

-----------------------------------------------------------------------------
(***************************************************************************)
(* The theorems.                                                           *)
(***************************************************************************)

\* The state stays within its types, whatever points, lists and rules there are.
THEOREM TypeCorrect == Spec => []TypeOK
<1>1. NabtoInv => TypeOK
  BY DEF NabtoInv
<1> QED
  BY <1>1, InvHolds, PTL

\* Every point of a read has an outcome when the read returns, however its points were sorted
\* into spaces and batches and however these were halved (read, _batches, _halves).
THEOREM ReadsAnswerEveryPoint == Spec => []EveryPointAnswered
<1>1. ASSUME NabtoInv PROVE EveryPointAnswered
  <2>1. turn.at = "idle" => todo = << >>
    BY <1>1 DEF NabtoInv, TypeOK
  <2>2. todo = << >> => Pending = {}
    BY DEF Pending
  <2> QED
    BY <1>1, <2>1, <2>2 DEF NabtoInv, ReadInv, EveryPointAnswered
<1> QED
  BY <1>1, InvHolds, PTL

\* A point held back is read again at a time of the rule, counted from the zeros, whatever is
\* read, and however often, before that time (_next_retry, _episodes).
THEOREM HeldBackReadOnTime == Spec => []ReadAgainOnTime
<1>1. NabtoInv => ReadAgainOnTime
  BY DEF NabtoInv
<1> QED
  BY <1>1, InvHolds, PTL

\* A point becomes missing only in the step that hears the refusal of its own registers and of
\* no others (_read_batch).
THEOREM MissingOnlyIfLacking == Spec => MissingIsLacking
<1>1. ASSUME NabtoInv, [Next]_vars
      PROVE  [\A p \in Points :
                result'[p].outcome = "missing" /\ result[p].outcome # "missing"
                    => Range(Spans[p]) \cap unit.lacks # {}]_vars
  BY <1>1, MissingSteps, NabtoDeviceAssumption
<1> QED
  BY <1>1, InvHolds, PTL DEF Spec, MissingIsLacking
=============================================================================
