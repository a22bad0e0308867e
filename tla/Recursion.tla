----------------------------- MODULE Recursion -----------------------------
(***************************************************************************)
(* Recursive functions, as the proofs about batches need them: that there  *)
(* is one, what is true of it at every step, and what FlattenSeq makes of  *)
(* sequences.                                                              *)
(***************************************************************************)
EXTENDS Integers, SequencesExt, SequenceTheorems, WellFoundedInduction, TLAPS

LEMMA Induct ==
    ASSUME NEW S, 0 \in S, \A n \in Nat : n \in S => n + 1 \in S
    PROVE  Nat \subseteq S
<1> DEFINE R == {p \in Nat \X Nat : p[1] < p[2]}
           T == Nat \ S
<1>1. IsWellFoundedOn(R, Nat)
  BY NatLessThanWellFounded DEF OpToRel
<1>2. CASE T # {}
  <2>1. T \subseteq Nat
    OBVIOUS
  <2> HIDE DEF T, R
  <2>2. PICK m \in T : \A y \in T : ~ (<<y, m>> \in R)
    BY <1>1, <1>2, <2>1, WFMin
  <2> USE DEF T, R
  <2>3. m # 0 /\ m \in Nat /\ m - 1 \in Nat /\ m - 1 + 1 = m
    OBVIOUS
  <2>4. m - 1 \in T
    BY <2>3
  <2>5. <<m - 1, m>> \in R
    BY <2>3
  <2> QED
    BY <2>2, <2>4, <2>5
<1> QED
  BY <1>2

LEMMA UpTo ==
    ASSUME NEW m \in Nat, NEW L \in Nat, NEW S, m \in S,
           \A n \in m .. L : n # m /\ n - 1 \in S => n \in S
    PROVE  m .. L \subseteq S
<1> DEFINE T == {k \in Nat : m + k \in S \/ m + k > L}
<1>1. 0 \in T
  OBVIOUS
<1>2. ASSUME NEW k \in Nat, k \in T PROVE k + 1 \in T
  <2>1. CASE m + k + 1 > L
    BY <2>1
  <2>2. CASE m + k + 1 <= L
    <3>1. /\ m + k + 1 \in m .. L /\ m + k + 1 # m /\ m + k + 1 - 1 = m + k
          /\ ~(m + k > L)
      BY <2>2
    <3>2. m + k \in S
      BY <1>2, <3>1
    <3>3. m + k + 1 \in S
      BY <3>1, <3>2
    <3> QED
      BY <3>3
  <2> QED
    BY <2>1, <2>2
<1> HIDE DEF T
<1>3. Nat \subseteq T
  BY <1>1, <1>2, Induct
<1>4. ASSUME NEW n \in m .. L PROVE n \in S
  <2>1. n - m \in Nat /\ m + (n - m) = n /\ ~(n > L)
    OBVIOUS
  <2>2. n - m \in T
    BY <1>3, <2>1
  <2> QED
    BY <2>1, <2>2 DEF T
<1> QED
  BY <1>4

\* `f` starts with `b` at m, and goes on to L by the steps E.
Unfolds(f, m, L, b, E) ==
    f[m] = b /\ \A n \in m .. L : n # m => f[n] = E[n][f[n - 1]]

LEMMA Recursive ==
    ASSUME NEW m \in Nat, NEW L \in Nat, m <= L, NEW V, NEW b \in V,
           NEW E \in [m .. L -> [V -> V]]
    PROVE  \E f \in [m .. L -> V] : Unfolds(f, m, L, b, E)
<1> DEFINE Solves(f, k) ==
              f[m] = b /\ \A n \in m .. k : n # m => f[n] = E[n][f[n - 1]]
           S == {k \in m .. L : \E f \in [m .. L -> V] : Solves(f, k)}
<1>1. m \in S
  <2>1. [n \in m .. L |-> b] \in [m .. L -> V]
    OBVIOUS
  <2>2. Solves([n \in m .. L |-> b], m)
    OBVIOUS
  <2>3. m \in m .. L
    OBVIOUS
  <2> QED
    BY <2>1, <2>2, <2>3
<1>2. ASSUME NEW k \in m .. L, k # m, k - 1 \in S PROVE k \in S
  <2>1. PICK f \in [m .. L -> V] : Solves(f, k - 1)
    BY <1>2
  <2> DEFINE g == [f EXCEPT ![k] = E[k][f[k - 1]]]
  <2>2. k - 1 \in m .. L
    BY <1>2
  <2>3. E[k][f[k - 1]] \in V
    BY <2>1, <2>2
  <2>4. g \in [m .. L -> V] /\ g[k] = E[k][f[k - 1]]
        /\ \A n \in m .. L : n # k => g[n] = f[n]
    BY <2>1, <2>2, <2>3
  <2>5. g[m] = b
    BY <1>2, <2>1, <2>2, <2>4
  <2>6. ASSUME NEW n \in m .. k, n # m PROVE g[n] = E[n][g[n - 1]]
    <3>1. CASE n = k
      BY <1>2, <2>2, <2>4, <3>1
    <3>2. CASE n # k
      <4>1. n \in m .. k - 1 /\ n \in m .. L /\ n - 1 \in m .. L /\ n - 1 # k
        BY <2>6, <3>2
      <4> QED
        BY <2>1, <2>4, <2>6, <3>2, <4>1
    <3> QED
      BY <3>1, <3>2
  <2> HIDE DEF g
  <2> QED
    BY <2>2, <2>4, <2>5, <2>6
<1> HIDE DEF S
<1>3. m .. L \subseteq S
  BY <1>1, <1>2, UpTo
<1>4. L \in S
  BY <1>3
<1> QED
  BY <1>4 DEF S, Unfolds

\* FlattenSeq concatenates, from the first sequence to the last.
LEMMA Flattened ==
    ASSUME NEW V, NEW seqs \in Seq(Seq(V)), seqs # << >>
    PROVE  \E f \in [1 .. Len(seqs) -> Seq(V)] :
              /\ FlattenSeq(seqs) = f[Len(seqs)]
              /\ f[1] = seqs[1]
              /\ \A n \in 1 .. Len(seqs) : n # 1 => f[n] = f[n - 1] \o seqs[n]
<1> DEFINE L == Len(seqs)
           Solves(f) == f = [i \in 1 .. L |-> IF i = 1 THEN seqs[i] ELSE f[i - 1] \o seqs[i]]
           E == [n \in 1 .. L |-> [v \in Seq(V) |-> v \o seqs[n]]]
<1>1. L \in Nat /\ 1 <= L /\ L # 0 /\ 1 \in Nat /\ 1 \in 1 .. L
  BY EmptySeq, LenProperties
<1>2. \A n \in 1 .. L : seqs[n] \in Seq(V)
  BY ElementOfSeq
<1> HIDE DEF L
<1>3. \E f : Solves(f)
  <2>1. \A n \in 1 .. L : [v \in Seq(V) |-> v \o seqs[n]] \in [Seq(V) -> Seq(V)]
    BY <1>1, <1>2, ConcatProperties
  <2>2. E \in [1 .. L -> [Seq(V) -> Seq(V)]]
    BY <2>1
  <2>3. seqs[1] \in Seq(V)
    BY <1>1, <1>2
  <2>4. \A n \in 1 .. L : \A v \in Seq(V) : E[n][v] = v \o seqs[n]
    OBVIOUS
  <2> HIDE DEF E, Solves
  <2>5. PICK f \in [1 .. L -> Seq(V)] : Unfolds(f, 1, L, seqs[1], E)
    BY <1>1, <2>2, <2>3, Recursive
  <2>6. ASSUME NEW n \in 1 .. L
        PROVE  f[n] = IF n = 1 THEN seqs[n] ELSE f[n - 1] \o seqs[n]
    <3>1. CASE n = 1
      BY <2>5, <3>1 DEF Unfolds
    <3>2. CASE n # 1
      <4>1. n - 1 \in 1 .. L
        BY <1>1, <3>2
      <4>2. f[n - 1] \in Seq(V)
        BY <2>5, <4>1
      <4>3. f[n] = E[n][f[n - 1]]
        BY <2>5, <3>2 DEF Unfolds
      <4> QED
        BY <2>4, <3>2, <4>2, <4>3
    <3> QED
      BY <3>1, <3>2
  <2>7. Solves(f)
    BY <2>5, <2>6 DEF Solves
  <2> QED
    BY <2>7
<1> DEFINE flat == CHOOSE f : Solves(f)
<1>4. FlattenSeq(seqs) = flat[L]
  BY <1>1 DEF FlattenSeq, L
<1>5. Solves(flat)
  BY <1>3
<1> HIDE DEF flat
<1>6. flat[1] = seqs[1] /\ \A n \in 1 .. L : n # 1 => flat[n] = flat[n - 1] \o seqs[n]
  <2>1. \A i \in 1 .. L : flat[i] = IF i = 1 THEN seqs[i] ELSE flat[i - 1] \o seqs[i]
    BY <1>5
  <2> QED
    BY <1>1, <2>1
<1>7. \A n \in 1 .. L : flat[n] \in Seq(V)
  <2> DEFINE S == {n \in 1 .. L : flat[n] \in Seq(V)}
  <2>1. 1 \in S
    BY <1>1, <1>2, <1>6
  <2>2. ASSUME NEW n \in 1 .. L, n # 1, n - 1 \in S PROVE n \in S
    <3>1. flat[n - 1] \in Seq(V) /\ seqs[n] \in Seq(V)
      BY <1>2, <2>2
    <3>2. flat[n - 1] \o seqs[n] \in Seq(V)
      BY <3>1, ConcatProperties
    <3> QED
      BY <1>6, <2>2, <3>2
  <2> HIDE DEF S
  <2>3. 1 .. L \subseteq S
    BY <1>1, <2>1, <2>2, UpTo
  <2> QED
    BY <2>3 DEF S
<1>8. DOMAIN flat = 1 .. L /\ flat = [n \in 1 .. L |-> flat[n]]
  BY <1>5
<1>9. flat \in [1 .. L -> Seq(V)]
  BY <1>7, <1>8
<1> QED
  BY <1>4, <1>6, <1>9 DEF L
=============================================================================
