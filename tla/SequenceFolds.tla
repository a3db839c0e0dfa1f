--------------------------- MODULE SequenceFolds ---------------------------
(***************************************************************************)
(* Induction over data, for the proofs about folds of sequences.           *)
(*                                                                         *)
(* The induction theorems of the library take a predicate as a parameter,  *)
(* which the provers cannot instantiate.  Here induction is stated of a    *)
(* set of numbers, and a fold is that of a constant operator: a module     *)
(* that needs the facts about the fold of its own operator instantiates    *)
(* this one with it.                                                       *)
(***************************************************************************)
EXTENDS Integers, SequencesExt, WellFoundedInduction, TLAPS

CONSTANT Op(_, _)

Fold(base, s) == FoldLeft(Op, base, s)

(* A set that has 0 and the successor of each of its numbers has them all. *)
LEMMA SetInduction ==
    ASSUME NEW T, 0 \in T, \A n \in Nat : n \in T => n + 1 \in T
    PROVE  Nat \subseteq T
  <1> SUFFICES ASSUME Nat \ T # {} PROVE FALSE
    OBVIOUS
  <1>1. PICK n \in Nat \ T : \A k \in Nat \ T : ~(k < n)
    <2>1. PICK n \in Nat \ T : \A k \in Nat \ T : <<k, n>> \notin OpToRel(<, Nat)
      BY NatLessThanWellFounded, WFMin, Nat \ T \subseteq Nat
    <2> QED
      BY <2>1 DEF OpToRel
  <1>2. n # 0 /\ n - 1 \in Nat
    BY <1>1
  <1>3. n - 1 \in T
    BY <1>1, <1>2
  <1> QED
    BY <1>1, <1>2, <1>3

(* The largest element of a set, where it is known.                        *)
LEMMA MaxIs ==
    ASSUME NEW t \in SUBSET Int, NEW n \in t, \A k \in t : k <= n
    PROVE  Max(t) = n
  <1>1. \E x \in t : \A y \in t : x >= y
    OBVIOUS
  <1>2. Max(t) \in t /\ \A y \in t : Max(t) >= y
    BY <1>1, Zenon DEF Max
  <1>3. Max(t) \in Int /\ n \in Int /\ Max(t) >= n /\ Max(t) <= n
    BY <1>2
  <1> QED
    BY <1>3

LEMMA IntervalEnd ==
    ASSUME NEW i \in Nat \ {0}
    PROVE  /\ Max(1 .. i) = i
           /\ 1 .. i # {}
           /\ (1 .. i) \ {i} = 1 .. i - 1
  <1>1. 1 .. i \in SUBSET Int /\ i \in 1 .. i /\ \A k \in 1 .. i : k <= i
    OBVIOUS
  <1>2. Max(1 .. i) = i
    BY <1>1, MaxIs
  <1>3. (1 .. i) \ {i} = 1 .. i - 1
    OBVIOUS
  <1> QED
    BY <1>1, <1>2, <1>3

(* The fold is the last of the values that Op makes one after the other.   *)
LEMMA FoldUnfolds ==
    ASSUME NEW S, NEW s \in Seq(S), NEW base
    PROVE  \E h : /\ h[0] = base
                  /\ \A i \in 1 .. Len(s) : h[i] = Op(h[i - 1], s[i])
                  /\ Fold(base, s) = h[Len(s)]
  <1> DEFINE Values(g, n) ==
                 [t \in SUBSET (1 .. n) |->
                     IF t = {} THEN base ELSE Op(g[t \ {Max(t)}], s[Max(t)])]
             T == {n \in Nat : \E g : g = Values(g, n)}
  <1>1. 0 \in T
    <2> DEFINE g == [t \in SUBSET (1 .. 0) |-> base]
    <2>1. \A t \in SUBSET (1 .. 0) : t = {}
      OBVIOUS
    <2>2. g = Values(g, 0)
      BY <2>1
    <2> QED
      BY <2>2
  <1>2. ASSUME NEW n \in Nat, n \in T
        PROVE  n + 1 \in T
    <2>1. PICK g : g = Values(g, n)
      BY <1>2
    <2> DEFINE h == Values(g, n + 1)
    <2>2. \A t \in SUBSET (1 .. n) : t \in SUBSET (1 .. n + 1)
      OBVIOUS
    <2>3. \A t \in SUBSET (1 .. n) : h[t] = g[t]
      BY <2>1, <2>2
    <2>4. ASSUME NEW t \in SUBSET (1 .. n + 1), t # {}
          PROVE  t \ {Max(t)} \in SUBSET (1 .. n)
      <3>1. CASE n + 1 \in t
        <4>1. Max(t) = n + 1
          BY <3>1, MaxIs
        <4> QED
          BY <4>1
      <3>2. CASE n + 1 \notin t
        <4>1. \A k \in t : k \in 1 .. n
          BY <3>2
        <4> QED
          BY <4>1
      <3> QED
        BY <3>1, <3>2
    <2>5. \A t \in SUBSET (1 .. n + 1) :
              t # {} => h[t \ {Max(t)}] = g[t \ {Max(t)}]
      BY <2>3, <2>4
    <2>6. h = Values(h, n + 1)
      BY <2>5
    <2> QED
      BY <2>6, n + 1 \in Nat, Zenon
  <1>3. Len(s) \in T
    <2>1. Len(s) \in Nat
      OBVIOUS
    <2> HIDE DEF T
    <2>2. Nat \subseteq T
      BY <1>1, <1>2, SetInduction
    <2> QED
      BY <2>1, <2>2
  <1> DEFINE it == CHOOSE g : g = Values(g, Len(s))
  <1>4. it = Values(it, Len(s))
    BY <1>3
  <1>5. Fold(base, s) = it[1 .. Len(s)]
    <2>1. DOMAIN s = 1 .. Len(s)
      OBVIOUS
    <2> QED
      BY <2>1, Zenon DEF Fold, FoldLeft, MapThenFoldSet
  <1> DEFINE h == [i \in 0 .. Len(s) |-> it[1 .. i]]
  <1>6. h[0] = base /\ Fold(base, s) = h[Len(s)]
    <2>1. Len(s) \in Nat /\ 1 .. 0 = {}
      OBVIOUS
    <2>2. it[{}] = base
      BY <1>4
    <2> HIDE DEF it
    <2> QED
      BY <1>5, <2>1, <2>2
  <1>7. ASSUME NEW i \in 1 .. Len(s)
        PROVE  h[i] = Op(h[i - 1], s[i])
    <2>1. i \in Nat /\ i # 0
      OBVIOUS
    <2>2. Max(1 .. i) = i /\ 1 .. i # {}
      BY <2>1, IntervalEnd
    <2>3. (1 .. i) \ {i} = 1 .. i - 1
      BY <2>1, IntervalEnd
    <2>4. /\ 1 .. i \in SUBSET (1 .. Len(s))
          /\ i \in 0 .. Len(s) /\ i - 1 \in 0 .. Len(s)
      OBVIOUS
    <2>5. it[1 .. i] = Op(it[(1 .. i) \ {i}], s[i])
      BY <1>4, <2>1, <2>2, <2>4
    <2> HIDE DEF it
    <2> QED
      BY <2>3, <2>4, <2>5
  <1> HIDE DEF h
  <1> QED
    BY <1>6, <1>7

LEMMA FoldEmpty ==
    ASSUME NEW base
    PROVE  Fold(base, <<>>) = base
  <1>1. <<>> \in Seq({}) /\ Len(<<>>) = 0
    OBVIOUS
  <1>2. \A s \in Seq({}) : \E h : h[0] = base /\ Fold(base, s) = h[Len(s)]
    BY FoldUnfolds
  <1> QED
    BY <1>1, <1>2

LEMMA FoldAppend ==
    ASSUME NEW S, NEW s \in Seq(S), NEW x \in S, NEW base
    PROVE  Fold(base, Append(s, x)) = Op(Fold(base, s), x)
  <1> DEFINE app == Append(s, x)
  <1>1. /\ app \in Seq(S) /\ Len(s) \in Nat /\ Len(app) = Len(s) + 1
        /\ app[Len(s) + 1] = x
        /\ \A i \in 1 .. Len(s) : app[i] = s[i]
    OBVIOUS
  <1> HIDE DEF app
  <1>2. PICK h : /\ h[0] = base
                 /\ \A i \in 1 .. Len(s) : h[i] = Op(h[i - 1], s[i])
                 /\ Fold(base, s) = h[Len(s)]
    BY FoldUnfolds
  <1>3. PICK g : /\ g[0] = base
                 /\ \A i \in 1 .. Len(s) + 1 : g[i] = Op(g[i - 1], app[i])
                 /\ Fold(base, app) = g[Len(s) + 1]
    <2>1. \E g : /\ g[0] = base
                 /\ \A i \in 1 .. Len(app) : g[i] = Op(g[i - 1], app[i])
                 /\ Fold(base, app) = g[Len(app)]
      BY <1>1, FoldUnfolds, Zenon
    <2> QED
      BY <1>1, <2>1
  <1> DEFINE T == {k \in Nat : k <= Len(s) => g[k] = h[k]}
  <1>4. 0 \in T
    BY <1>2, <1>3
  <1>5. ASSUME NEW k \in Nat, k \in T
        PROVE  k + 1 \in T
    <2> SUFFICES ASSUME k + 1 <= Len(s) PROVE g[k + 1] = h[k + 1]
      OBVIOUS
    <2>1. k + 1 \in 1 .. Len(s) /\ k + 1 \in 1 .. Len(s) + 1 /\ (k + 1) - 1 = k
      BY <1>1
    <2>2. g[k] = h[k]
      BY <1>1, <1>5
    <2> QED
      BY <1>1, <1>2, <1>3, <2>1, <2>2
  <1>6. Len(s) \in T
    <2> HIDE DEF T
    <2>1. Nat \subseteq T
      BY <1>4, <1>5, SetInduction
    <2> QED
      BY <1>1, <2>1
  <1>7. g[Len(s)] = h[Len(s)]
    BY <1>1, <1>6
  <1>8. g[Len(s) + 1] = Op(g[Len(s)], x)
    BY <1>1, <1>3
  <1> QED
    BY <1>2, <1>3, <1>7, <1>8 DEF app

(* A set that has the empty sequence and each of its sequences with one    *)
(* more element has them all.                                              *)
LEMMA SequenceInduction ==
    ASSUME NEW S, NEW T, <<>> \in T,
           \A s \in Seq(S), x \in S : s \in T => Append(s, x) \in T
    PROVE  Seq(S) \subseteq T
  <1> DEFINE N == {n \in Nat : \A s \in Seq(S) : Len(s) = n => s \in T}
  <1>1. 0 \in N
    <2>1. \A s \in Seq(S) : Len(s) = 0 => s = <<>>
      OBVIOUS
    <2> QED
      BY <2>1
  <1>2. ASSUME NEW n \in Nat, n \in N
        PROVE  n + 1 \in N
    <2> SUFFICES ASSUME NEW s \in Seq(S), Len(s) = n + 1 PROVE s \in T
      OBVIOUS
    <2> DEFINE front == SubSeq(s, 1, n)
    <2>1. front \in Seq(S) /\ Len(front) = n /\ s[n + 1] \in S
      OBVIOUS
    <2>2. s = Append(front, s[n + 1])
      OBVIOUS
    <2>3. front \in T
      BY <1>2, <2>1
    <2> HIDE DEF front
    <2> QED
      BY <2>1, <2>2, <2>3
  <1> HIDE DEF N
  <1>3. Nat \subseteq N
    BY <1>1, <1>2, SetInduction
  <1> QED
    BY <1>3 DEF N

(* Folding one sequence after the other.                                   *)
LEMMA FoldConcat ==
    ASSUME NEW S, NEW s \in Seq(S), NEW base
    PROVE  \A t \in Seq(S) : Fold(base, s \o t) = Fold(Fold(base, s), t)
  <1> DEFINE T == {t \in Seq(S) : Fold(base, s \o t) = Fold(Fold(base, s), t)}
  <1>1. <<>> \in T
    <2>1. s \o <<>> = s /\ <<>> \in Seq(S)
      OBVIOUS
    <2> QED
      BY <2>1, FoldEmpty
  <1>2. ASSUME NEW t \in Seq(S), NEW x \in S, t \in T
        PROVE  Append(t, x) \in T
    <2>1. /\ s \o t \in Seq(S) /\ Append(t, x) \in Seq(S)
          /\ s \o Append(t, x) = Append(s \o t, x)
      OBVIOUS
    <2>2. Fold(base, Append(s \o t, x)) = Op(Fold(base, s \o t), x)
      BY <2>1, FoldAppend
    <2>3. Fold(Fold(base, s), Append(t, x)) = Op(Fold(Fold(base, s), t), x)
      BY FoldAppend
    <2> QED
      BY <1>2, <2>1, <2>2, <2>3
  <1> HIDE DEF T
  <1>3. Seq(S) \subseteq T
    BY <1>1, <1>2, SequenceInduction
  <1> QED
    BY <1>3 DEF T
=============================================================================
