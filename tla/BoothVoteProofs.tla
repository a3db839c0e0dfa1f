--------------------------- MODULE BoothVoteProofs ---------------------------
(***************************************************************************)
(* What the page of questions keeps true for any questions and numbers of  *)
(* candidates, whichever way the voter answers and navigates.              *)
(*                                                                         *)
(* First, VoteInv: candidates and columns are neither lost nor doubled,    *)
(* what was passed stays valid, and no alert is out of date.  An answer    *)
(* replaces the vote and the arrangement of the current question only, and *)
(* drops its alerts: Answered is the lemma of all those actions.           *)
(*                                                                         *)
(* Then, FitInv: the vote of each question is one that its kind allows,    *)
(* and it agrees with the columns displayed.  What such a vote becomes -   *)
(* the levels without holes, the ranks, the sums of the encryption, the    *)
(* recapitulation - is the matter of the lemmas on ballots before it.      *)
(***************************************************************************)
EXTENDS BoothVote, SequenceTheorems, FiniteSetTheorems, FunctionTheorems, TLAPS

(* The levels of a ballot are lowered by a fold.                           *)
Passes == INSTANCE SequenceFolds WITH Op <- Lower

(* The columns.  A column is taken for its members and the absence of      *)
(* duplicates: then a move is a removal from one set and an addition to    *)
(* another.                                                                *)
Distinct(s) == \A i, j \in DOMAIN s : s[i] = s[j] => i = j

(* Each of the n candidates is in one column, once.                        *)
Placed(columns, n) ==
    /\ columns \in [DOMAIN columns -> Seq(1..n)]
    /\ \A k \in DOMAIN columns : Distinct(columns[k])
    /\ \A k, l \in DOMAIN columns :
            k # l => ToSet(columns[k]) \cap ToSet(columns[l]) = {}
    /\ \A c \in 1..n : \E k \in DOMAIN columns : c \in ToSet(columns[k])

(* The columns displayed are those there are, and NotRanked is the last.   *)
Ordered(columns, order) ==
    /\ order \in Seq(DOMAIN columns) /\ order # <<>>
    /\ ToSet(order) = DOMAIN columns
    /\ Distinct(order)
    /\ order[Len(order)] = NotRanked

(* The name of the next level is that of no column.                        *)
Fresh(columns, created) ==
    /\ created \in Nat
    /\ \A k \in DOMAIN columns :
            k = NotRanked \/ k = Ranked \/ (k \in Nat /\ k < created)

Arranged(a, n) ==
    /\ a = [columns |-> a.columns, order |-> a.order, created |-> a.created]
    /\ Placed(a.columns, n)
    /\ Ordered(a.columns, a.order)
    /\ Fresh(a.columns, a.created)

-----------------------------------------------------------------------------
(* Removal and insertion in a sequence                                     *)

LEMMA RemoveAtElements ==
    ASSUME NEW S, NEW s \in Seq(S), NEW i \in DOMAIN s
    PROVE  /\ RemoveAt(s, i) \in Seq(S)
           /\ Len(RemoveAt(s, i)) = Len(s) - 1
           /\ \A j \in 1..Len(s) - 1 :
                RemoveAt(s, i)[j] = IF j < i THEN s[j] ELSE s[j + 1]
  <1>1. i \in 1..Len(s) /\ Len(s) \in Nat
    OBVIOUS
  <1> DEFINE a == SubSeq(s, 1, i - 1)
             b == SubSeq(s, i + 1, Len(s))
  <1>2. /\ a \in Seq(S) /\ Len(a) = i - 1
        /\ \A j \in 1..i - 1 : a[j] = s[j]
    BY <1>1, SubSeqProperties
  <1>3. /\ b \in Seq(S) /\ Len(b) = Len(s) - i
        /\ \A j \in 1..Len(s) - i : b[j] = s[i + j]
    BY <1>1, SubSeqProperties
  <1> HIDE DEF a, b
  <1>4. /\ a \o b \in Seq(S)
        /\ Len(a \o b) = Len(s) - 1
        /\ \A j \in 1..Len(s) - 1 :
                (a \o b)[j] = IF j <= i - 1 THEN a[j] ELSE b[j - (i - 1)]
    <2>1. Len(a) + Len(b) = Len(s) - 1
      BY <1>1, <1>2, <1>3
    <2>2. a \in Seq(S) /\ b \in Seq(S) /\ Len(a) = i - 1
      BY <1>2, <1>3
    <2>3. /\ a \o b \in Seq(S)
          /\ Len(a \o b) = Len(a) + Len(b)
          /\ \A j \in 1..Len(a) + Len(b) :
                (a \o b)[j] = IF j <= Len(a) THEN a[j] ELSE b[j - Len(a)]
      BY <2>2, ConcatProperties
    <2> QED
      BY <2>1, <2>2, <2>3
  <1>5. RemoveAt(s, i) = a \o b
    BY DEF RemoveAt, a, b
  <1>6. ASSUME NEW j \in 1..Len(s) - 1
        PROVE  (a \o b)[j] = IF j < i THEN s[j] ELSE s[j + 1]
    <2>1. CASE j < i
      BY <1>1, <1>2, <1>3, <1>4, <2>1
    <2>2. CASE ~(j < i)
      <3>1. j - (i - 1) \in 1..Len(s) - i /\ i + (j - (i - 1)) = j + 1
        BY <1>1, <2>2
      <3>2. (a \o b)[j] = b[j - (i - 1)]
        BY <1>1, <1>2, <1>3, <1>4, <2>2
      <3> QED
        BY <1>3, <2>2, <3>1, <3>2
    <2> QED
      BY <2>1, <2>2
  <1> QED
    BY <1>1, <1>2, <1>3, <1>4, <1>5, <1>6

LEMMA InsertAtElements ==
    ASSUME NEW S, NEW s \in Seq(S), NEW i \in 1..Len(s) + 1, NEW e \in S
    PROVE  /\ InsertAt(s, i, e) \in Seq(S)
           /\ Len(InsertAt(s, i, e)) = Len(s) + 1
           /\ \A j \in 1..Len(s) + 1 :
                InsertAt(s, i, e)[j] =
                    IF j < i THEN s[j] ELSE IF j = i THEN e ELSE s[j - 1]
  <1>1. i \in 1..Len(s) + 1 /\ Len(s) \in Nat
    OBVIOUS
  <1> DEFINE a == SubSeq(s, 1, i - 1)
             b == SubSeq(s, i, Len(s))
  <1>2. /\ a \in Seq(S) /\ Len(a) = i - 1
        /\ \A j \in 1..i - 1 : a[j] = s[j]
    BY <1>1, SubSeqProperties
  <1>3. /\ b \in Seq(S) /\ Len(b) = Len(s) - i + 1
        /\ \A j \in 1..Len(s) - i + 1 : b[j] = s[i + j - 1]
    BY <1>1, SubSeqProperties
  <1> HIDE DEF a, b
  <1>4. /\ a \o <<e>> \in Seq(S) /\ Len(a \o <<e>>) = i
        /\ \A j \in 1..i : (a \o <<e>>)[j] = IF j < i THEN s[j] ELSE e
    BY <1>1, <1>2, ConcatProperties
  <1>5. /\ (a \o <<e>>) \o b \in Seq(S)
        /\ Len((a \o <<e>>) \o b) = Len(s) + 1
        /\ \A j \in 1..Len(s) + 1 :
                ((a \o <<e>>) \o b)[j] =
                    IF j <= i THEN (a \o <<e>>)[j] ELSE b[j - i]
    BY <1>1, <1>3, <1>4, ConcatProperties
  <1>6. InsertAt(s, i, e) = (a \o <<e>>) \o b
    BY DEF InsertAt, a, b
  <1> QED
    BY <1>1, <1>3, <1>4, <1>5, <1>6

(* What a removal does to the members of a column.                         *)
LEMMA RemoveAtMembers ==
    ASSUME NEW S, NEW s \in Seq(S), NEW i \in DOMAIN s, Distinct(s)
    PROVE  /\ RemoveAt(s, i) \in Seq(S)
           /\ Distinct(RemoveAt(s, i))
           /\ ToSet(RemoveAt(s, i)) = ToSet(s) \ {s[i]}
  <1> DEFINE t == RemoveAt(s, i)
  <1>1. /\ t \in Seq(S) /\ Len(t) = Len(s) - 1
        /\ \A j \in 1..Len(s) - 1 : t[j] = IF j < i THEN s[j] ELSE s[j + 1]
    BY RemoveAtElements
  <1>2. /\ Len(s) \in Nat /\ DOMAIN s = 1..Len(s) /\ DOMAIN t = 1..Len(s) - 1
        /\ i \in 1..Len(s)
    BY <1>1
  <1> HIDE DEF t
  <1>3. Distinct(t)
    <2> SUFFICES ASSUME NEW j \in DOMAIN t, NEW k \in DOMAIN t, t[j] = t[k]
                 PROVE  j = k
      BY DEF Distinct
    <2> DEFINE old(m) == IF m < i THEN m ELSE m + 1
    <2>1. /\ old(j) \in DOMAIN s /\ t[j] = s[old(j)]
          /\ old(k) \in DOMAIN s /\ t[k] = s[old(k)]
      BY <1>1, <1>2
    <2>2. old(j) = old(k)
      BY <2>1 DEF Distinct
    <2> QED
      BY <1>2, <2>2
  <1>4. ASSUME NEW x \in ToSet(t)
        PROVE  x \in ToSet(s) \ {s[i]}
    <2>1. PICK j \in DOMAIN t : x = t[j]
      BY DEF ToSet
    <2>2. PICK k \in DOMAIN s : k # i /\ x = s[k]
      <3>1. CASE j < i
        BY <1>1, <1>2, <2>1, <3>1
      <3>2. CASE ~(j < i)
        <4>1. j + 1 \in DOMAIN s /\ j + 1 # i /\ x = s[j + 1]
          BY <1>1, <1>2, <2>1, <3>2
        <4> QED
          BY <4>1
      <3> QED
        BY <3>1, <3>2
    <2> QED
      BY <2>2 DEF ToSet, Distinct
  <1>5. ASSUME NEW x \in ToSet(s) \ {s[i]}
        PROVE  x \in ToSet(t)
    <2>1. PICK k \in DOMAIN s : x = s[k] /\ k # i
      BY DEF ToSet
    <2>2. CASE k < i
      BY <1>1, <1>2, <2>1, <2>2 DEF ToSet
    <2>3. CASE i < k
      <3>1. k - 1 \in DOMAIN t /\ t[k - 1] = s[k]
        BY <1>1, <1>2, <2>1, <2>3
      <3> QED
        BY <2>1, <3>1 DEF ToSet
    <2> QED
      BY <1>2, <2>1, <2>2, <2>3
  <1> QED
    BY <1>1, <1>3, <1>4, <1>5 DEF t

(* What an insertion does to them.                                         *)
LEMMA InsertAtMembers ==
    ASSUME NEW S, NEW s \in Seq(S), NEW i \in 1..Len(s) + 1, NEW e \in S,
           Distinct(s), e \notin ToSet(s)
    PROVE  /\ InsertAt(s, i, e) \in Seq(S)
           /\ Distinct(InsertAt(s, i, e))
           /\ ToSet(InsertAt(s, i, e)) = ToSet(s) \cup {e}
  <1> DEFINE t == InsertAt(s, i, e)
  <1>1. /\ t \in Seq(S) /\ Len(t) = Len(s) + 1
        /\ \A j \in 1..Len(s) + 1 :
                t[j] = IF j < i THEN s[j] ELSE IF j = i THEN e ELSE s[j - 1]
    <2> HIDE DEF t
    <2>1. t = InsertAt(s, i, e)
      BY DEF t
    <2> QED
      BY <2>1, InsertAtElements
  <1>2. /\ Len(s) \in Nat /\ DOMAIN s = 1..Len(s) /\ DOMAIN t = 1..Len(s) + 1
        /\ i \in 1..Len(s) + 1
    BY <1>1
  <1> HIDE DEF t
  <1>3. \A j \in DOMAIN t : j # i => t[j] # e
    <2> SUFFICES ASSUME NEW j \in DOMAIN t, j # i PROVE t[j] # e
      OBVIOUS
    <2>1. \E k \in DOMAIN s : t[j] = s[k]
      BY <1>1, <1>2
    <2> QED
      BY <2>1 DEF ToSet
  <1>4. Distinct(t)
    <2> SUFFICES ASSUME NEW j \in DOMAIN t, NEW k \in DOMAIN t, t[j] = t[k]
                 PROVE  j = k
      BY DEF Distinct
    <2>1. t[i] = e
      BY <1>1, <1>2
    <2>2. CASE j = i \/ k = i
      BY <1>3, <2>1, <2>2
    <2>3. CASE j # i /\ k # i
      <3> DEFINE old(m) == IF m < i THEN m ELSE m - 1
      <3>1. /\ old(j) \in DOMAIN s /\ t[j] = s[old(j)]
            /\ old(k) \in DOMAIN s /\ t[k] = s[old(k)]
        BY <1>1, <1>2, <2>3
      <3>2. old(j) = old(k)
        BY <3>1 DEF Distinct
      <3> QED
        BY <1>2, <2>3, <3>2
    <2> QED
      BY <2>2, <2>3
  <1>5. ASSUME NEW x \in ToSet(t)
        PROVE  x \in ToSet(s) \cup {e}
    <2>1. PICK j \in DOMAIN t : x = t[j]
      BY DEF ToSet
    <2>2. x = e \/ \E k \in DOMAIN s : x = s[k]
      BY <1>1, <1>2, <2>1
    <2> QED
      BY <2>2 DEF ToSet
  <1>6. ASSUME NEW x \in ToSet(s)
        PROVE  x \in ToSet(t)
    <2>1. PICK k \in DOMAIN s : x = s[k]
      BY DEF ToSet
    <2>2. CASE k < i
      BY <1>1, <1>2, <2>1, <2>2 DEF ToSet
    <2>3. CASE ~(k < i)
      <3>1. k + 1 \in DOMAIN t /\ t[k + 1] = s[k]
        BY <1>1, <1>2, <2>3
      <3> QED
        BY <2>1, <3>1 DEF ToSet
    <2> QED
      BY <2>2, <2>3
  <1>7. e \in ToSet(t)
    BY <1>1, <1>2 DEF ToSet
  <1> QED
    BY <1>1, <1>4, <1>5, <1>6, <1>7 DEF t

(* Splice, which appends when the place is past the end.                   *)
LEMMA PutMembers ==
    ASSUME NEW S, NEW s \in Seq(S), NEW k \in Nat \ {0}, NEW e \in S,
           Distinct(s), e \notin ToSet(s)
    PROVE  /\ Put(s, k, e) \in Seq(S)
           /\ Distinct(Put(s, k, e))
           /\ ToSet(Put(s, k, e)) = ToSet(s) \cup {e}
  <1> DEFINE p == IF k > Len(s) THEN Len(s) + 1 ELSE k
  <1>1. p \in 1..Len(s) + 1
    OBVIOUS
  <1>2. Put(s, k, e) = InsertAt(s, p, e)
    BY DEF Put
  <1> HIDE DEF p
  <1> QED
    BY <1>1, <1>2, InsertAtMembers

-----------------------------------------------------------------------------
(* The operations on columns                                               *)

(* A move keeps each candidate in one place: it leaves the members of all  *)
(* columns but two alone, and takes the candidate from one to the other.   *)
LEMMA MovePlaced ==
    ASSUME NEW n \in Nat, NEW columns, Placed(columns, n),
           NEW from \in DOMAIN columns, NEW to \in DOMAIN columns,
           NEW i \in DOMAIN columns[from], NEW k \in Nat \ {0},
           NEW taken, taken = RemoveAt(columns[from], i),
           NEW put,
           put = Put(IF from = to THEN taken ELSE columns[to], k, columns[from][i]),
           NEW new, new = [columns EXCEPT ![from] = taken, ![to] = put]
    PROVE  /\ Placed(new, n)
           /\ columns[from][i] \in ToSet(new[to])
           /\ \A h \in DOMAIN columns :
                ToSet(columns[h]) \ {columns[from][i]} \subseteq ToSet(new[h])
  <1> DEFINE c == columns[from][i]
  <1>1. /\ columns[from] \in Seq(1..n) /\ columns[to] \in Seq(1..n)
        /\ Distinct(columns[from]) /\ Distinct(columns[to])
        /\ c \in 1..n /\ c \in ToSet(columns[from])
    BY DEF Placed, ToSet
  <1>2. /\ taken \in Seq(1..n) /\ Distinct(taken)
        /\ ToSet(taken) = ToSet(columns[from]) \ {c}
    BY <1>1, RemoveAtMembers
  <1>3. /\ put \in Seq(1..n) /\ Distinct(put)
        /\ ToSet(put) =
            (IF from = to THEN ToSet(columns[from]) ELSE ToSet(columns[to]) \cup {c})
    <2>1. CASE from = to
      <3>1. c \notin ToSet(taken)
        BY <1>2
      <3>2. put = Put(taken, k, c)
        BY <2>1
      <3>3. /\ put \in Seq(1..n) /\ Distinct(put)
            /\ ToSet(put) = ToSet(taken) \cup {c}
        BY <1>1, <1>2, <3>1, <3>2, PutMembers
      <3> QED
        BY <1>1, <1>2, <2>1, <3>3
    <2>2. CASE from # to
      <3>1. c \notin ToSet(columns[to])
        BY <1>1, <2>2 DEF Placed
      <3>2. put = Put(columns[to], k, c)
        BY <2>2
      <3> QED
        BY <1>1, <2>2, <3>1, <3>2, PutMembers
    <2> QED
      BY <2>1, <2>2
  <1>4. /\ DOMAIN new = DOMAIN columns
        /\ \A l \in DOMAIN columns :
                new[l] = IF l = to THEN put ELSE IF l = from THEN taken ELSE columns[l]
    BY DEF Placed
  <1> HIDE DEF c
  <1>5. new \in [DOMAIN new -> Seq(1..n)]
    <2>1. \A l \in DOMAIN columns : new[l] \in Seq(1..n)
      BY <1>2, <1>3, <1>4 DEF Placed
    <2>2. new = [l \in DOMAIN columns |-> new[l]]
      BY <1>4 DEF Placed
    <2> QED
      BY <1>4, <2>1, <2>2
  <1>6. \A l \in DOMAIN new : Distinct(new[l])
    BY <1>2, <1>3, <1>4 DEF Placed
  <1>7. \A l \in DOMAIN columns :
            ToSet(new[l]) =
                IF l = to THEN ToSet(put)
                ELSE IF l = from THEN ToSet(taken) ELSE ToSet(columns[l])
    BY <1>4
  <1>8. ASSUME NEW l \in DOMAIN new, NEW m \in DOMAIN new, l # m
        PROVE  ToSet(new[l]) \cap ToSet(new[m]) = {}
    <2>1. \A j, h \in DOMAIN columns :
                j # h => ToSet(columns[j]) \cap ToSet(columns[h]) = {}
      BY DEF Placed
    <2>2. l \in DOMAIN columns /\ m \in DOMAIN columns
      BY <1>4
    <2>3. CASE from = to
      <3>1. ToSet(new[l]) = ToSet(columns[l]) /\ ToSet(new[m]) = ToSet(columns[m])
        BY <1>3, <1>7, <2>2, <2>3
      <3> QED
        BY <1>8, <2>1, <2>2, <3>1
    <2>4. CASE from # to
      <3>1. ToSet(put) = ToSet(columns[to]) \cup {c}
        BY <1>3, <2>4
      <3>2. \A h \in DOMAIN columns : h # from => c \notin ToSet(columns[h])
        BY <1>1, <2>1
      <3>3. \A h \in DOMAIN columns :
                ToSet(new[h]) = IF h = to THEN ToSet(columns[to]) \cup {c}
                                ELSE ToSet(columns[h]) \ {c}
        BY <1>2, <1>7, <3>1, <3>2
      <3>4. ToSet(columns[l]) \cap ToSet(columns[m]) = {}
        BY <1>8, <2>1, <2>2
      <3> QED
        BY <1>8, <2>2, <3>2, <3>3, <3>4
    <2> QED
      BY <2>3, <2>4
  <1>9. ASSUME NEW d \in 1..n
        PROVE  \E l \in DOMAIN new : d \in ToSet(new[l])
    <2>1. PICK l \in DOMAIN columns : d \in ToSet(columns[l])
      BY DEF Placed
    <2>2. CASE d = c
      BY <1>1, <1>3, <1>4, <1>7, <2>2
    <2>3. CASE d # c
      BY <1>2, <1>3, <1>4, <1>7, <2>1, <2>3
    <2> QED
      BY <2>2, <2>3
  <1>10. Placed(new, n)
    BY <1>5, <1>6, <1>8, <1>9 DEF Placed
  <1>11. c \in ToSet(new[to])
    BY <1>1, <1>3, <1>7
  <1>12. \A h \in DOMAIN columns : ToSet(columns[h]) \ {c} \subseteq ToSet(new[h])
    BY <1>2, <1>3, <1>7
  <1> QED
    BY <1>10, <1>11, <1>12 DEF c

LEMMA MoveArranged ==
    ASSUME NEW n \in Nat, NEW a, Arranged(a, n),
           NEW from \in DOMAIN a.columns, NEW to \in DOMAIN a.columns,
           NEW i \in DOMAIN a.columns[from], NEW k \in Nat \ {0}
    PROVE  Arranged(Move(a, from, i, to, k), n)
  <1> DEFINE taken == RemoveAt(a.columns[from], i)
             put == Put(IF from = to THEN taken ELSE a.columns[to], k,
                        a.columns[from][i])
             new == [a.columns EXCEPT ![from] = taken, ![to] = put]
  <1>0. Placed(a.columns, n)
    BY DEF Arranged
  <1>1. Placed(new, n)
    BY <1>0, MovePlaced
  <1>2. Move(a, from, i, to, k) =
            [columns |-> new, order |-> a.order, created |-> a.created]
    <2>1. Move(a, from, i, to, k) = [a EXCEPT !.columns = new]
      BY DEF Move
    <2>2. a = [columns |-> a.columns, order |-> a.order, created |-> a.created]
      BY DEF Arranged
    <2> HIDE DEF new
    <2> QED
      BY <2>1, <2>2
  <1>3. DOMAIN new = DOMAIN a.columns
    BY DEF Arranged, Placed
  <1> HIDE DEF new
  <1> QED
    BY <1>1, <1>2, <1>3 DEF Arranged, Ordered, Fresh

(* A new level is empty, has a fresh name, and comes before NotRanked.     *)
LEMMA InsertLevelArranged ==
    ASSUME NEW n \in Nat, NEW a, Arranged(a, n), NEW p \in DOMAIN a.order
    PROVE  Arranged(InsertLevel(a, p), n)
  <1> DEFINE k == a.created
             old == DOMAIN a.columns
             columns == [l \in old \cup {k} |-> IF l = k THEN <<>> ELSE a.columns[l]]
             order == InsertAt(a.order, p, k)
  <1>1. InsertLevel(a, p) = [columns |-> columns, order |-> order, created |-> k + 1]
    BY DEF InsertLevel
  <1>2. k \in Nat /\ k \notin old /\ k # NotRanked
    BY ColumnsAssumption DEF Arranged, Fresh
  <1>3. /\ DOMAIN columns = old \cup {k} /\ columns[k] = <<>>
        /\ \A l \in old : columns[l] = a.columns[l]
    BY <1>2
  <1>4. ToSet(columns[k]) = {}
    BY <1>3 DEF ToSet
  <1>5. Placed(columns, n)
    <2>1. columns \in [DOMAIN columns -> Seq(1..n)]
      <3>1. \A l \in old : a.columns[l] \in Seq(1..n)
        BY DEF Arranged, Placed
      <3>2. <<>> \in Seq(1..n)
        OBVIOUS
      <3>3. \A l \in old \cup {k} : columns[l] \in Seq(1..n)
        BY <1>3, <3>1, <3>2
      <3> QED
        BY <1>3, <3>3
    <2> HIDE DEF columns
    <2>2. \A l \in DOMAIN columns : Distinct(columns[l])
      BY <1>3 DEF Arranged, Placed, Distinct
    <2>3. \A l, m \in DOMAIN columns :
                l # m => ToSet(columns[l]) \cap ToSet(columns[m]) = {}
      BY <1>3, <1>4 DEF Arranged, Placed
    <2>4. \A c \in 1..n : \E l \in DOMAIN columns : c \in ToSet(columns[l])
      BY <1>3 DEF Arranged, Placed
    <2> QED
      BY <2>1, <2>2, <2>3, <2>4 DEF Placed
  <1>6. Ordered(columns, order)
    <2>1. /\ a.order \in Seq(old \cup {k}) /\ Distinct(a.order)
          /\ k \notin ToSet(a.order) /\ p \in 1..Len(a.order) + 1
          /\ ToSet(a.order) = old /\ a.order # <<>>
          /\ a.order[Len(a.order)] = NotRanked
      BY <1>2 DEF Arranged, Ordered
    <2>2. /\ order \in Seq(old \cup {k}) /\ Distinct(order)
          /\ ToSet(order) = old \cup {k}
      BY <2>1, InsertAtMembers
    <2>3. /\ Len(order) = Len(a.order) + 1
          /\ order[Len(a.order) + 1] = a.order[Len(a.order)]
      <3>1. /\ Len(order) = Len(a.order) + 1
            /\ \A j \in 1..Len(a.order) + 1 :
                    order[j] = IF j < p THEN a.order[j]
                               ELSE IF j = p THEN k ELSE a.order[j - 1]
        <4>1. /\ a.order \in Seq(old \cup {k}) /\ k \in old \cup {k}
              /\ p \in 1..Len(a.order) + 1
          BY <2>1
        <4>2. \A S : \A q \in Seq(S) : \A h \in 1..Len(q) + 1 : \A e \in S :
                /\ Len(InsertAt(q, h, e)) = Len(q) + 1
                /\ \A j \in 1..Len(q) + 1 :
                    InsertAt(q, h, e)[j] =
                        IF j < h THEN q[j] ELSE IF j = h THEN e ELSE q[j - 1]
          BY InsertAtElements
        <4> QED
          BY <4>1, <4>2
      <3>2. Len(a.order) \in Nat /\ p \in 1..Len(a.order)
        BY <2>1
      <3> HIDE DEF order
      <3> QED
        BY <3>1, <3>2
    <2> HIDE DEF order, columns
    <2>4. order # <<>>
      BY <2>1, <2>2, <2>3
    <2> QED
      BY <1>3, <2>1, <2>2, <2>3, <2>4 DEF Ordered
  <1>7. Fresh(columns, k + 1)
    <2> HIDE DEF columns
    <2> QED
      BY <1>2, <1>3 DEF Arranged, Fresh
  <1> HIDE DEF columns, order
  <1> QED
    BY <1>1, <1>5, <1>6, <1>7 DEF Arranged

(* An empty level holds no candidate; NotRanked stays the last column.     *)
LEMMA DeleteLevelArranged ==
    ASSUME NEW n \in Nat, NEW a, Arranged(a, n), NEW p \in DOMAIN a.order,
           a.order[p] # NotRanked, a.columns[a.order[p]] = <<>>
    PROVE  Arranged(DeleteLevel(a, p), n)
  <1> DEFINE k == a.order[p]
             left == DOMAIN a.columns \ {k}
             columns == [l \in left |-> a.columns[l]]
             order == RemoveAt(a.order, p)
  <1>1. DeleteLevel(a, p) =
            [columns |-> columns, order |-> order, created |-> a.created]
    <2>1. DeleteLevel(a, p) = [a EXCEPT !.columns = columns, !.order = order]
      BY DEF DeleteLevel
    <2>2. a = [columns |-> a.columns, order |-> a.order, created |-> a.created]
      BY DEF Arranged
    <2> HIDE DEF columns, order
    <2> QED
      BY <2>1, <2>2
  <1>2. DOMAIN columns = left /\ \A l \in left : columns[l] = a.columns[l]
    OBVIOUS
  <1>3. ToSet(a.columns[k]) = {}
    BY DEF ToSet
  <1>4. Placed(columns, n)
    <2>1. columns \in [DOMAIN columns -> Seq(1..n)]
      BY <1>2 DEF Arranged, Placed
    <2> HIDE DEF columns, k
    <2>2. \A c \in 1..n : \E l \in left : c \in ToSet(a.columns[l])
      BY <1>3 DEF Arranged, Placed
    <2> QED
      BY <1>2, <2>1, <2>2 DEF Arranged, Placed
  <1>5. Ordered(columns, order)
    <2>1. /\ a.order \in Seq(DOMAIN a.columns) /\ Distinct(a.order)
          /\ ToSet(a.order) = DOMAIN a.columns /\ a.order # <<>>
          /\ a.order[Len(a.order)] = NotRanked
      BY DEF Arranged, Ordered
    <2>2. Distinct(order) /\ ToSet(order) = left
      BY <2>1, RemoveAtMembers
    <2>3. /\ Len(a.order) \in Nat \ {0} /\ p \in 1..Len(a.order)
          /\ p # Len(a.order)
      BY <2>1
    <2>4. /\ Len(order) = Len(a.order) - 1 /\ Len(order) > 0
          /\ order[Len(order)] = NotRanked
          /\ order \in Seq(DOMAIN a.columns)
      BY <2>1, <2>3, RemoveAtElements
    <2> HIDE DEF order, columns, left
    <2>5. order # <<>> /\ order \in Seq(left)
      BY <2>2, <2>4 DEF ToSet
    <2> QED
      BY <1>2, <2>2, <2>4, <2>5 DEF Ordered
  <1>6. Fresh(columns, a.created)
    BY <1>2 DEF Arranged, Fresh
  <1> HIDE DEF columns, order
  <1> QED
    BY <1>1, <1>4, <1>5, <1>6 DEF Arranged

(* The columns in which a voter finds the candidates.                      *)
LEMMA InitialArranged ==
    ASSUME NEW n \in Nat
    PROVE  Arranged(LevelsOf(n), n) /\ Arranged(RankingOf(n), n)
  <1> USE ColumnsAssumption
  <1> DEFINE all == [c \in 1..n |-> c]
  <1>1. all \in Seq(1..n) /\ Distinct(all) /\ ToSet(all) = 1..n
    BY DEF Distinct, ToSet
  <1>2. <<>> \in Seq(1..n) /\ Distinct(<<>>) /\ ToSet(<<>>) = {}
    BY DEF Distinct, ToSet
  <1> HIDE DEF all
  <1>3. ASSUME NEW K, NotRanked \in K
        PROVE  Placed([k \in K |-> IF k = NotRanked THEN all ELSE <<>>], n)
    BY <1>1, <1>2, <1>3 DEF Placed
  <1>4. Arranged(LevelsOf(n), n)
    <2> DEFINE K == {0, 1, NotRanked}
               columns == [k \in K |-> IF k = NotRanked THEN all ELSE <<>>]
               order == <<0, 1, NotRanked>>
    <2>1. LevelsOf(n) = [columns |-> columns, order |-> order, created |-> 3]
      BY DEF LevelsOf, all
    <2>2. Placed(columns, n)
      BY <1>3
    <2>3. /\ order \in Seq(K) /\ order # <<>> /\ Distinct(order)
          /\ order[Len(order)] = NotRanked /\ ToSet(order) = K
      BY DEF Distinct, ToSet
    <2>4. Ordered(columns, order)
      BY <2>3 DEF Ordered
    <2>5. Fresh(columns, 3)
      BY DEF Fresh
    <2> HIDE DEF columns, order
    <2> QED
      BY <2>1, <2>2, <2>4, <2>5 DEF Arranged
  <1>5. Arranged(RankingOf(n), n)
    <2> DEFINE K == {Ranked, NotRanked}
               columns == [k \in K |-> IF k = NotRanked THEN all ELSE <<>>]
               order == <<Ranked, NotRanked>>
    <2>1. RankingOf(n) = [columns |-> columns, order |-> order, created |-> 2]
      BY DEF RankingOf, all
    <2>2. Placed(columns, n)
      BY <1>3
    <2>3. /\ order \in Seq(K) /\ order # <<>> /\ Distinct(order)
          /\ order[Len(order)] = NotRanked /\ ToSet(order) = K
      BY DEF Distinct, ToSet
    <2>4. Ordered(columns, order)
      BY <2>3 DEF Ordered
    <2>5. Fresh(columns, 2)
      BY DEF Fresh
    <2> HIDE DEF columns, order
    <2> QED
      BY <2>1, <2>2, <2>4, <2>5 DEF Arranged
  <1> QED
    BY <1>4, <1>5

-----------------------------------------------------------------------------
(* The page.                                                               *)

(* The alerts that may be shown.  Those about grades may be shown while the *)
(* blank vote is selected, but must be right when it is not any more.      *)
MayAlert(i) ==
    CASE TypeOf(i) = "MAJORITY_JUDGMENT" ->
            {<<"grade", c>> : c \in {d \in 1..Size(i) : votes[i][d] = None}}
      [] TypeOf(i) \in Preferential -> {}
      [] OTHER -> AlertsOf(election[i], votes[i])

VoteInv ==
    /\ TypeOK
    /\ \A i \in Questions :
            TypeOf(i) \in Preferential => Arranged(arrangement[i], Size(i))
    /\ EarlierQuestionsValid
    /\ \A i \in Questions : alerts[i] \subseteq MayAlert(i)

-----------------------------------------------------------------------------
LEMMA QuestionFacts ==
    ASSUME TypeOK
    PROVE  /\ Len(election) \in Nat
           /\ Questions = 1..Len(election)
           /\ current \in 1..Len(election)
           /\ \A i \in Questions : election[i] \in Descriptions /\ Size(i) \in Nat
  <1>1. election \in Seq(Descriptions)
    BY ElectionsAssumption DEF TypeOK
  <1>2. Questions = 1..Len(election) /\ Len(election) \in Nat
    BY <1>1 DEF Questions
  <1>3. \A i \in Questions : election[i] \in Descriptions
    BY <1>1, <1>2
  <1> QED
    BY <1>2, <1>3 DEF TypeOK, Size, Descriptions

(* What AlertsOf raises on graded and on preferential questions, and the   *)
(* kinds of alerts there are.                                              *)
LEMMA AlertKinds ==
    ASSUME NEW q, NEW vote
    PROVE  /\ QuestionType(q) = "MAJORITY_JUDGMENT" =>
                AlertsOf(q, vote) =
                    IF VotedBlank(q, vote) THEN {}
                    ELSE {<<"grade", c>> : c \in {d \in 1..q.n : vote[d] = None}}
           /\ QuestionType(q) \in Preferential => AlertsOf(q, vote) = {}
           /\ AlertsOf(q, vote) \subseteq
                {<<"grade", c>> : c \in 1..q.n}
                \cup {<<"both">>, <<"more">>, <<"less">>}
  <1>1. CASE QuestionType(q) = "MAJORITY_JUDGMENT"
    BY <1>1 DEF AlertsOf, Preferential
  <1>2. CASE QuestionType(q) \in Preferential
    BY <1>2 DEF AlertsOf, Preferential
  <1>3. CASE QuestionType(q) = "CLASSIC"
    BY <1>3 DEF AlertsOf, Preferential
  <1>4. CASE QuestionType(q) = "LISTS"
    BY <1>4 DEF AlertsOf, Preferential
  <1>5. CASE QuestionType(q) \notin {"MAJORITY_JUDGMENT", "CLASSIC", "LISTS"}
    BY <1>5 DEF AlertsOf, Preferential
  <1> QED
    BY <1>1, <1>2, <1>3, <1>4, <1>5

(* An arrangement has the three fields of its record.                      *)
LEMMA ArrangedFields ==
    ASSUME NEW a, NEW n, Arranged(a, n)
    PROVE  DOMAIN a = {"columns", "order", "created"}
  BY DEF Arranged

LEMMA VoteInit == Init => VoteInv
  <1> SUFFICES ASSUME Init PROVE VoteInv
    OBVIOUS
  <1>1. /\ election \in Elections /\ election # <<>>
        /\ current = 1 /\ submitted = None
        /\ votes = [i \in Questions |-> InitialVote(election[i])]
        /\ arrangement = [i \in Questions |-> InitialArrangement(election[i])]
        /\ alerts = [i \in Questions |-> {}]
    BY DEF Init
  <1>2. election \in Seq(Descriptions)
    BY <1>1, ElectionsAssumption
  <1>3. /\ Len(election) \in Nat /\ Len(election) # 0
        /\ Questions = 1..Len(election)
    BY <1>1, <1>2 DEF Questions
  <1>4. \A i \in Questions : Size(i) \in Nat
    <2>1. \A i \in Questions : election[i] \in Descriptions
      BY <1>2, <1>3
    <2> QED
      BY <2>1 DEF Size, Descriptions
  <1>5. \A i \in Questions :
            TypeOf(i) \in Preferential => Arranged(arrangement[i], Size(i))
    BY <1>1, <1>4, InitialArranged
       DEF InitialArrangement, Preferential, TypeOf, Size
  <1>6. \A i \in Questions : TypeOf(i) # "LISTS" => DOMAIN votes[i] = 1..Size(i) + 1
    BY <1>1 DEF InitialVote, TypeOf, Size
  <1>7. TypeOK
    BY <1>1, <1>3, <1>5, <1>6, ArrangedFields DEF TypeOK
  <1>8. EarlierQuestionsValid
    BY <1>1, <1>3 DEF EarlierQuestionsValid
  <1> QED
    BY <1>1, <1>5, <1>7, <1>8 DEF VoteInv

(* An answer to the current question, with a new arrangement or not.       *)
LEMMA Answered ==
    ASSUME VoteInv, submitted = None,
           UNCHANGED <<election, current, submitted>>,
           NEW vote, SaveAll(vote),
           TypeOf(current) # "LISTS" => DOMAIN vote = 1..Size(current) + 1,
           DOMAIN arrangement' = Questions,
           \A i \in Questions : i # current => arrangement'[i] = arrangement[i],
           TypeOf(current) \in Preferential =>
                Arranged(arrangement'[current], Size(current))
    PROVE  VoteInv'
  <1>1. /\ votes' = [votes EXCEPT ![current] = vote]
        /\ alerts' = [alerts EXCEPT ![current] = {}]
    BY DEF SaveAll
  <1>2. /\ DOMAIN votes = Questions /\ DOMAIN arrangement = Questions
        /\ DOMAIN alerts = Questions /\ current \in Questions
        /\ Questions' = Questions
    BY DEF VoteInv, TypeOK, Questions
  <1>3. \A i \in Questions :
            /\ votes'[i] = IF i = current THEN vote ELSE votes[i]
            /\ alerts'[i] = IF i = current THEN {} ELSE alerts[i]
    BY <1>1, <1>2
  <1>4. /\ DOMAIN votes' = Questions /\ DOMAIN arrangement' = Questions
        /\ DOMAIN alerts' = Questions
    BY <1>1, <1>2
  <1>5. \A i \in Questions : TypeOf(i)' = TypeOf(i) /\ Size(i)' = Size(i)
    BY DEF TypeOf, Size
  <1>6. \A i \in Questions' :
            TypeOf(i)' \in Preferential => Arranged(arrangement'[i], Size(i)')
    BY <1>2, <1>3, <1>5 DEF VoteInv
  <1>7. TypeOK'
    <2>1. \A i \in Questions :
            /\ TypeOf(i) # "LISTS" => DOMAIN votes'[i] = 1..Size(i) + 1
            /\ TypeOf(i) \in Preferential =>
                    DOMAIN arrangement'[i] = {"columns", "order", "created"}
            /\ alerts'[i] \subseteq {<<"grade", c>> : c \in 1..Size(i)}
                                \cup {<<"both">>, <<"more">>, <<"less">>}
      BY <1>2, <1>3, ArrangedFields DEF VoteInv, TypeOK
    <2> QED
      BY <1>2, <1>4, <1>5, <2>1 DEF VoteInv, TypeOK
  <1>8. EarlierQuestionsValid'
    <2>1. \A i \in Questions : i < current => i # current
      BY QuestionFacts DEF VoteInv
    <2> QED
      BY <1>2, <1>3, <2>1 DEF VoteInv, EarlierQuestionsValid
  <1>9. \A i \in Questions' : alerts'[i] \subseteq MayAlert(i)'
    <2>1. \A i \in Questions : i # current => MayAlert(i)' = MayAlert(i)
      BY <1>3, <1>5 DEF MayAlert
    <2> QED
      BY <1>2, <1>3, <2>1 DEF VoteInv
  <1> QED
    BY <1>6, <1>7, <1>8, <1>9 DEF VoteInv

(* The same for an answer that leaves the arrangement.                     *)
LEMMA AnsweredOnly ==
    ASSUME VoteInv, submitted = None,
           UNCHANGED <<election, current, arrangement, submitted>>,
           NEW vote, SaveAll(vote),
           TypeOf(current) # "LISTS" => DOMAIN vote = 1..Size(current) + 1
    PROVE  VoteInv'
  <1>1. current \in Questions /\ DOMAIN arrangement' = Questions
    BY DEF VoteInv, TypeOK
  <1>2. TypeOf(current) \in Preferential =>
            Arranged(arrangement'[current], Size(current))
    BY <1>1 DEF VoteInv
  <1> QED
    BY <1>1, <1>2, Answered

(* Saving the vote of one candidate keeps the cells of the vote.           *)
LEMMA SaveCandidateAnswers ==
    ASSUME VoteInv, submitted = None,
           UNCHANGED <<election, current, arrangement, submitted>>,
           NEW c, NEW value, SaveCandidate(c, value)
    PROVE  VoteInv'
  <1>1. TypeOf(current) # "LISTS" => DOMAIN votes[current] = 1..Size(current) + 1
    BY DEF VoteInv, TypeOK
  <1>2. DOMAIN [votes[current] EXCEPT ![c] = value] = DOMAIN votes[current]
    OBVIOUS
  <1> QED
    BY <1>1, <1>2, AnsweredOnly DEF SaveCandidate

(* A candidate is moved: the arrangement stays one, and the vote saved has *)
(* the cells of the question.                                              *)
LEMMA MoveAnswers ==
    ASSUME VoteInv, submitted = None, TypeOf(current) \in Preferential,
           UNCHANGED <<election, current, submitted>>,
           NEW from \in DOMAIN ui.columns, NEW to \in DOMAIN ui.columns,
           NEW i \in DOMAIN ui.columns[from], NEW k \in Nat \ {0},
           arrangement' = [arrangement EXCEPT ![current] = Move(ui, from, i, to, k)],
           NEW vote, SaveAll(vote), DOMAIN vote = 1..Size(current) + 1
    PROVE  VoteInv'
  <1>1. /\ current \in Questions /\ DOMAIN arrangement = Questions
        /\ Size(current) \in Nat
    BY QuestionFacts DEF VoteInv, TypeOK
  <1>2. Arranged(Move(ui, from, i, to, k), Size(current))
    BY <1>1, MoveArranged DEF VoteInv, ui
  <1> QED
    BY <1>1, <1>2, Answered

(* The places in a column, and the one after them.                         *)
LEMMA Places ==
    ASSUME VoteInv, TypeOf(current) \in Preferential, NEW to \in DOMAIN ui.columns
    PROVE  /\ DOMAIN ui.columns[to] \subseteq Nat \ {0}
           /\ Len(ui.columns[to]) \in Nat
  <1>1. current \in Questions
    BY DEF VoteInv, TypeOK
  <1>2. Placed(ui.columns, Size(current))
    BY <1>1 DEF VoteInv, ui, Arranged
  <1>3. ui.columns[to] \in Seq(1..Size(current))
    BY <1>2 DEF Placed
  <1> QED
    BY <1>3

LEMMA RankAnswers ==
    ASSUME VoteInv, submitted = None, TypeOf(current) \in Preferential,
           NEW from \in DOMAIN ui.columns, NEW to \in DOMAIN ui.columns,
           NEW i \in DOMAIN ui.columns[from], NEW k \in Nat \ {0},
           Rank(from, i, to, k)
    PROVE  VoteInv'
  <1> DEFINE vote == Rebuilt(VoteByPlace(Move(ui, from, i, to, k), Size(current)))
  <1>1. DOMAIN vote = 1..Size(current) + 1
    BY DEF Rebuilt
  <1> HIDE DEF vote
  <1>2. /\ arrangement' = [arrangement EXCEPT ![current] = Move(ui, from, i, to, k)]
        /\ SaveAll(vote) /\ UNCHANGED <<election, current, submitted>>
    BY DEF Rank, vote
  <1> QED
    BY <1>1, <1>2, MoveAnswers

-----------------------------------------------------------------------------
(* Levels are added and removed.                                           *)
LEMMA LevelAnswers ==
    ASSUME VoteInv, NEW p, AddLevel(p) \/ RemoveLevel(p)
    PROVE  VoteInv'
  <1>1. /\ submitted = None /\ TypeOf(current) \in Preferential
        /\ p \in DOMAIN ui.order /\ UNCHANGED <<election, current, submitted>>
    BY DEF AddLevel, RemoveLevel, Arranging, Answering, Preferential
  <1>2. /\ current \in Questions /\ DOMAIN arrangement = Questions
        /\ Size(current) \in Nat
    BY QuestionFacts DEF VoteInv, TypeOK
  <1>3. Arranged(ui, Size(current))
    BY <1>1, <1>2 DEF VoteInv, ui
  <1>4. PICK a : /\ Arranged(a, Size(current))
                 /\ arrangement' = [arrangement EXCEPT ![current] = a]
                 /\ SaveAll(Rebuilt(VoteByLevel(a, Size(current))))
    <2>1. CASE AddLevel(p)
      BY <1>1, <1>2, <1>3, <2>1, InsertLevelArranged DEF AddLevel
    <2>2. CASE RemoveLevel(p)
      BY <1>1, <1>2, <1>3, <2>2, DeleteLevelArranged DEF RemoveLevel
    <2> QED
      BY <2>1, <2>2
  <1>5. DOMAIN Rebuilt(VoteByLevel(a, Size(current))) = 1..Size(current) + 1
    BY DEF Rebuilt
  <1> QED
    BY <1>1, <1>2, <1>4, <1>5, Answered

(* The blank vote is no candidate: the alerts about grades stay right.     *)
LEMMA BlankAnswers ==
    ASSUME VoteInv, ToggleBlank
    PROVE  VoteInv'
  <1>1. /\ submitted = None
        /\ TypeOf(current) \in {"MAJORITY_JUDGMENT"} \cup Preferential
        /\ UNCHANGED <<election, current, arrangement, alerts, submitted>>
    BY DEF ToggleBlank, Answering, SaveBlank
  <1>2. PICK value :
            votes' = [votes EXCEPT ![current][Size(current) + 1] = value]
    BY DEF ToggleBlank, SaveBlank
  <1>3. /\ DOMAIN votes = Questions /\ current \in Questions
        /\ Size(current) \in Nat /\ Questions' = Questions
        /\ \A i \in Questions : i < current => i # current
    BY <1>1, QuestionFacts DEF VoteInv, TypeOK, Questions
  <1>4. /\ DOMAIN votes' = Questions
        /\ \A i \in Questions : i # current => votes'[i] = votes[i]
        /\ DOMAIN votes'[current] = DOMAIN votes[current]
    BY <1>2, <1>3
  <1>5. \A c \in 1..Size(current) : votes'[current][c] = votes[current][c]
    <2>1. votes'[current] = [votes[current] EXCEPT ![Size(current) + 1] = value]
      BY <1>2, <1>3
    <2>2. TypeOf(current) # "LISTS"
      BY <1>1 DEF Preferential
    <2>3. DOMAIN votes[current] = 1..Size(current) + 1
      BY <1>3, <2>2 DEF VoteInv, TypeOK
    <2> QED
      BY <1>3, <2>1, <2>3
  <1>6. \A i \in Questions : TypeOf(i)' = TypeOf(i) /\ Size(i)' = Size(i)
    BY <1>1 DEF TypeOf, Size
  <1>7. TypeOK'
    BY <1>1, <1>3, <1>4, <1>6 DEF VoteInv, TypeOK
  <1>8. \A i \in Questions' :
            TypeOf(i)' \in Preferential => Arranged(arrangement'[i], Size(i)')
    BY <1>1, <1>3, <1>6 DEF VoteInv
  <1>9. EarlierQuestionsValid'
    BY <1>1, <1>3, <1>4 DEF VoteInv, EarlierQuestionsValid
  <1>10. \A i \in Questions' : alerts'[i] \subseteq MayAlert(i)'
    <2>1. \A i \in Questions : i # current => MayAlert(i)' = MayAlert(i)
      BY <1>1, <1>4, <1>6 DEF MayAlert
    <2>2. MayAlert(current)' = MayAlert(current)
      BY <1>1, <1>3, <1>5, <1>6 DEF MayAlert, Preferential
    <2> QED
      BY <1>1, <1>3, <2>1, <2>2 DEF VoteInv
  <1> QED
    BY <1>7, <1>8, <1>9, <1>10 DEF VoteInv

(* The question that is left has passed its checks, or its alerts are      *)
(* those found now and earlier, which are the same.                        *)
LEMMA NextKeeps ==
    ASSUME VoteInv, OnClickNext
    PROVE  VoteInv'
  <1> DEFINE found == AlertsOf(election[current], votes[current])
  <1>1. /\ UNCHANGED <<election, votes, arrangement>> /\ submitted = None
        /\ \/ /\ found # {}
              /\ alerts' = [alerts EXCEPT ![current] = @ \cup found]
              /\ UNCHANGED <<current, submitted>>
           \/ /\ found = {}
              /\ alerts' = [alerts EXCEPT ![current] = {}]
              /\ \/ /\ current < Len(election)
                    /\ current' = current + 1
                    /\ UNCHANGED submitted
                 \/ /\ ~(current < Len(election))
                    /\ submitted' = Convert(election, votes)
                    /\ UNCHANGED current
    BY DEF OnClickNext
  <1>2. /\ Len(election) \in Nat /\ Questions = 1..Len(election)
        /\ current \in Questions /\ DOMAIN alerts = Questions
        /\ Questions' = Questions
    BY <1>1, QuestionFacts DEF VoteInv, TypeOK, Questions
  <1>3. \A i \in Questions :
            TypeOf(i)' = TypeOf(i) /\ Size(i)' = Size(i) /\ MayAlert(i)' = MayAlert(i)
    BY <1>1 DEF TypeOf, Size, MayAlert
  <1>4. found \subseteq MayAlert(current)
    BY AlertKinds DEF MayAlert, TypeOf, Size, Preferential
  <1>5. \A i \in Questions : MayAlert(i) \subseteq
            {<<"grade", c>> : c \in 1..Size(i)} \cup {<<"both">>, <<"more">>, <<"less">>}
    BY AlertKinds DEF MayAlert, TypeOf, Size, Preferential
  <1> HIDE DEF found
  <1>6. /\ DOMAIN alerts' = Questions
        /\ \A i \in Questions : alerts'[i] \subseteq MayAlert(i)
    BY <1>1, <1>2, <1>4 DEF VoteInv
  <1>7. current' \in Questions
    BY <1>1, <1>2
  <1>8. submitted' # None => DOMAIN submitted' = Questions
    BY <1>1 DEF Convert, Questions
  <1>9. TypeOK'
    BY <1>1, <1>2, <1>3, <1>5, <1>6, <1>7, <1>8 DEF VoteInv, TypeOK
  <1>10. EarlierQuestionsValid'
    <2>1. CASE found # {}
      BY <1>1, <1>2, <2>1 DEF VoteInv, EarlierQuestionsValid
    <2>2. CASE found = {}
      <3>1. \A i \in Questions :
                i < current' \/ submitted' # None => i < current \/ i = current
        BY <1>1, <1>2, <2>2
      <3> QED
        BY <1>1, <1>2, <2>2, <3>1 DEF VoteInv, EarlierQuestionsValid, found
    <2> QED
      BY <2>1, <2>2
  <1>11. \A i \in Questions' :
            TypeOf(i)' \in Preferential => Arranged(arrangement'[i], Size(i)')
    BY <1>1, <1>2, <1>3 DEF VoteInv
  <1> QED
    BY <1>2, <1>3, <1>6, <1>9, <1>10, <1>11 DEF VoteInv

(* From the review the page of questions starts again.                     *)
LEMMA BackKeeps ==
    ASSUME VoteInv, BackFromReview
    PROVE  VoteInv'
  <1>1. /\ election' = election /\ current' = 1 /\ submitted' = None
        /\ votes' = [i \in Questions |-> InitialVote(election[i])]
        /\ arrangement' = [i \in Questions |-> InitialArrangement(election[i])]
        /\ alerts' = [i \in Questions |-> {}]
    BY DEF BackFromReview
  <1>2. /\ Questions = 1..Len(election) /\ Len(election) \in Nat
        /\ current \in Questions /\ Questions' = Questions
        /\ \A i \in Questions : Size(i) \in Nat
    BY <1>1, QuestionFacts DEF VoteInv, TypeOK, Questions
  <1>3. \A i \in Questions : TypeOf(i)' = TypeOf(i) /\ Size(i)' = Size(i)
    BY <1>1 DEF TypeOf, Size
  <1>4. \A i \in Questions :
            TypeOf(i) \in Preferential => Arranged(arrangement'[i], Size(i))
    BY <1>1, <1>2, InitialArranged DEF InitialArrangement, Preferential, TypeOf, Size
  <1>5. \A i \in Questions :
            TypeOf(i) # "LISTS" => DOMAIN votes'[i] = 1..Size(i) + 1
    BY <1>1 DEF InitialVote, TypeOf, Size
  <1>6. TypeOK'
    BY <1>1, <1>2, <1>3, <1>4, <1>5, ArrangedFields DEF VoteInv, TypeOK
  <1>7. EarlierQuestionsValid'
    BY <1>1, <1>2 DEF EarlierQuestionsValid
  <1> QED
    BY <1>1, <1>2, <1>3, <1>4, <1>6, <1>7 DEF VoteInv

LEMMA VoteStep ==
    ASSUME VoteInv, [Next]_vars
    PROVE  VoteInv'
  <1>1. TypeOf(current) # "LISTS" => DOMAIN votes[current] = 1..Size(current) + 1
    BY DEF VoteInv, TypeOK
  <1>2. ASSUME NEW c, ClickCheckbox(c)
        PROVE  VoteInv'
    BY <1>2, SaveCandidateAnswers DEF ClickCheckbox, Answering
  <1>3. ASSUME NEW c, ClickRadio(c)
        PROVE  VoteInv'
    <2> DEFINE vote == [d \in DOMAIN votes[current] |-> IF d = c THEN 1 ELSE None]
    <2>1. /\ SaveAll(vote) /\ submitted = None
          /\ UNCHANGED <<election, current, arrangement, submitted>>
      BY <1>3 DEF ClickRadio, Answering, SaveOnly
    <2>2. DOMAIN vote = DOMAIN votes[current]
      OBVIOUS
    <2> HIDE DEF vote
    <2> QED
      BY <1>1, <2>1, <2>2, AnsweredOnly
  <1>4. ASSUME NEW c, NEW text, TypeNumber(c, text)
        PROVE  VoteInv'
    BY <1>4, SaveCandidateAnswers DEF TypeNumber, Answering
  <1>5. ASSUME NEW c, NEW grade, SelectGrade(c, grade)
        PROVE  VoteInv'
    BY <1>5, SaveCandidateAnswers DEF SelectGrade, Answering
  <1>6. CASE ToggleBlank
    BY <1>6, BlankAnswers
  <1>7. ASSUME NEW l, NEW list, SaveList(l, list), Answering({"LISTS"}),
               UNCHANGED <<election, current, arrangement, submitted>>
        PROVE  VoteInv'
    BY <1>7, AnsweredOnly DEF SaveList, Answering
  <1>8. ASSUME NEW l, ClickList(l)
        PROVE  VoteInv'
    BY <1>7, <1>8 DEF ClickList
  <1>9. ASSUME NEW l, NEW c, ClickListCandidate(l, c)
        PROVE  VoteInv'
    BY <1>7, <1>9 DEF ClickListCandidate
  <1>10. ASSUME NEW from, NEW i, NEW to, NEW k, MoveToLevel(from, i, to, k)
         PROVE  VoteInv'
    <2>1. /\ submitted = None /\ TypeOf(current) \in Preferential
          /\ TypeOf(current) # "LISTS"
          /\ from \in DOMAIN ui.columns /\ to \in DOMAIN ui.columns
          /\ i \in DOMAIN ui.columns[from]
          /\ UNCHANGED <<election, current, submitted>>
          /\ arrangement' = [arrangement EXCEPT ![current] = Move(ui, from, i, to, k)]
      BY <1>10 DEF MoveToLevel, Arranging, Answering, Preferential
    <2>2. k \in Nat \ {0}
      BY <1>10, <2>1, Places DEF MoveToLevel
    <2>3. PICK c, value : SaveCandidate(c, value)
      BY <1>10 DEF MoveToLevel
    <2>4. DOMAIN [votes[current] EXCEPT ![c] = value] = 1..Size(current) + 1
      BY <1>1, <2>1
    <2> QED
      BY <2>1, <2>2, <2>3, <2>4, MoveAnswers DEF SaveCandidate
  <1>11. ASSUME NEW from, NEW i, NEW to, NEW k, DragToRank(from, i, to, k)
         PROVE  VoteInv'
    <2>1. /\ submitted = None /\ TypeOf(current) \in Preferential
          /\ from \in DOMAIN ui.columns /\ to \in DOMAIN ui.columns
          /\ i \in DOMAIN ui.columns[from]
          /\ Rank(from, i, to, k)
      BY <1>11 DEF DragToRank, Arranging, Answering, Preferential
    <2>2. k \in Nat \ {0}
      BY <1>11, <2>1, Places DEF DragToRank
    <2> QED
      BY <2>1, <2>2, RankAnswers
  <1>12. ASSUME NEW from, NEW i, NEW to \in DOMAIN ui.columns, NEW k,
                SelectRank(from, i, to, k)
         PROVE  VoteInv'
    <2>1. /\ submitted = None /\ TypeOf(current) \in Preferential
          /\ from \in DOMAIN ui.columns /\ i \in DOMAIN ui.columns[from]
          /\ Rank(from, i, to, k)
      BY <1>12 DEF SelectRank, Arranging, Answering, Preferential
    <2>2. k \in Nat \ {0}
      <3>1. k = Len(ui.columns[to]) + 1 \/ k \in DOMAIN ui.columns[to]
        BY <1>12 DEF SelectRank, RankedPlaces
      <3> QED
        BY <2>1, <3>1, Places
    <2> QED
      BY <2>1, <2>2, RankAnswers
  <1>13. ASSUME NEW p, AddLevel(p) \/ RemoveLevel(p)
         PROVE  VoteInv'
    BY <1>13, LevelAnswers
  <1>14. CASE OnClickPrevious
    <2>1. /\ UNCHANGED <<election, votes, arrangement, alerts, submitted>>
          /\ current > 1 /\ current' = current - 1 /\ submitted = None
      BY <1>14 DEF OnClickPrevious
    <2>2. current \in Questions /\ Len(election) \in Nat /\ Questions = 1..Len(election)
      BY QuestionFacts DEF VoteInv, TypeOK
    <2>3. current' \in Questions /\ \A i \in Questions : i < current' => i < current
      BY <2>1, <2>2
    <2>4. TypeOK'
      BY <2>1, <2>3 DEF VoteInv, TypeOK, Questions, TypeOf, Size
    <2>5. EarlierQuestionsValid'
      BY <2>1, <2>3 DEF VoteInv, EarlierQuestionsValid, Questions
    <2> QED
      BY <2>1, <2>4, <2>5 DEF VoteInv, Questions, TypeOf, Size, MayAlert
  <1>15. CASE OnClickNext
    BY <1>15, NextKeeps
  <1>16. CASE BackFromReview
    BY <1>16, BackKeeps
  <1>17. CASE UNCHANGED vars
    BY <1>17 DEF vars, VoteInv, TypeOK, EarlierQuestionsValid, Questions, TypeOf,
                 Size, MayAlert
  <1> QED
    BY <1>2, <1>3, <1>4, <1>5, <1>6, <1>8, <1>9, <1>10, <1>11, <1>12, <1>13, <1>14,
       <1>15, <1>16, <1>17 DEF Next

-----------------------------------------------------------------------------
(* The inductive invariant of the page of questions                        *)
(* (AllQuestionsWithPagination and the preferential lists).                *)
THEOREM VoteInvariant == Spec => []VoteInv
  <1>1. VoteInv /\ [Next]_vars => VoteInv'
    BY VoteStep
  <1> QED
    BY VoteInit, <1>1, PTL DEF Spec

(* The state of the page keeps its shapes.                                 *)
THEOREM VoteTypeCorrect == Spec => []TypeOK
  <1>1. VoteInv => TypeOK
    BY DEF VoteInv
  <1> QED
    BY VoteInvariant, <1>1, PTL

(* What has been passed stays valid, although the voter may go back: it is *)
(* the current question that is answered, and it has to be passed again.   *)
THEOREM PassedStaysValid == Spec => []EarlierQuestionsValid
  <1>1. VoteInv => EarlierQuestionsValid
    BY DEF VoteInv
  <1> QED
    BY VoteInvariant, <1>1, PTL

LEMMA PlacedOnce ==
    ASSUME NEW n, NEW a, Arranged(a, n)
    PROVE  OnceEach(a, n)
  <1>1. Placed(a.columns, n)
    BY DEF Arranged
  <1>2. \A k \in DOMAIN a.columns : a.columns[k] \in Seq(1..n)
    BY <1>1 DEF Placed
  <1>3. \A k \in DOMAIN a.columns : \A j \in DOMAIN a.columns[k] :
            a.columns[k][j] \in 1..n
    <2> SUFFICES ASSUME NEW k \in DOMAIN a.columns, NEW j \in DOMAIN a.columns[k]
                 PROVE  a.columns[k][j] \in 1..n
      OBVIOUS
    <2>1. a.columns[k] \in Seq(1..n)
      BY <1>2
    <2>2. \A S : \A s \in Seq(S) : \A m \in DOMAIN s : s[m] \in S
      OBVIOUS
    <2> QED
      BY <2>1, <2>2, Zenon
  <1>4. \A c \in 1..n : \E k \in DOMAIN a.columns :
            \E j \in DOMAIN a.columns[k] : a.columns[k][j] = c
    BY <1>1 DEF Placed, ToSet
  <1>5. \A k, l \in DOMAIN a.columns :
            \A j \in DOMAIN a.columns[k], m \in DOMAIN a.columns[l] :
                a.columns[k][j] = a.columns[l][m] => k = l /\ j = m
    <2> SUFFICES ASSUME NEW k \in DOMAIN a.columns, NEW l \in DOMAIN a.columns,
                        NEW j \in DOMAIN a.columns[k], NEW m \in DOMAIN a.columns[l],
                        a.columns[k][j] = a.columns[l][m]
                 PROVE  k = l /\ j = m
      OBVIOUS
    <2>1. /\ a.columns[k][j] \in ToSet(a.columns[k])
          /\ a.columns[l][m] \in ToSet(a.columns[l])
      BY DEF ToSet
    <2>2. k = l
      BY <1>1, <2>1 DEF Placed
    <2> QED
      BY <1>1, <2>2 DEF Placed, Distinct
  <1> QED
    BY <1>3, <1>4, <1>5 DEF OnceEach

(* No move, insertion or deletion loses or doubles a candidate.            *)
THEOREM CandidatesPlacedOnce == Spec => []CandidatesOnce
  <1>1. VoteInv => CandidatesOnce
    BY PlacedOnce DEF VoteInv, CandidatesOnce
  <1> QED
    BY VoteInvariant, <1>1, PTL

(* The columns stay in the order displayed, NotRanked the last.            *)
THEOREM ColumnsStayInOrder == Spec => []ColumnsInOrder
  <1>1. ASSUME NEW a, NEW n, Arranged(a, n)
        PROVE  /\ DOMAIN a.columns = {a.order[p] : p \in DOMAIN a.order}
               /\ \A p, q \in DOMAIN a.order : a.order[p] = a.order[q] => p = q
               /\ a.order[Len(a.order)] = NotRanked
    BY <1>1 DEF Arranged, Ordered, Distinct, ToSet
  <1>2. VoteInv => ColumnsInOrder
    BY <1>1 DEF VoteInv, ColumnsInOrder
  <1> QED
    BY VoteInvariant, <1>2, PTL

(* An alert that stays is still right.                                     *)
THEOREM AlertsUpToDate == Spec => []NoStaleAlert
  <1>1. VoteInv => NoStaleAlert
    BY AlertKinds DEF VoteInv, NoStaleAlert, MayAlert, TypeOf, Size
  <1> QED
    BY VoteInvariant, <1>1, PTL

-----------------------------------------------------------------------------
(* Removing the empty levels of a ballot                                   *)

(* Two ballots with the same candidates unranked, and the same order.      *)
SameOrder(b, x) ==
    /\ DOMAIN x = DOMAIN b
    /\ \A c \in DOMAIN b : x[c] = 0 <=> b[c] = 0
    /\ \A c, d \in DOMAIN b : x[c] < x[d] <=> b[c] < b[d]

AtMost(b, m) == \A c \in DOMAIN b : b[c] <= m

(* Nothing is above an empty level.                                        *)
Dense(b, level) ==
    (\E c \in DOMAIN b : b[c] = level) \/ \A c \in DOMAIN b : b[c] <= level

Lowered(b, x) ==
    /\ \E c \in DOMAIN b : x[c] < b[c]
    /\ \A m \in Nat : AtMost(b, m) => AtMost(x, m - 1)

(* One lowering keeps the order of the levels; it does nothing when the    *)
(* level has a candidate, or none is above it.                             *)
LEMMA LowerOne ==
    ASSUME NEW n \in Nat, NEW b \in [1..n -> Nat], NEW level \in Nat \ {0}
    PROVE  /\ Lower(b, level) \in [1..n -> Nat]
           /\ SameOrder(b, Lower(b, level))
           /\ \A c \in 1..n : Lower(b, level)[c] <= b[c]
           /\ \/ Lower(b, level) = b /\ Dense(b, level)
              \/ Lowered(b, Lower(b, level))
  <1>1. CASE \E c \in 1..n : b[c] = level
    BY <1>1 DEF Lower, SameOrder, Dense
  <1>2. CASE ~\E c \in 1..n : b[c] = level
    <2> DEFINE x == [c \in 1..n |-> IF b[c] > level THEN b[c] - 1 ELSE b[c]]
    <2>1. Lower(b, level) = x
      BY <1>2 DEF Lower
    <2>2. \A c \in 1..n : /\ b[c] \in Nat /\ b[c] # level
                          /\ x[c] = IF b[c] > level THEN b[c] - 1 ELSE b[c]
      BY <1>2
    <2>3. x \in [1..n -> Nat]
      BY <2>2
    <2> HIDE DEF x
    <2>4. SameOrder(b, x) /\ \A c \in 1..n : x[c] <= b[c]
      BY <2>2, <2>3 DEF SameOrder
    <2>5. CASE \E c \in 1..n : b[c] > level
      <3>1. Lowered(b, x)
        <4>1. PICK c \in 1..n : b[c] > level
          BY <2>5
        <4>2. DOMAIN b = 1..n /\ DOMAIN x = 1..n
          BY <2>3
        <4>3. x[c] < b[c]
          BY <2>2, <4>1
        <4>4. ASSUME NEW m \in Nat, AtMost(b, m), NEW d \in 1..n
              PROVE  x[d] <= m - 1
          <5>1. b[d] <= m /\ b[c] <= m
            BY <4>2, <4>4 DEF AtMost
          <5> QED
            BY <2>2, <4>1, <5>1
        <4> QED
          BY <4>2, <4>3, <4>4 DEF Lowered, AtMost
      <3> QED
        BY <2>1, <2>3, <2>4, <3>1
    <2>6. CASE ~\E c \in 1..n : b[c] > level
      <3>1. Dense(b, level) /\ \A c \in 1..n : x[c] = b[c]
        BY <2>2, <2>6 DEF Dense
      <3>2. x = b
        BY <2>3, <3>1
      <3> QED
        BY <2>1, <2>3, <2>4, <3>1, <3>2
    <2> QED
      BY <2>5, <2>6
  <1> QED
    BY <1>1, <1>2

(* The order is kept along a pass.                                         *)
LEMMA SameOrderTrans ==
    ASSUME NEW b, NEW x, NEW y, SameOrder(b, x), SameOrder(x, y)
    PROVE  SameOrder(b, y)
  BY DEF SameOrder

(* A pass keeps the order; it changes nothing only if no level is empty,   *)
(* and lowers the highest level otherwise.                                 *)
LEMMA LowerPass ==
    ASSUME NEW n \in Nat, NEW b \in [1..n -> Nat]
    PROVE  /\ LowerAll(b) \in [1..n -> Nat]
           /\ SameOrder(b, LowerAll(b))
           /\ \/ LowerAll(b) = b /\ \A level \in 1..n : Dense(b, level)
              \/ LowerAll(b) # b /\ Lowered(b, LowerAll(b))
  <1> DEFINE s == [k \in 1..n |-> n + 1 - k]
  <1>1. /\ s \in Seq(Nat) /\ Len(s) = n /\ \A k \in 1..n : s[k] = n + 1 - k
        /\ b \in Seq(Nat) /\ Len(b) = n /\ DOMAIN b = 1..n
    OBVIOUS
  <1>2. LowerAll(b) = Passes!Fold(b, s)
    BY <1>1 DEF LowerAll, FoldLeft, MapThenFoldSet, Max,
                Passes!Fold, Passes!FoldLeft, Passes!MapThenFoldSet, Passes!Max
  <1> HIDE DEF s
  <1>3. PICK h : /\ h[0] = b
                 /\ \A k \in 1..n : h[k] = Lower(h[k - 1], s[k])
                 /\ LowerAll(b) = h[n]
    <2>1. \E h : /\ h[0] = b
                 /\ \A k \in 1..Len(s) : h[k] = Lower(h[k - 1], s[k])
                 /\ Passes!Fold(b, s) = h[Len(s)]
      BY <1>1, Passes!FoldUnfolds
    <2> QED
      BY <1>1, <1>2, <2>1
  <1> DEFINE Good(k) ==
                 /\ h[k] \in [1..n -> Nat]
                 /\ SameOrder(b, h[k])
                 /\ \A c \in 1..n : h[k][c] <= b[c]
                 /\ \/ h[k] = b /\ \A j \in 1..k : Dense(b, n + 1 - j)
                    \/ Lowered(b, h[k])
             T == {k \in Nat : k <= n => Good(k)}
  <1>4. 0 \in T
    <2>1. SameOrder(b, b) /\ \A c \in 1..n : b[c] <= b[c]
      BY DEF SameOrder
    <2> QED
      BY <1>1, <1>3, <2>1
  <1>5. ASSUME NEW k \in Nat, k \in T
        PROVE  k + 1 \in T
    <2> SUFFICES ASSUME k + 1 <= n PROVE Good(k + 1)
      OBVIOUS
    <2> DEFINE level == n - k
               x == h[k]
               y == h[k + 1]
    <2>1. level \in Nat \ {0} /\ y = Lower(x, level)
      BY <1>1, <1>3
    <2>2. Good(k)
      BY <1>5
    <2>3. x \in [1..n -> Nat] /\ SameOrder(b, x) /\ \A c \in 1..n : x[c] <= b[c]
      BY <2>2
    <2>4. (x = b /\ \A j \in 1..k : Dense(b, n + 1 - j)) \/ Lowered(b, x)
      BY <2>2
    <2> HIDE DEF x, y, level
    <2>5. /\ y \in [1..n -> Nat] /\ SameOrder(x, y) /\ \A c \in 1..n : y[c] <= x[c]
          /\ (y = x /\ Dense(x, level)) \/ Lowered(x, y)
      BY <2>1, <2>3, LowerOne
    <2>6. SameOrder(b, y)
      BY <2>3, <2>5, SameOrderTrans
    <2>7. \A c \in 1..n : y[c] <= b[c]
      BY <2>3, <2>5
    <2>8. (y = b /\ \A j \in 1..k + 1 : Dense(b, n + 1 - j)) \/ Lowered(b, y)
      <3>1. CASE Lowered(b, x)
        <4>1. DOMAIN x = 1..n /\ DOMAIN y = 1..n
          BY <2>3, <2>5
        <4>2. PICK c \in 1..n : x[c] < b[c]
          BY <1>1, <3>1 DEF Lowered
        <4>3. y[c] < b[c]
          BY <2>3, <2>5, <4>2
        <4>4. ASSUME NEW m \in Nat, AtMost(b, m)
              PROVE  AtMost(y, m - 1)
          <5>1. \A d \in 1..n : x[d] <= m - 1
            BY <3>1, <4>1, <4>4 DEF Lowered, AtMost
          <5>2. \A d \in 1..n : y[d] \in Nat /\ x[d] \in Nat
            BY <2>3, <2>5
          <5> QED
            BY <2>5, <4>1, <5>1, <5>2 DEF AtMost
        <4> QED
          BY <1>1, <4>3, <4>4 DEF Lowered
      <3>2. CASE x = b /\ \A j \in 1..k : Dense(b, n + 1 - j)
        <4>1. CASE y = x /\ Dense(x, level)
          <5>1. \A j \in 1..k + 1 : j \in 1..k \/ n + 1 - j = level
            BY DEF level
          <5> QED
            BY <3>2, <4>1, <5>1
        <4>2. CASE Lowered(x, y)
          BY <3>2, <4>2
        <4> QED
          BY <2>5, <4>1, <4>2
      <3> QED
        BY <2>4, <3>1, <3>2
    <2> QED
      BY <2>5, <2>6, <2>7, <2>8 DEF y
  <1>6. Good(n)
    <2>1. n \in T
      <3> HIDE DEF T
      <3>1. Nat \subseteq T
        BY <1>4, <1>5, Passes!SetInduction
      <3> QED
        BY <3>1
    <2> QED
      BY <2>1
  <1>7. CASE Lowered(b, h[n])
    <2>1. h[n] # b
      BY <1>7 DEF Lowered
    <2> QED
      BY <1>3, <1>6, <1>7, <2>1
  <1>8. CASE h[n] = b /\ \A j \in 1..n : Dense(b, n + 1 - j)
    <2>1. ASSUME NEW level \in 1..n PROVE Dense(b, level)
      <3>1. n + 1 - level \in 1..n /\ n + 1 - (n + 1 - level) = level
        OBVIOUS
      <3> QED
        BY <1>8, <3>1
    <2> QED
      BY <1>3, <1>6, <1>8, <2>1
  <1> QED
    BY <1>6, <1>7, <1>8

(* Nothing is above an empty level, and no level above the number of       *)
(* candidates.                                                             *)
NoHoles(b) ==
    \A c \in DOMAIN b :
        b[c] <= Len(b) /\ \A r \in 1..b[c] : \E d \in DOMAIN b : b[d] = r

(* There are k places up to the k-th.                                      *)
LEMMA IntervalSize ==
    ASSUME NEW k \in Nat
    PROVE  IsFiniteSet(1..k) /\ Cardinality(1..k) = k
  <1>1. 1 \in Int /\ k \in Int
    OBVIOUS
  <1>2. IsFiniteSet(1..k) /\ Cardinality(1..k) = IF 1 > k THEN 0 ELSE k - 1 + 1
    BY <1>1, FS_Interval
  <1> QED
    BY <1>2

(* A candidate above level n would need n others, one in each level.       *)
LEMMA DenseHasNoHoles ==
    ASSUME NEW n \in Nat, NEW b \in [1..n -> Nat],
           \A level \in 1..n : Dense(b, level)
    PROVE  NoHoles(b)
  <1>1. b \in Seq(Nat) /\ Len(b) = n /\ DOMAIN b = 1..n
    OBVIOUS
  <1>2. ASSUME NEW c \in 1..n
        PROVE  b[c] <= n
    <2> SUFFICES ASSUME b[c] > n PROVE FALSE
      OBVIOUS
    <2>1. \A level \in 1..n : \E d \in 1..n : b[d] = level
      BY <1>1 DEF Dense
    <2> DEFINE f == [l \in 1..n + 1 |->
                        IF l = n + 1 THEN c ELSE CHOOSE d \in 1..n : b[d] = l]
    <2>2. ASSUME NEW l \in 1..n
          PROVE  f[l] \in 1..n /\ b[f[l]] = l
      <3>1. l \in 1..n + 1 /\ l # n + 1
        OBVIOUS
      <3>2. f[l] = CHOOSE d \in 1..n : b[d] = l
        BY <3>1
      <3> HIDE DEF f
      <3> QED
        BY <2>1, <3>2
    <2>3. f[n + 1] = c
      <3>1. n + 1 \in 1..n + 1
        OBVIOUS
      <3> QED
        BY <3>1
    <2>4. f \in [1..n + 1 -> 1..n]
      <3>1. \A l \in 1..n + 1 : l \in 1..n \/ l = n + 1
        OBVIOUS
      <3>2. \A l \in 1..n + 1 : f[l] \in 1..n
        <4> HIDE DEF f
        <4> QED
          BY <2>2, <2>3, <3>1
      <3> QED
        BY <3>2
    <2> HIDE DEF f
    <2>5. n + 1 \in Nat /\ n < n + 1
      OBVIOUS
    <2>6. PICK k, l \in 1..n + 1 : k # l /\ f[k] = f[l]
      <3> DEFINE S == 1..n + 1
                 T == 1..n
      <3>1. IsFiniteSet(S) /\ IsFiniteSet(T) /\ Cardinality(T) < Cardinality(S)
        BY <2>5, IntervalSize
      <3>2. f \in [S -> T]
        BY <2>4
      <3> HIDE DEF S, T
      <3>3. \E k, l \in S : k # l /\ f[k] = f[l]
        BY <3>1, <3>2, FS_PigeonHole
      <3> QED
        BY <3>3 DEF S
    <2>7. \A j \in 1..n + 1 : j = n + 1 \/ j \in 1..n
      OBVIOUS
    <2> QED
      BY <2>2, <2>3, <2>6, <2>7
  <1>3. ASSUME NEW c \in 1..n, NEW r \in 1..b[c]
        PROVE  \E d \in 1..n : b[d] = r
    <2>1. r \in 1..n /\ b[c] \in Nat
      BY <1>2
    <2>2. CASE b[c] <= r
      BY <2>1, <2>2
    <2> QED
      BY <1>1, <2>1, <2>2 DEF Dense
  <1> QED
    BY <1>1, <1>2, <1>3 DEF NoHoles

(* Of the candidates of a level, one stands for all.  A candidate's place  *)
(* in an order without holes is the number of levels up to its own: that   *)
(* does not change from pass to pass, and is where the passes end.         *)
Stands(b, d) == d = CHOOSE e : e \in {f \in DOMAIN b : b[f] = b[d]}
UpTo(b, c) == {d \in DOMAIN b : b[d] # 0 /\ b[d] <= b[c] /\ Stands(b, d)}
Compact(b) == [c \in DOMAIN b |-> Cardinality(UpTo(b, c))]

(* The number of levels up to a candidate's own depends on the order only. *)
LEMMA SameCompact ==
    ASSUME NEW n \in Nat, NEW b \in [1..n -> Nat], NEW x \in [1..n -> Nat],
           SameOrder(b, x)
    PROVE  Compact(x) = Compact(b)
  <1>1. DOMAIN b = 1..n /\ DOMAIN x = 1..n
    OBVIOUS
  <1>2. \A c, d \in 1..n : (x[c] <= x[d] <=> b[c] <= b[d]) /\ (x[c] = x[d] <=> b[c] = b[d])
    BY DEF SameOrder
  <1>3. \A d \in 1..n : Stands(x, d) <=> Stands(b, d)
    <2> SUFFICES ASSUME NEW d \in 1..n PROVE Stands(x, d) <=> Stands(b, d)
      OBVIOUS
    <2>1. {f \in DOMAIN x : x[f] = x[d]} = {f \in DOMAIN b : b[f] = b[d]}
      BY <1>1, <1>2
    <2> QED
      BY <2>1, Zenon DEF Stands
  <1>4. \A c \in 1..n : UpTo(x, c) = UpTo(b, c)
    BY <1>1, <1>2, <1>3 DEF UpTo, SameOrder
  <1> QED
    BY <1>1, <1>4, Zenon DEF Compact

(* Without holes it is the level itself.                                   *)
LEMMA CompactIsSame ==
    ASSUME NEW n \in Nat, NEW b \in [1..n -> Nat], NoHoles(b)
    PROVE  Compact(b) = b
  <1>1. b \in Seq(Nat) /\ DOMAIN b = 1..n
    OBVIOUS
  <1>2. ASSUME NEW c \in 1..n
        PROVE  Cardinality(UpTo(b, c)) = b[c]
    <2> DEFINE S == UpTo(b, c)
               f == [d \in S |-> b[d]]
    <2>1. \A d \in S : d \in 1..n /\ b[d] \in 1..b[c] /\ Stands(b, d)
      BY <1>1 DEF UpTo
    <2>2. f \in [S -> 1..b[c]]
      BY <2>1
    <2>3. ASSUME NEW d \in S, NEW e \in S, f[d] = f[e]
          PROVE  d = e
      <3>1. b[d] = b[e] /\ Stands(b, d) /\ Stands(b, e)
        BY <2>1, <2>3
      <3> QED
        BY <3>1, Zenon DEF Stands
    <2>4. ASSUME NEW r \in 1..b[c]
          PROVE  \E d \in S : f[d] = r
      <3> DEFINE R == {g \in 1..n : b[g] = r}
                 d == CHOOSE e : e \in R
      <3>1. \E e : e \in R
        BY <1>1 DEF NoHoles
      <3>2. d \in R
        BY <3>1, Zenon
      <3>3. {g \in DOMAIN b : b[g] = b[d]} = R
        BY <1>1, <3>2
      <3>4. Stands(b, d)
        BY <3>3, Zenon DEF Stands
      <3>5. d \in 1..n /\ b[d] = r
        BY <3>2
      <3> HIDE DEF d, R
      <3>6. d \in S
        BY <1>1, <3>4, <3>5 DEF UpTo
      <3> QED
        BY <3>5, <3>6
    <2> HIDE DEF S, f
    <2>5. f \in Bijection(S, 1..b[c])
      BY <2>2, <2>3, <2>4 DEF Bijection, Injection, Surjection, IsInjective
    <2>6. IsFiniteSet(1..b[c]) /\ Cardinality(1..b[c]) = b[c]
      <3>1. b[c] \in Nat
        OBVIOUS
      <3> QED
        BY <3>1, IntervalSize
    <2>7. ExistsBijection(1..b[c], S)
      <3>1. ExistsBijection(S, 1..b[c])
        BY <2>5 DEF ExistsBijection
      <3> QED
        BY <3>1, Fun_ExistsBijSymmetric
    <2>8. Cardinality(S) = Cardinality(1..b[c])
      BY <2>6, <2>7, FS_Bijection
    <2> QED
      BY <2>6, <2>8 DEF S
  <1> QED
    BY <1>1, <1>2 DEF Compact

(* The recursive definition of Settle defines a function: Compact is one.  *)
LEMMA SettleUnfolds ==
    ASSUME NEW n \in Nat, NEW b \in [1..n -> Nat]
    PROVE  Settle[b] = IF LowerAll(b) = b THEN b ELSE Settle[LowerAll(b)]
  <1> DEFINE Unfolded(g) ==
                 [x \in Seq(Nat) |-> IF LowerAll(x) = x THEN x ELSE g[LowerAll(x)]]
             g == [x \in Seq(Nat) |-> Compact(x)]
  <1>1. ASSUME NEW x \in Seq(Nat)
        PROVE  Compact(x) = IF LowerAll(x) = x THEN x ELSE g[LowerAll(x)]
    <2>1. Len(x) \in Nat /\ x \in [1..Len(x) -> Nat]
      OBVIOUS
    <2>2. /\ LowerAll(x) \in [1..Len(x) -> Nat] /\ SameOrder(x, LowerAll(x))
          /\ LowerAll(x) = x => \A level \in 1..Len(x) : Dense(x, level)
      BY <2>1, LowerPass
    <2>3. CASE LowerAll(x) = x
      BY <2>1, <2>2, <2>3, DenseHasNoHoles, CompactIsSame
    <2>4. CASE LowerAll(x) # x
      <3>1. LowerAll(x) \in Seq(Nat)
        <4>1. \A k \in Nat : \A f \in [1..k -> Nat] : f \in Seq(Nat)
          OBVIOUS
        <4> QED
          BY <2>1, <2>2, <4>1, Zenon
      <3>2. Compact(LowerAll(x)) = Compact(x)
        BY <2>1, <2>2, SameCompact
      <3> QED
        BY <2>4, <3>1, <3>2
    <2> QED
      BY <2>3, <2>4
  <1>2. g = Unfolded(g)
    BY <1>1
  <1> HIDE DEF g
  <1>3. Settle = Unfolded(Settle)
    BY <1>2, Zenon DEF Settle
  <1>4. b \in Seq(Nat)
    OBVIOUS
  <1> QED
    BY <1>3, <1>4

(* The levels of a ballot are bounded.                                     *)
LEMMA HasBound ==
    ASSUME NEW n \in Nat, NEW b \in [1..n -> Nat]
    PROVE  \E m \in Nat : AtMost(b, m)
  <1> DEFINE T == {k \in Nat : \E m \in Nat : \A c \in 1..n : c <= k => b[c] <= m}
  <1>1. 0 \in T
    OBVIOUS
  <1>2. ASSUME NEW k \in Nat, k \in T
        PROVE  k + 1 \in T
    <2>1. PICK m \in Nat : \A c \in 1..n : c <= k => b[c] <= m
      BY <1>2
    <2>2. CASE k + 1 \in 1..n
      <3>1. b[k + 1] \in Nat
        BY <2>2
      <3> DEFINE w == IF b[k + 1] > m THEN b[k + 1] ELSE m
      <3>2. w \in Nat /\ b[k + 1] <= w /\ m <= w
        BY <3>1
      <3> HIDE DEF w
      <3>3. \A c \in 1..n : c <= k + 1 => b[c] <= w
        <4>1. \A c \in 1..n : c <= k + 1 => c <= k \/ c = k + 1
          OBVIOUS
        <4> QED
          BY <2>1, <3>2, <4>1
      <3> QED
        BY <3>2, <3>3
    <2>3. CASE k + 1 \notin 1..n
      <3>1. \A c \in 1..n : c <= k
        BY <2>3
      <3>2. \A c \in 1..n : b[c] <= m
        BY <2>1, <3>1
      <3> HIDE DEF T
      <3>3. \E w \in Nat : \A c \in 1..n : c <= k + 1 => b[c] <= w
        BY <3>2
      <3> QED
        BY <3>3 DEF T
    <2> QED
      BY <2>2, <2>3
  <1>3. n \in T
    <2> HIDE DEF T
    <2>1. Nat \subseteq T
      BY <1>1, <1>2, Passes!SetInduction
    <2> QED
      BY <2>1
  <1> QED
    BY <1>3 DEF AtMost

(* The levels sent: in the order of those chosen, and without a hole.      *)
LEMMA LevelsSent ==
    ASSUME NEW n \in Nat, NEW b \in [1..n -> Nat]
    PROVE  /\ RemoveEmptyLevels(b) \in [1..n -> Nat]
           /\ SameOrder(b, RemoveEmptyLevels(b))
           /\ NoHoles(RemoveEmptyLevels(b))
  <1> DEFINE Good(x) == /\ Settle[x] \in [1..n -> Nat]
                        /\ SameOrder(x, Settle[x])
                        /\ NoHoles(Settle[x])
             T == {m \in Nat : \A x \in [1..n -> Nat] : AtMost(x, m) => Good(x)}
  <1>1. ASSUME NEW x \in [1..n -> Nat], LowerAll(x) = x
        PROVE  Good(x)
    <2>1. Settle[x] = x
      BY <1>1, SettleUnfolds
    <2>2. NoHoles(x)
      BY <1>1, LowerPass, DenseHasNoHoles
    <2>3. SameOrder(x, x)
      BY DEF SameOrder
    <2> QED
      BY <2>1, <2>2, <2>3
  <1>2. ASSUME NEW x \in [1..n -> Nat], LowerAll(x) # x
        PROVE  /\ LowerAll(x) \in [1..n -> Nat]
               /\ Settle[x] = Settle[LowerAll(x)]
               /\ SameOrder(x, LowerAll(x))
               /\ Lowered(x, LowerAll(x))
    BY <1>2, LowerPass, SettleUnfolds
  <1>3. 0 \in T
    <2> SUFFICES ASSUME NEW x \in [1..n -> Nat], AtMost(x, 0)
                 PROVE  Good(x)
      OBVIOUS
    <2>1. \A c \in 1..n : x[c] = 0
      BY DEF AtMost
    <2>2. LowerAll(x) = x
      <3> SUFFICES ASSUME LowerAll(x) # x PROVE FALSE
        OBVIOUS
      <3>1. LowerAll(x) \in [1..n -> Nat] /\ \E c \in 1..n : LowerAll(x)[c] < x[c]
        BY <1>2 DEF Lowered
      <3> QED
        BY <2>1, <3>1
    <2> QED
      BY <1>1, <2>2
  <1>4. ASSUME NEW m \in Nat, m \in T
        PROVE  m + 1 \in T
    <2> SUFFICES ASSUME NEW x \in [1..n -> Nat], AtMost(x, m + 1)
                 PROVE  Good(x)
      OBVIOUS
    <2>1. CASE LowerAll(x) # x
      <3> DEFINE y == LowerAll(x)
      <3>1. /\ y \in [1..n -> Nat] /\ Settle[x] = Settle[y]
            /\ SameOrder(x, y) /\ Lowered(x, y)
        BY <1>2, <2>1
      <3> HIDE DEF y
      <3>2. AtMost(y, m)
        <4>1. AtMost(y, m + 1 - 1)
          BY <3>1, m + 1 \in Nat DEF Lowered
        <4>2. m + 1 - 1 = m
          OBVIOUS
        <4> QED
          BY <4>1, <4>2
      <3>3. Good(y)
        BY <1>4, <3>1, <3>2
      <3>4. SameOrder(x, Settle[y])
        BY <3>1, <3>3, SameOrderTrans
      <3> QED
        BY <3>1, <3>3, <3>4
    <2> QED
      BY <1>1, <2>1
  <1>5. PICK m \in Nat : AtMost(b, m)
    BY HasBound
  <1>6. m \in T
    <2> HIDE DEF T
    <2>1. Nat \subseteq T
      BY <1>3, <1>4, Passes!SetInduction
    <2> QED
      BY <2>1
  <1>7. Good(b)
    BY <1>5, <1>6
  <1> QED
    BY <1>7 DEF RemoveEmptyLevels

-----------------------------------------------------------------------------
(* The sum of choices that are 0 or 1 is the number of those that are 1.   *)
Ones(a, S) == {c \in S : a[c] = 1}

(* By induction on the candidates.                                         *)
LEMMA SumOfOnes ==
    ASSUME NEW S, IsFiniteSet(S), NEW a, \A c \in S : a[c] \in {0, 1}
    PROVE  MapThenSumSet(LAMBDA c : a[c], S) = Cardinality(Ones(a, S))
  <1> DEFINE Unfolded(g) ==
                 [s \in SUBSET S |->
                    IF s = {} THEN 0
                    ELSE a[CHOOSE x \in s : TRUE] + g[s \ {CHOOSE x \in s : TRUE}]]
             it == CHOOSE g : g = Unfolded(g)
             count == [s \in SUBSET S |-> Cardinality(Ones(a, s))]
  <1>1. ASSUME NEW s \in SUBSET S, s # {}
        PROVE  LET x == CHOOSE x \in s : TRUE
               IN  /\ x \in s /\ s \ {x} \in SUBSET S
                   /\ Cardinality(s \ {x}) = Cardinality(s) - 1
                   /\ Cardinality(Ones(a, s)) = a[x] + Cardinality(Ones(a, s \ {x}))
    <2> DEFINE x == CHOOSE x \in s : TRUE
    <2>1. x \in s
      BY <1>1
    <2> HIDE DEF x
    <2>2. IsFiniteSet(s) /\ IsFiniteSet(Ones(a, s)) /\ IsFiniteSet(Ones(a, s \ {x}))
      BY FS_Subset DEF Ones
    <2>3. Cardinality(s \ {x}) = Cardinality(s) - 1
      BY <2>1, <2>2, FS_RemoveElement
    <2>4. Cardinality(Ones(a, s)) = a[x] + Cardinality(Ones(a, s \ {x}))
      <3>1. Cardinality(Ones(a, s)) \in Nat /\ Cardinality(Ones(a, s \ {x})) \in Nat
        BY <2>2, FS_CardinalityType
      <3>2. CASE a[x] = 1
        <4>1. Ones(a, s) = Ones(a, s \ {x}) \cup {x} /\ x \notin Ones(a, s \ {x})
          BY <2>1, <3>2 DEF Ones
        <4>2. Cardinality(Ones(a, s \ {x}) \cup {x}) = Cardinality(Ones(a, s \ {x})) + 1
          BY <2>2, <4>1, FS_AddElement
        <4> QED
          BY <3>1, <3>2, <4>1, <4>2
      <3>3. CASE a[x] = 0
        <4>1. Ones(a, s) = Ones(a, s \ {x})
          BY <2>1, <3>3 DEF Ones
        <4> QED
          BY <3>1, <3>3, <4>1
      <3> QED
        BY <2>1, <3>2, <3>3
    <2> QED
      BY <2>1, <2>3, <2>4 DEF x
  <1>2. Cardinality(Ones(a, {})) = 0
    BY FS_EmptySet DEF Ones
  <1>3. it = Unfolded(it)
    <2>1. count = Unfolded(count)
      BY <1>1, <1>2
    <2> HIDE DEF count
    <2> QED
      BY <2>1, Zenon
  <1> HIDE DEF it
  <1> DEFINE T == {k \in Nat : \A s \in SUBSET S :
                        Cardinality(s) = k => it[s] = Cardinality(Ones(a, s))}
  <1>4. \A s \in SUBSET S : IsFiniteSet(s) /\ Cardinality(s) \in Nat
    BY FS_Subset, FS_CardinalityType
  <1>5. 0 \in T
    <2> SUFFICES ASSUME NEW s \in SUBSET S, Cardinality(s) = 0
                 PROVE  it[s] = Cardinality(Ones(a, s))
      OBVIOUS
    <2>1. s = {}
      BY <1>4, FS_EmptySet
    <2> QED
      BY <1>2, <1>3, <2>1
  <1>6. ASSUME NEW k \in Nat, k \in T
        PROVE  k + 1 \in T
    <2> SUFFICES ASSUME NEW s \in SUBSET S, Cardinality(s) = k + 1
                 PROVE  it[s] = Cardinality(Ones(a, s))
      OBVIOUS
    <2>1. s # {}
      BY FS_EmptySet
    <2> DEFINE x == CHOOSE x \in s : TRUE
    <2>2. /\ s \ {x} \in SUBSET S /\ Cardinality(s \ {x}) = Cardinality(s) - 1
          /\ Cardinality(Ones(a, s)) = a[x] + Cardinality(Ones(a, s \ {x}))
      BY <1>1, <2>1, Zenon
    <2>3. it[s] = a[x] + it[s \ {x}]
      BY <1>3, <2>1
    <2> HIDE DEF x
    <2>4. it[s \ {x}] = Cardinality(Ones(a, s \ {x}))
      <3>1. Cardinality(s \ {x}) = k
        BY <2>2
      <3> QED
        BY <1>6, <2>2, <3>1
    <2> QED
      BY <2>2, <2>3, <2>4
  <1>7. it[S] = Cardinality(Ones(a, S))
    <2> HIDE DEF T
    <2>1. Nat \subseteq T
      BY <1>5, <1>6, Passes!SetInduction
    <2>2. Cardinality(S) \in T
      BY <1>4, <2>1
    <2> QED
      BY <2>2 DEF T
  <1>8. MapThenSumSet(LAMBDA c : a[c], S) = it[S]
    BY Zenon DEF MapThenSumSet, MapThenFoldSet, it
  <1> QED
    BY <1>7, <1>8

-----------------------------------------------------------------------------
(* Columns, indices and places                                             *)

(* Each candidate is in the column found for him, and in no other.         *)
LEMMA ColumnFacts ==
    ASSUME NEW n \in Nat, NEW a, Arranged(a, n), NEW c \in 1..n
    PROVE  /\ ColumnOf(a, c) \in DOMAIN a.columns
           /\ c \in ToSet(a.columns[ColumnOf(a, c)])
           /\ \A k \in DOMAIN a.columns : c \in ToSet(a.columns[k]) => k = ColumnOf(a, c)
  <1>1. /\ \E k \in DOMAIN a.columns : c \in ToSet(a.columns[k])
        /\ \A k, l \in DOMAIN a.columns :
                k # l => ToSet(a.columns[k]) \cap ToSet(a.columns[l]) = {}
    BY DEF Arranged, Placed
  <1>2. /\ ColumnOf(a, c) \in DOMAIN a.columns
        /\ c \in ToSet(a.columns[ColumnOf(a, c)])
    BY <1>1, Zenon DEF ColumnOf
  <1> QED
    BY <1>1, <1>2

(* Each column is displayed at the index found for it, and at no other.    *)
LEMMA IndexFacts ==
    ASSUME NEW n \in Nat, NEW a, Arranged(a, n), NEW k \in DOMAIN a.columns
    PROVE  /\ IndexOf(a, k) \in Nat
           /\ IndexOf(a, k) + 1 \in DOMAIN a.order
           /\ a.order[IndexOf(a, k) + 1] = k
           /\ \A p \in DOMAIN a.order : a.order[p] = k => p = IndexOf(a, k) + 1
  <1>1. /\ a.order \in Seq(DOMAIN a.columns) /\ ToSet(a.order) = DOMAIN a.columns
        /\ Distinct(a.order)
    BY DEF Arranged, Ordered
  <1>2. \E p \in DOMAIN a.order : a.order[p] = k
    BY <1>1 DEF ToSet
  <1> DEFINE p == CHOOSE p \in DOMAIN a.order : a.order[p] = k
  <1>3. p \in DOMAIN a.order /\ a.order[p] = k
    BY <1>2, Zenon
  <1>4. IndexOf(a, k) = p - 1
    BY DEF IndexOf
  <1> HIDE DEF p
  <1>5. p \in Nat /\ p >= 1
    BY <1>1, <1>3
  <1> QED
    BY <1>1, <1>3, <1>4, <1>5 DEF Distinct

(* NotRanked is the column to the right of all the others.                 *)
LEMMA NotRankedLast ==
    ASSUME NEW n \in Nat, NEW a, Arranged(a, n)
    PROVE  /\ NotRanked \in DOMAIN a.columns
           /\ \A k \in DOMAIN a.columns :
                k # NotRanked => IndexOf(a, k) < IndexOf(a, NotRanked)
  <1>1. /\ a.order \in Seq(DOMAIN a.columns) /\ a.order # <<>>
        /\ a.order[Len(a.order)] = NotRanked /\ Distinct(a.order)
        /\ ToSet(a.order) = DOMAIN a.columns
    BY DEF Arranged, Ordered
  <1>2. /\ Len(a.order) \in DOMAIN a.order /\ Len(a.order) \in Nat
        /\ \A p \in DOMAIN a.order : p \in Nat /\ p <= Len(a.order)
    BY <1>1
  <1>3. NotRanked \in DOMAIN a.columns
    BY <1>1, <1>2 DEF ToSet
  <1>4. IndexOf(a, NotRanked) + 1 = Len(a.order) /\ IndexOf(a, NotRanked) \in Nat
    BY <1>1, <1>2, <1>3, IndexFacts
  <1>5. ASSUME NEW k \in DOMAIN a.columns, k # NotRanked
        PROVE  IndexOf(a, k) < IndexOf(a, NotRanked)
    <2>1. /\ IndexOf(a, k) \in Nat /\ IndexOf(a, k) + 1 \in DOMAIN a.order
          /\ a.order[IndexOf(a, k) + 1] = k
      BY IndexFacts
    <2> QED
      BY <1>1, <1>2, <1>4, <1>5, <2>1
  <1> QED
    BY <1>3, <1>5

(* Each candidate is at the place found for him, and at no other.          *)
LEMMA PlaceFacts ==
    ASSUME NEW n \in Nat, NEW a, Arranged(a, n), NEW c \in 1..n
    PROVE  /\ PlaceOf(a, c) \in DOMAIN a.columns[ColumnOf(a, c)]
           /\ PlaceOf(a, c) \in Nat \ {0}
           /\ a.columns[ColumnOf(a, c)][PlaceOf(a, c)] = c
           /\ \A i \in DOMAIN a.columns[ColumnOf(a, c)] :
                a.columns[ColumnOf(a, c)][i] = c => i = PlaceOf(a, c)
  <1> DEFINE s == a.columns[ColumnOf(a, c)]
  <1>1. c \in ToSet(s) /\ ColumnOf(a, c) \in DOMAIN a.columns
    BY ColumnFacts
  <1>2. s \in Seq(1..n) /\ Distinct(s)
    BY <1>1 DEF Arranged, Placed
  <1>3. PlaceOf(a, c) = CHOOSE i \in DOMAIN s : s[i] = c
    BY DEF PlaceOf
  <1> HIDE DEF s
  <1>4. \E i \in DOMAIN s : s[i] = c
    BY <1>1 DEF ToSet
  <1>5. PlaceOf(a, c) \in DOMAIN s /\ s[PlaceOf(a, c)] = c
    BY <1>3, <1>4, Zenon
  <1> QED
    BY <1>2, <1>5 DEF s, Distinct

-----------------------------------------------------------------------------
(* The votes and the arrangement of a preferential question agree.  A      *)
(* candidate of NotRanked has the index of this column if he was moved     *)
(* there after the levels were last changed.                               *)
LevelsFit(vote, a, n) ==
    \A c \in 1..n :
        \/ vote[c] = IndexOf(a, ColumnOf(a, c))
        \/ ColumnOf(a, c) = NotRanked /\ vote[c] = None

RanksFit(vote, a, n) ==
    /\ DOMAIN a.columns = {Ranked, NotRanked}
    /\ \A c \in 1..n : vote[c] = VoteByPlace(a, n)[c]

RanksOf(vote, n) == [c \in 1..n |-> IF vote[c] = None THEN 0 ELSE vote[c] + 1]

(* The members of a sequence.                                              *)
LEMMA SequenceMembers ==
    ASSUME NEW S, NEW s \in Seq(S)
    PROVE  /\ \A x \in ToSet(s) : x \in S
           /\ ToSet(s) = {} => s = <<>>
  <1>1. \A i \in DOMAIN s : s[i] \in S
    OBVIOUS
  <1>2. s # <<>> => 1 \in DOMAIN s
    OBVIOUS
  <1> QED
    BY <1>1, <1>2, Zenon DEF ToSet

(* Ranks before empty levels are removed: the position of the column, or 0 *)
(* for a candidate of NotRanked who was not moved back there.              *)
LEMMA RankPlaces ==
    ASSUME NEW n \in Nat, NEW a, Arranged(a, n), NEW vote, LevelsFit(vote, a, n),
           NEW b, b = RanksOf(vote, n)
    PROVE  /\ b \in [1..n -> Nat]
           /\ \A c \in 1..n : b[c] # 0 =>
                b[c] = IndexOf(a, ColumnOf(a, c)) + 1 /\ b[c] \in DOMAIN a.order
           /\ \A c \in 1..n : b[c] = 0 <=>
                ColumnOf(a, c) = NotRanked /\ c \notin MovedBack(a, vote)
           /\ \A p \in DOMAIN a.order :
                RankedIn(a, vote, p) = {c \in 1..n : b[c] = p}
           /\ Levels(a, vote) = {b[c] : c \in 1..n} \ {0}
           /\ ToSet(a.columns[NotRanked]) \ MovedBack(a, vote) =
                {c \in 1..n : b[c] = 0}
  <1> DEFINE index(c) == IndexOf(a, ColumnOf(a, c))
  <1>1. /\ NotRanked \in DOMAIN a.columns
        /\ a.order \in Seq(DOMAIN a.columns)
        /\ \A k \in DOMAIN a.columns : a.columns[k] \in Seq(1..n)
        /\ \A p \in DOMAIN a.order : a.order[p] \in DOMAIN a.columns /\ p \in Nat /\ p # 0
    BY NotRankedLast DEF Arranged, Placed, Ordered
  <1>2. ASSUME NEW c \in 1..n
        PROVE  /\ index(c) \in Nat /\ index(c) + 1 \in DOMAIN a.order
               /\ b[c] = index(c) + 1 \/ b[c] = 0
               /\ b[c] = 0 <=> vote[c] = None
               /\ vote[c] = None => ColumnOf(a, c) = NotRanked
               /\ a.order[index(c) + 1] = ColumnOf(a, c)
               /\ \A p \in DOMAIN a.order : a.order[p] = ColumnOf(a, c) => p = index(c) + 1
    <2>1. ColumnOf(a, c) \in DOMAIN a.columns
      BY ColumnFacts
    <2>2. /\ index(c) \in Nat /\ index(c) + 1 \in DOMAIN a.order
          /\ a.order[index(c) + 1] = ColumnOf(a, c)
          /\ \A p \in DOMAIN a.order : a.order[p] = ColumnOf(a, c) => p = index(c) + 1
      BY <2>1, IndexFacts
    <2>3. index(c) # None /\ b[c] = IF vote[c] = None THEN 0 ELSE vote[c] + 1
      BY <2>2, ColumnsAssumption DEF RanksOf
    <2>4. vote[c] = index(c) \/ (ColumnOf(a, c) = NotRanked /\ vote[c] = None)
      BY DEF LevelsFit
    <2> HIDE DEF index
    <2> QED
      BY <2>2, <2>3, <2>4
  <1>3. \A k \in DOMAIN a.columns : \A c \in ToSet(a.columns[k]) : c \in 1..n
    BY <1>1, SequenceMembers
  <1>4. \A c \in 1..n : \A k \in DOMAIN a.columns :
            c \in ToSet(a.columns[k]) <=> ColumnOf(a, c) = k
    BY ColumnFacts
  <1>5. \A c : c \in MovedBack(a, vote) <=>
                c \in 1..n /\ ColumnOf(a, c) = NotRanked /\ b[c] # 0
    BY <1>1, <1>2, <1>3, <1>4 DEF MovedBack
  <1>6. b \in [1..n -> Nat]
    <2>1. b = [c \in 1..n |-> b[c]]
      BY DEF RanksOf
    <2> HIDE DEF index
    <2>2. \A c \in 1..n : b[c] \in Nat
      BY <1>2
    <2> QED
      BY <2>1, <2>2
  <1> HIDE DEF index
  <1>7. \A c \in 1..n : b[c] = 0 <=>
            ColumnOf(a, c) = NotRanked /\ c \notin MovedBack(a, vote)
    BY <1>2, <1>5
  <1>8. ASSUME NEW p \in DOMAIN a.order
        PROVE  RankedIn(a, vote, p) = {c \in 1..n : b[c] = p}
    <2>1. \A c \in 1..n : b[c] = p <=> b[c] # 0 /\ ColumnOf(a, c) = a.order[p]
      BY <1>1, <1>2
    <2>2. CASE a.order[p] = NotRanked
      <3>1. RankedIn(a, vote, p) = MovedBack(a, vote)
        BY <2>2 DEF RankedIn
      <3> QED
        BY <1>5, <2>1, <2>2, <3>1
    <2>3. CASE a.order[p] # NotRanked
      <3>1. RankedIn(a, vote, p) = ToSet(a.columns[a.order[p]])
        BY <2>3 DEF RankedIn
      <3>2. \A c \in 1..n : ColumnOf(a, c) = a.order[p] => b[c] # 0
        BY <1>2, <2>3
      <3>3. a.order[p] \in DOMAIN a.columns
        BY <1>1
      <3>4. \A c : c \in ToSet(a.columns[a.order[p]]) <=>
                        c \in 1..n /\ ColumnOf(a, c) = a.order[p]
        BY <1>3, <1>4, <3>3
      <3> QED
        BY <2>1, <3>1, <3>2, <3>4
    <2> QED
      BY <2>2, <2>3
  <1>9. Levels(a, vote) = {b[c] : c \in 1..n} \ {0}
    <2>1. \A p \in DOMAIN a.order : RankedIn(a, vote, p) # {} <=> \E c \in 1..n : b[c] = p
      BY <1>8
    <2>2. \A c \in 1..n : b[c] # 0 => b[c] \in DOMAIN a.order
      BY <1>2
    <2>3. \A p \in DOMAIN a.order : p # 0
      BY <1>1
    <2> QED
      BY <2>1, <2>2, <2>3 DEF Levels
  <1>10. ToSet(a.columns[NotRanked]) \ MovedBack(a, vote) = {c \in 1..n : b[c] = 0}
    BY <1>1, <1>3, <1>4, <1>5, <1>7
  <1> QED
    BY <1>2, <1>6, <1>7, <1>8, <1>9, <1>10 DEF index

(* In an order without holes, a level is the number of levels up to it of  *)
(* any ballot with the same order.                                         *)
LEMMA LevelNumber ==
    ASSUME NEW n \in Nat, NEW b \in [1..n -> Nat], NEW x \in [1..n -> Nat],
           SameOrder(b, x), NoHoles(x), NEW c \in 1..n, b[c] # 0
    PROVE  x[c] = Cardinality({l \in {b[d] : d \in 1..n} \ {0} : l <= b[c]})
  <1> DEFINE S == {l \in {b[d] : d \in 1..n} \ {0} : l <= b[c]}
             at(r) == CHOOSE d \in 1..n : x[d] = r
             f == [r \in 1..x[c] |-> b[at(r)]]
  <1>1. /\ DOMAIN b = 1..n /\ DOMAIN x = 1..n
        /\ x[c] \in Nat /\ b[c] \in Nat
    OBVIOUS
  <1>2. \A d, e \in 1..n : /\ x[d] \in Nat /\ b[d] \in Nat
                           /\ x[d] = 0 <=> b[d] = 0
                           /\ x[d] <= x[e] <=> b[d] <= b[e]
                           /\ x[d] = x[e] <=> b[d] = b[e]
    BY DEF SameOrder
  <1>3. ASSUME NEW r \in 1..x[c]
        PROVE  at(r) \in 1..n /\ x[at(r)] = r
    <2>1. \E d \in 1..n : x[d] = r
      BY <1>1 DEF NoHoles
    <2> QED
      BY <2>1, Zenon
  <1> HIDE DEF at
  <1>4. f \in [1..x[c] -> S]
    <2> SUFFICES ASSUME NEW r \in 1..x[c] PROVE b[at(r)] \in S
      OBVIOUS
    <2>1. at(r) \in 1..n /\ x[at(r)] <= x[c] /\ x[at(r)] # 0
      BY <1>1, <1>3
    <2>2. b[at(r)] <= b[c] /\ b[at(r)] # 0
      BY <1>2, <2>1
    <2> QED
      BY <2>1, <2>2
  <1>5. ASSUME NEW r \in 1..x[c], NEW s \in 1..x[c], f[r] = f[s]
        PROVE  r = s
    <2>1. b[at(r)] = b[at(s)]
      BY <1>5
    <2> QED
      BY <1>2, <1>3, <2>1
  <1>6. ASSUME NEW l \in S
        PROVE  \E r \in 1..x[c] : f[r] = l
    <2>1. PICK d \in 1..n : b[d] = l /\ l # 0 /\ l <= b[c]
      OBVIOUS
    <2>2. x[d] \in 1..x[c]
      BY <1>1, <1>2, <2>1
    <2>3. at(x[d]) \in 1..n /\ x[at(x[d])] = x[d]
      BY <1>3, <2>2
    <2>4. b[at(x[d])] = l
      BY <1>2, <2>1, <2>3
    <2>5. f[x[d]] = l
      BY <2>2, <2>4
    <2> QED
      BY <2>2, <2>5
  <1> HIDE DEF f, S
  <1>7. f \in Bijection(1..x[c], S)
    BY <1>4, <1>5, <1>6 DEF Bijection, Injection, Surjection, IsInjective
  <1>8. IsFiniteSet(1..x[c]) /\ Cardinality(1..x[c]) = x[c]
    BY <1>1, IntervalSize
  <1>9. ExistsBijection(1..x[c], S)
    BY <1>7 DEF ExistsBijection
  <1>10. Cardinality(S) = Cardinality(1..x[c])
    BY <1>8, <1>9, FS_Bijection
  <1> QED
    BY <1>8, <1>10 DEF S

(* The levels sent are the columns with ranks, from left to right.         *)
LEMMA LevelsCounted ==
    ASSUME NEW n \in Nat, NEW a, Arranged(a, n), NEW vote, LevelsFit(vote, a, n),
           NEW answer, answer = RemoveEmptyLevels(RanksOf(vote, n))
    PROVE  /\ answer \in [1..n -> Nat]
           /\ SameOrder(RanksOf(vote, n), answer)
           /\ NoHoles(answer)
           /\ \A c, d \in 1..n : Prefers(answer, c, d) <=> Before(a, vote, c, d)
  <1> DEFINE b == RanksOf(vote, n)
             index(c) == IndexOf(a, ColumnOf(a, c))
             ranked(c) == ColumnOf(a, c) # NotRanked
             back(c) == c \in MovedBack(a, vote)
  <1>1. /\ b \in [1..n -> Nat]
        /\ \A c \in 1..n : b[c] # 0 => b[c] = index(c) + 1
        /\ \A c \in 1..n : b[c] = 0 <=> ~ranked(c) /\ ~back(c)
    BY RankPlaces
  <1>2. ASSUME NEW c \in 1..n
        PROVE  /\ index(c) \in Nat
               /\ ranked(c) => index(c) < IndexOf(a, NotRanked)
               /\ ~ranked(c) => index(c) = IndexOf(a, NotRanked)
    <2>1. ColumnOf(a, c) \in DOMAIN a.columns
      BY ColumnFacts
    <2> QED
      BY <2>1, IndexFacts, NotRankedLast
  <1>3. answer \in [1..n -> Nat] /\ SameOrder(b, answer) /\ NoHoles(answer)
    BY <1>1, LevelsSent
  <1> HIDE DEF b, index, ranked, back
  <1>4. \A c, d \in 1..n :
            /\ answer[c] \in Nat /\ b[c] \in Nat
            /\ answer[c] = 0 <=> b[c] = 0
            /\ answer[c] < answer[d] <=> b[c] < b[d]
    BY <1>1, <1>3 DEF SameOrder
  <1>5. ASSUME NEW c \in 1..n, NEW d \in 1..n
        PROVE  (b[c] # 0 /\ (b[d] = 0 \/ b[c] < b[d]))
                    <=> \/ index(c) < index(d)
                        \/ ~ranked(c) /\ back(c) /\ ~ranked(d) /\ ~back(d)
    <2>1. /\ index(c) \in Nat /\ index(d) \in Nat
          /\ b[c] # 0 => b[c] = index(c) + 1
          /\ b[d] # 0 => b[d] = index(d) + 1
          /\ b[c] = 0 <=> ~ranked(c) /\ ~back(c)
          /\ b[d] = 0 <=> ~ranked(d) /\ ~back(d)
          /\ ranked(c) /\ ~ranked(d) => index(c) < index(d)
          /\ ranked(d) /\ ~ranked(c) => index(d) < index(c)
          /\ ~ranked(c) /\ ~ranked(d) => index(c) = index(d)
      BY <1>1, <1>2
    <2>2. CASE b[c] = 0
      BY <2>1, <2>2
    <2>3. CASE b[c] # 0 /\ b[d] = 0
      BY <2>1, <2>3
    <2>4. CASE b[c] # 0 /\ b[d] # 0
      BY <2>1, <2>4
    <2> QED
      BY <2>2, <2>3, <2>4
  <1>6. \A c, d \in 1..n : Before(a, vote, c, d) <=>
            \/ index(c) < index(d)
            \/ ~ranked(c) /\ back(c) /\ ~ranked(d) /\ ~back(d)
    BY DEF Before, index, ranked, back
  <1>7. \A c, d \in 1..n : Prefers(answer, c, d) <=>
            (b[c] # 0 /\ (b[d] = 0 \/ b[c] < b[d]))
    BY <1>4 DEF Prefers
  <1> QED
    BY <1>3, <1>5, <1>6, <1>7 DEF b

-----------------------------------------------------------------------------
(* The ranks of a ballot                                                   *)

(* A column without duplicates has at most n candidates.                   *)
LEMMA DistinctFits ==
    ASSUME NEW n \in Nat, NEW s \in Seq(1..n), Distinct(s)
    PROVE  Len(s) <= n
  <1> SUFFICES ASSUME Len(s) > n PROVE FALSE
    BY Len(s) \in Nat
  <1> DEFINE S == 1..Len(s)
             T == 1..n
  <1>1. s \in [S -> T] /\ Len(s) \in Nat
    OBVIOUS
  <1>2. IsFiniteSet(S) /\ IsFiniteSet(T) /\ Cardinality(T) < Cardinality(S)
    BY <1>1, IntervalSize
  <1> HIDE DEF T
  <1>3. \E i, j \in S : i # j /\ s[i] = s[j]
    <2> HIDE DEF S
    <2> QED
      BY <1>1, <1>2, FS_PigeonHole
  <1> QED
    BY <1>1, <1>3 DEF Distinct

(* The candidates a recapitulation shows at the ranks.                     *)
ShownAt(answer) ==
    [r \in {answer[c] : c \in DOMAIN answer} \ {0} |->
        CHOOSE c \in DOMAIN answer :
            answer[c] = r /\ \A d \in c + 1..Len(answer) : answer[d] # r]

(* A ballot that ranks the candidates of a list by their places, and no    *)
(* others, is processed into this list, and shown as this list.            *)
LEMMA RanksProcessed ==
    ASSUME NEW n \in Nat, NEW s \in Seq(1..n), Distinct(s),
           NEW answer \in [1..n -> Nat],
           \A c \in 1..n : c \notin ToSet(s) => answer[c] = 0,
           \A r \in DOMAIN s : answer[s[r]] = r
    PROVE  /\ Process(answer) = s
           /\ ShownAt(answer) = s
           /\ {c \in DOMAIN answer : answer[c] = 0} = (1..n) \ ToSet(s)
  <1>1. /\ Len(s) \in Nat /\ DOMAIN s = 1..Len(s) /\ Len(s) <= n
        /\ DOMAIN answer = 1..n /\ Len(answer) = n
        /\ s = [r \in 1..Len(s) |-> s[r]]
    BY DistinctFits
  <1>2. \A r \in 1..Len(s) : s[r] \in 1..n /\ answer[s[r]] = r
    BY <1>1
  <1>3. ASSUME NEW c \in 1..n, answer[c] # 0
        PROVE  answer[c] \in 1..Len(s) /\ s[answer[c]] = c
    <2>1. PICK r \in DOMAIN s : c = s[r]
      BY <1>3 DEF ToSet
    <2> QED
      BY <1>1, <1>2, <2>1
  <1> DEFINE upTo == {r \in 0..n : \A t \in 1..r : \E c \in 1..n : answer[c] = t}
             list == [r \in 1..Max(upTo) |->
                        CHOOSE c \in DOMAIN answer :
                            answer[c] = r /\ \A d \in 1..c - 1 : answer[d] # r]
  <1>4. Max(upTo) = Len(s)
    <2>1. Len(s) \in upTo
      BY <1>1, <1>2
    <2>2. ASSUME NEW r \in upTo PROVE r <= Len(s)
      <3> SUFFICES ASSUME r > Len(s) PROVE FALSE
        BY <1>1
      <3>1. Len(s) + 1 \in 1..r
        BY <1>1
      <3>2. PICK c \in 1..n : answer[c] = Len(s) + 1
        BY <3>1
      <3> QED
        BY <1>1, <1>3, <3>2, Len(s) + 1 # 0, ~(Len(s) + 1 <= Len(s))
    <2>3. upTo \in SUBSET Int
      OBVIOUS
    <2> HIDE DEF upTo
    <2>4. Passes!Max(upTo) = Len(s)
      BY <2>1, <2>2, <2>3, Passes!MaxIs
    <2> QED
      BY <2>4, Zenon DEF Max, Passes!Max
  <1>5. ASSUME NEW r \in 1..Len(s), NEW c \in 1..n, answer[c] = r
        PROVE  c = s[r]
    BY <1>2, <1>3, <1>5
  <1>6. list = s
    <2>1. ASSUME NEW r \in 1..Len(s)
          PROVE  s[r] = CHOOSE c \in DOMAIN answer :
                            answer[c] = r /\ \A d \in 1..c - 1 : answer[d] # r
      <3>1. \A d \in 1..s[r] - 1 : d \in 1..n /\ d # s[r]
        BY <1>2
      <3>2. s[r] \in DOMAIN answer /\ answer[s[r]] = r
            /\ \A d \in 1..s[r] - 1 : answer[d] # r
        BY <1>1, <1>2, <1>5, <3>1
      <3> QED
        BY <1>1, <1>5, <3>2
    <2> HIDE DEF upTo
    <2> QED
      BY <1>1, <1>4, <2>1
  <1>7. Process(answer) = s
    <2>1. \A c \in DOMAIN answer : answer[c] = 0 \/ c \in ToSet(s)
      BY <1>1
    <2>2. upTo = {r \in 0..Len(answer) :
                    \A t \in 1..r : \E c \in DOMAIN answer : answer[c] = t}
      BY <1>1
    <2> HIDE DEF upTo
    <2>3. Process(answer) =
            IF \A c \in DOMAIN answer : answer[c] = 0 \/ c \in ToSet(list)
            THEN list ELSE None
      BY <2>2, Zenon DEF Process
    <2> HIDE DEF list
    <2> QED
      BY <1>6, <2>1, <2>3
  <1>8. {answer[c] : c \in DOMAIN answer} \ {0} = 1..Len(s)
    <2>1. \A r \in 1..Len(s) : r # 0 /\ \E c \in DOMAIN answer : answer[c] = r
      BY <1>1, <1>2
    <2> QED
      BY <1>1, <1>3, <2>1
  <1>9. ASSUME NEW r \in 1..Len(s)
        PROVE  s[r] = CHOOSE c \in DOMAIN answer :
                        answer[c] = r /\ \A d \in c + 1..Len(answer) : answer[d] # r
    <2>1. \A d \in s[r] + 1..Len(answer) : d \in 1..n /\ d # s[r]
      BY <1>1, <1>2
    <2>2. s[r] \in DOMAIN answer /\ answer[s[r]] = r
          /\ \A d \in s[r] + 1..Len(answer) : answer[d] # r
      BY <1>1, <1>2, <1>5, <2>1
    <2> QED
      BY <1>1, <1>5, <2>2
  <1>10. ShownAt(answer) = s
    BY <1>1, <1>8, <1>9, Zenon DEF ShownAt
  <1>11. {c \in DOMAIN answer : answer[c] = 0} = (1..n) \ ToSet(s)
    <2>1. \A c \in ToSet(s) : c \in 1..n => answer[c] # 0
      BY <1>1, <1>2 DEF ToSet
    <2> QED
      BY <1>1, <2>1
  <1> QED
    BY <1>7, <1>10, <1>11

(* The ranks sent are the places in the column Ranked.                     *)
LEMMA RanksCounted ==
    ASSUME NEW n \in Nat, NEW a, Arranged(a, n), NEW vote, RanksFit(vote, a, n)
    PROVE  /\ Process(RanksOf(vote, n)) = a.columns[Ranked]
           /\ ShownAt(RanksOf(vote, n)) = a.columns[Ranked]
           /\ {c \in DOMAIN RanksOf(vote, n) : RanksOf(vote, n)[c] = 0} =
                ToSet(a.columns[NotRanked])
           /\ RanksOf(vote, n) \in [1..n -> Nat]
           /\ a.columns[Ranked] \in Seq(Nat)
           /\ \A c \in ToSet(a.columns[Ranked]) :
                c \in 1..n /\ RanksOf(vote, n)[c] # 0
  <1> DEFINE b == RanksOf(vote, n)
             s == a.columns[Ranked]
  <1>1. /\ DOMAIN a.columns = {Ranked, NotRanked}
        /\ \A k \in DOMAIN a.columns : a.columns[k] \in Seq(1..n) /\ Distinct(a.columns[k])
    BY DEF RanksFit, Arranged, Placed
  <1>2. s \in Seq(1..n) /\ Distinct(s) /\ a.columns[NotRanked] \in Seq(1..n)
    BY <1>1
  <1>3. ASSUME NEW c \in 1..n
        PROVE  /\ c \in ToSet(s) <=> ColumnOf(a, c) = Ranked
               /\ c \in ToSet(a.columns[NotRanked]) <=> ColumnOf(a, c) = NotRanked
               /\ ColumnOf(a, c) \in {Ranked, NotRanked}
    BY <1>1, ColumnFacts
  <1>4. ASSUME NEW c \in 1..n
        PROVE  b[c] = IF ColumnOf(a, c) = NotRanked THEN 0 ELSE PlaceOf(a, c)
    <2>1. vote[c] = IF ColumnOf(a, c) = NotRanked THEN None ELSE PlaceOf(a, c) - 1
      BY DEF RanksFit, VoteByPlace
    <2>2. b[c] = IF vote[c] = None THEN 0 ELSE vote[c] + 1
      BY DEF RanksOf
    <2> HIDE DEF b
    <2>3. PlaceOf(a, c) \in Nat \ {0}
      BY PlaceFacts
    <2>4. PlaceOf(a, c) - 1 \in Nat /\ PlaceOf(a, c) - 1 + 1 = PlaceOf(a, c)
      BY <2>3
    <2>5. PlaceOf(a, c) - 1 # None
      BY <2>4, ColumnsAssumption
    <2> QED
      BY <2>1, <2>2, <2>4, <2>5
  <1>5. b \in [1..n -> Nat]
    <2>1. b = [c \in 1..n |-> b[c]]
      BY DEF RanksOf
    <2> HIDE DEF b
    <2>2. \A c \in 1..n : b[c] \in Nat
      BY <1>4, PlaceFacts
    <2> QED
      BY <2>1, <2>2
  <1>6. \A c \in 1..n : c \notin ToSet(s) => b[c] = 0
    BY <1>3, <1>4
  <1>7. ASSUME NEW r \in DOMAIN s
        PROVE  b[s[r]] = r
    <2> DEFINE c == s[r]
    <2>1. c \in 1..n /\ c \in ToSet(s)
      BY <1>2 DEF ToSet
    <2>2. ColumnOf(a, c) = Ranked /\ Ranked # NotRanked
      BY <1>3, <2>1, ColumnsAssumption
    <2>3. r = PlaceOf(a, c)
      BY <2>1, <2>2, PlaceFacts
    <2> HIDE DEF b, c
    <2>4. b[c] = PlaceOf(a, c)
      BY <1>4, <2>1, <2>2
    <2> QED
      BY <2>3, <2>4 DEF c
  <1>8. (1..n) \ ToSet(s) = ToSet(a.columns[NotRanked])
    <2>1. \A c \in ToSet(a.columns[NotRanked]) : c \in 1..n
      BY <1>2 DEF ToSet
    <2> QED
      BY <1>3, <2>1, ColumnsAssumption
  <1>9. \A c \in ToSet(s) : c \in 1..n /\ b[c] # 0
    <2> HIDE DEF b, s
    <2>1. ASSUME NEW c \in ToSet(s)
          PROVE  c \in 1..n /\ b[c] # 0
      <3>1. PICK r \in DOMAIN s : c = s[r]
        BY DEF ToSet
      <3> QED
        BY <1>2, <1>7, <3>1
    <2> QED
      BY <2>1
  <1>10. s \in Seq(Nat)
    BY <1>2
  <1> HIDE DEF b, s
  <1>11. /\ Process(b) = s
         /\ ShownAt(b) = s
         /\ {c \in DOMAIN b : b[c] = 0} = (1..n) \ ToSet(s)
    BY <1>2, <1>5, <1>6, <1>7, RanksProcessed
  <1> QED
    BY <1>5, <1>8, <1>9, <1>10, <1>11 DEF b, s

-----------------------------------------------------------------------------
(* The conversion to a ballot                                              *)

(* The conversion of each kind of vote.                                    *)
LEMMA AnswerKinds ==
    ASSUME NEW q, NEW vote
    PROVE  /\ QuestionType(q) = "LISTS" => AnswerOf(q, vote) = vote
           /\ QuestionType(q) \in {"MAJORITY_JUDGMENT"} \cup Preferential
                /\ VotedBlank(q, vote) => AnswerOf(q, vote) = [c \in 1..q.n |-> 0]
           /\ QuestionType(q) = "SCHULZE" /\ ~VotedBlank(q, vote) =>
                AnswerOf(q, vote) = RemoveEmptyLevels(RanksOf(vote, q.n))
           /\ QuestionType(q) \in {"MAJORITY_JUDGMENT", "STV"}
                /\ ~VotedBlank(q, vote) => AnswerOf(q, vote) = RanksOf(vote, q.n)
           /\ QuestionType(q) = "CLASSIC" /\ q.blank =>
                AnswerOf(q, vote) =
                    <<IF vote[q.n + 1] = 1 THEN 1 ELSE 0>>
                        \o [c \in 1..q.n |-> Defined(vote[c])]
           /\ QuestionType(q) = "CLASSIC" /\ ~q.blank =>
                AnswerOf(q, vote) = [c \in 1..q.n |-> Defined(vote[c])]
  <1>1. CASE QuestionType(q) = "LISTS"
    BY <1>1 DEF AnswerOf, RanksOf, Preferential
  <1>2. CASE QuestionType(q) = "CLASSIC"
    BY <1>2 DEF AnswerOf, RanksOf, Preferential
  <1>3. CASE QuestionType(q) = "MAJORITY_JUDGMENT"
    BY <1>3 DEF AnswerOf, RanksOf, Preferential
  <1>4. CASE QuestionType(q) \in Preferential
    BY <1>4 DEF AnswerOf, RanksOf, Preferential
  <1>5. CASE QuestionType(q) \notin {"LISTS", "CLASSIC", "MAJORITY_JUDGMENT"}
                                    \cup Preferential
    BY <1>5 DEF Preferential
  <1> QED
    BY <1>1, <1>2, <1>3, <1>4, <1>5

-----------------------------------------------------------------------------
(* Classic questions                                                       *)

ClassicFit(q, vote) ==
    /\ \A c \in 1..q.n + 1 : vote[c] \in {None, 0, 1}
    /\ ~q.blank => vote[q.n + 1] = None

(* The choices, after the place of the blank vote if there is one.         *)
Shift(q) == IF q.blank THEN 1 ELSE 0

(* A classic ballot holds the choices after the blank vote.                *)
LEMMA ClassicAnswer ==
    ASSUME NEW q \in Descriptions, QuestionType(q) = "CLASSIC",
           NEW vote, ClassicFit(q, vote), NEW answer, answer = AnswerOf(q, vote)
    PROVE  /\ answer \in [1..q.n + Shift(q) -> {0, 1}]
           /\ Len(answer) = q.n + Shift(q)
           /\ \A c \in 1..q.n : answer[c + Shift(q)] = 1 <=> vote[c] = 1
           /\ q.blank => (answer[1] = 1 <=> vote[q.n + 1] = 1)
  <1>1. q.n \in Nat /\ q.blank \in BOOLEAN
    BY DEF Descriptions
  <1> DEFINE n == q.n
             s == [c \in 1..n |-> Defined(vote[c])]
  <1>2. \A c \in 1..n : s[c] \in {0, 1} /\ (s[c] = 1 <=> vote[c] = 1)
    BY <1>1, ColumnsAssumption DEF ClassicFit, Defined
  <1>3. s \in Seq({0, 1}) /\ Len(s) = n /\ DOMAIN s = 1..n
    BY <1>1, <1>2
  <1> HIDE DEF s
  <1>4. CASE q.blank
    <2> DEFINE first == <<IF vote[n + 1] = 1 THEN 1 ELSE 0>>
    <2>1. /\ first \in Seq({0, 1}) /\ Len(first) = 1
          /\ first[1] = 1 <=> vote[n + 1] = 1
      OBVIOUS
    <2>2. answer = first \o s
      <3>1. AnswerOf(q, vote) = first \o [c \in 1..n |-> Defined(vote[c])]
        BY <1>4 DEF AnswerOf, Preferential
      <3> QED
        BY <3>1 DEF s
    <2> HIDE DEF first
    <2>3. /\ first \o s \in Seq({0, 1}) /\ Len(first \o s) = n + 1
          /\ (first \o s)[1] = first[1]
          /\ \A c \in 1..n : (first \o s)[c + 1] = s[c]
      <3>1. /\ first \o s \in Seq({0, 1})
            /\ Len(first \o s) = Len(first) + Len(s)
            /\ \A c \in 1..Len(first) + Len(s) :
                (first \o s)[c] = IF c <= Len(first) THEN first[c] ELSE s[c - Len(first)]
        BY <1>3, <2>1, ConcatProperties
      <3>2. 1 \in 1..n + 1 /\ \A c \in 1..n : c + 1 \in 1..n + 1 /\ c + 1 - 1 = c
        BY <1>1
      <3> QED
        BY <1>1, <1>3, <2>1, <3>1, <3>2
    <2>4. Shift(q) = 1
      BY <1>4 DEF Shift
    <2>5. answer \in [1..n + 1 -> {0, 1}]
      <3>1. \A t \in Seq({0, 1}) : t \in [1..Len(t) -> {0, 1}]
        OBVIOUS
      <3>2. answer \in [1..Len(answer) -> {0, 1}]
        BY <2>2, <2>3, <3>1
      <3> QED
        BY <2>2, <2>3, <3>2
    <2> QED
      BY <1>2, <2>1, <2>2, <2>3, <2>4, <2>5
  <1>5. CASE ~q.blank
    <2>1. answer = s /\ Shift(q) = 0
      <3>1. AnswerOf(q, vote) = [c \in 1..n |-> Defined(vote[c])]
        BY <1>5, AnswerKinds, Zenon
      <3> QED
        BY <1>5, <3>1 DEF s, Shift
    <2>2. \A c \in 1..n : c + 0 = c
      BY <1>1
    <2> QED
      BY <1>1, <1>2, <1>3, <1>5, <2>1, <2>2
  <1> QED
    BY <1>1, <1>4, <1>5

(* The blank vote counts where it is allowed.                              *)
LEMMA ClassicBlank ==
    ASSUME NEW q, NEW vote, QuestionType(q) = "CLASSIC"
    PROVE  VotedBlank(q, vote) <=> q.blank /\ vote[q.n + 1] = 1
  BY DEF VotedBlank, BlankAllowed

(* A classic question without alerts is accepted by the encryption.        *)
LEMMA ClassicCountable ==
    ASSUME NEW q \in Descriptions, QuestionType(q) = "CLASSIC",
           NEW vote, ClassicFit(q, vote), AlertsOf(q, vote) = {}
    PROVE  ClassicAccepted(q, AnswerOf(q, vote))
  <1> DEFINE answer == AnswerOf(q, vote)
             blank == VotedBlank(q, vote)
             first == IF q.blank THEN 2 ELSE 1
             sum == MapThenSumSet(LAMBDA c : answer[c], first..Len(answer))
  <1>1. /\ q.n \in Nat /\ q.blank \in BOOLEAN /\ q.min \in Nat /\ q.max \in Nat
    BY DEF Descriptions
  <1>2. /\ answer \in [1..q.n + Shift(q) -> {0, 1}]
        /\ Len(answer) = q.n + Shift(q)
        /\ q.blank => (answer[1] = 1 <=> vote[q.n + 1] = 1)
    BY ClassicAnswer
  <1>3. /\ ~(blank /\ Checked(answer) > 1)
        /\ ~(~blank /\ Checked(answer) < q.min)
        /\ ~(~blank /\ Checked(answer) > q.max)
    BY DEF AlertsOf, Preferential
  <1>4. blank <=> q.blank /\ answer[1] = 1
    BY <1>2, ClassicBlank
  <1> HIDE DEF answer, blank
  <1> DEFINE all == 1..Len(answer)
             cells == first..Len(answer)
             m == Cardinality(Ones(answer, cells))
  <1>5. /\ Len(answer) \in Nat /\ DOMAIN answer = all
        /\ Len(answer) = q.n + first - 1
        /\ \A c \in all : answer[c] \in {0, 1}
        /\ first \in 1..2 /\ cells \subseteq all
        /\ q.blank => 1 \in all
    BY <1>1, <1>2 DEF Shift
  <1>6. IsFiniteSet(all) /\ IsFiniteSet(cells)
    <2>1. IsFiniteSet(all)
      BY <1>5, IntervalSize
    <2> QED
      BY <1>5, <2>1, FS_Subset
  <1>7. sum = m
    <2>1. \A c \in cells : answer[c] \in {0, 1}
      BY <1>5
    <2> HIDE DEF cells, first
    <2>2. MapThenSumSet(LAMBDA c : answer[c], cells) = m
      BY <1>6, <2>1, SumOfOnes
    <2> QED
      BY <2>2 DEF cells
  <1>8. Checked(answer) = Cardinality(Ones(answer, all))
    BY <1>5 DEF Checked, Ones
  <1>9. IsFiniteSet(Ones(answer, cells)) /\ m \in Nat
    <2>1. Ones(answer, cells) \in SUBSET cells
      BY DEF Ones
    <2> HIDE DEF cells
    <2> QED
      BY <1>6, <2>1, FS_Subset, FS_CardinalityType
  <1>10. CASE blank
    <2>1. q.blank /\ answer[1] = 1
      BY <1>4, <1>10
    <2>2. /\ Ones(answer, all) = Ones(answer, cells) \cup {1}
          /\ 1 \notin Ones(answer, cells)
      BY <1>5, <2>1 DEF Ones
    <2>3. Cardinality(Ones(answer, all)) = m + 1
      <3> HIDE DEF cells, all
      <3> QED
        BY <1>9, <2>2, FS_AddElement
    <2>4. m = 0
      BY <1>3, <1>8, <1>9, <1>10, <2>3
    <2> HIDE DEF m, sum
    <2> QED
      BY <1>5, <1>7, <2>1, <2>4 DEF ClassicAccepted, answer, sum
  <1>11. CASE ~blank
    <2>1. Ones(answer, all) = Ones(answer, cells)
      BY <1>4, <1>5, <1>11 DEF Ones
    <2>2. Checked(answer) = m
      BY <1>8, <2>1
    <2>3. m \in q.min..q.max
      BY <1>1, <1>3, <1>9, <1>11, <2>2
    <2>4. ~(q.blank /\ answer[1] = 1)
      BY <1>4, <1>11
    <2> HIDE DEF m, sum
    <2> QED
      BY <1>5, <1>7, <2>3, <2>4 DEF ClassicAccepted, answer, sum
  <1> QED
    BY <1>10, <1>11

(* The recapitulation skips the place of the blank vote.                   *)
LEMMA ClassicShown ==
    ASSUME NEW q \in Descriptions, QuestionType(q) = "CLASSIC",
           NEW vote, ClassicFit(q, vote), DOMAIN vote = 1..q.n + 1
    PROVE  WholeRecap(q, AnswerOf(q, vote)).marks =
               {IF c > q.n THEN BlankMark ELSE c : c \in {d \in DOMAIN vote : vote[d] = 1}}
  <1> DEFINE answer == AnswerOf(q, vote)
             Mark(k) == CASE answer[k] # 1 -> ErrorMark
                          [] answer[k] = 1 /\ k = 1 /\ q.blank -> BlankMark
                          [] OTHER -> IF q.blank THEN k - 1 ELSE k
             mine == {IF c > q.n THEN BlankMark ELSE c
                        : c \in {d \in DOMAIN vote : vote[d] = 1}}
  <1>1. WholeRecap(q, answer).marks = {Mark(k) : k \in {j \in DOMAIN answer : answer[j] # 0}}
    BY DEF WholeRecap, ClassicRecap
  <1>2. q.n \in Nat /\ q.blank \in BOOLEAN
    BY DEF Descriptions
  <1>3. /\ answer \in [1..q.n + Shift(q) -> {0, 1}]
        /\ \A c \in 1..q.n : answer[c + Shift(q)] = 1 <=> vote[c] = 1
        /\ q.blank => (answer[1] = 1 <=> vote[q.n + 1] = 1)
    BY ClassicAnswer
  <1>4. ~q.blank => vote[q.n + 1] # 1
    BY ColumnsAssumption DEF ClassicFit
  <1> HIDE DEF answer
  <1>5. ASSUME NEW k \in DOMAIN answer, answer[k] # 0
        PROVE  Mark(k) \in mine
    <2>1. answer[k] = 1 /\ k \in 1..q.n + Shift(q)
      BY <1>3, <1>5
    <2>2. CASE q.blank /\ k = 1
      <3>1. /\ Mark(k) = BlankMark /\ q.n + 1 \in DOMAIN vote
            /\ vote[q.n + 1] = 1 /\ q.n + 1 > q.n
        BY <1>2, <1>3, <2>1, <2>2
      <3> QED
        BY <3>1
    <2>3. CASE q.blank /\ k # 1
      <3>1. k - 1 \in 1..q.n /\ k - 1 + Shift(q) = k
        BY <1>2, <2>1, <2>3 DEF Shift
      <3>2. /\ Mark(k) = k - 1 /\ vote[k - 1] = 1 /\ k - 1 \in DOMAIN vote
            /\ ~(k - 1 > q.n)
        BY <1>2, <1>3, <2>1, <2>3, <3>1
      <3> QED
        BY <3>2
    <2>4. CASE ~q.blank
      <3>1. k \in 1..q.n /\ k + Shift(q) = k
        BY <1>2, <2>1, <2>4 DEF Shift
      <3>2. Mark(k) = k /\ vote[k] = 1 /\ k \in DOMAIN vote /\ ~(k > q.n)
        BY <1>2, <1>3, <2>1, <2>4, <3>1
      <3> QED
        BY <3>2
    <2> QED
      BY <1>2, <2>2, <2>3, <2>4
  <1>6. ASSUME NEW c \in DOMAIN vote, vote[c] = 1
        PROVE  \E k \in DOMAIN answer :
                    answer[k] # 0 /\ Mark(k) = IF c > q.n THEN BlankMark ELSE c
    <2>1. CASE c = q.n + 1
      <3>1. q.blank /\ answer[1] = 1 /\ 1 \in DOMAIN answer
        BY <1>2, <1>3, <1>4, <1>6, <2>1 DEF Shift
      <3>2. Mark(1) = BlankMark
        BY <3>1
      <3> QED
        BY <1>2, <2>1, <3>1, <3>2
    <2>2. CASE c \in 1..q.n
      <3> DEFINE k == c + Shift(q)
      <3>1. answer[k] = 1 /\ k \in DOMAIN answer
        BY <1>2, <1>3, <1>6, <2>2 DEF Shift
      <3>2. IF q.blank THEN k # 1 /\ k - 1 = c ELSE k = c
        BY <1>2, <2>2 DEF Shift
      <3> HIDE DEF k
      <3>3. Mark(k) = c
        BY <1>2, <3>1, <3>2
      <3> QED
        BY <1>2, <2>2, <3>1, <3>3
    <2> QED
      BY <1>2, <2>1, <2>2
  <1> HIDE DEF Mark
  <1> QED
    BY <1>1, <1>5, <1>6 DEF answer

(* The length of a function on 1..n.                                       *)
LEMMA FunctionLen ==
    ASSUME NEW n \in Nat, NEW f, f = [c \in 1..n |-> f[c]]
    PROVE  Len(f) = n
  <1> DEFINE S == {f[c] : c \in 1..n}
  <1>1. \A c \in 1..n : f[c] \in S
    OBVIOUS
  <1> HIDE DEF S
  <1>2. f \in [1..n -> S]
    BY <1>1
  <1>3. \A T : \A g \in [1..n -> T] : Len(g) = n
    OBVIOUS
  <1> QED
    BY <1>2, <1>3, Zenon

-----------------------------------------------------------------------------
(* Questions with lists: the voter has chosen nothing, or one list.        *)

Selected(q, vote, l) ==
    /\ vote[l][0] = 1
    /\ \A c \in 0..q.sizes[l] : vote[l][c] \in {0, 1}
    /\ \A k \in 1..Len(q.sizes) \ {l} : \A c \in 0..q.sizes[k] : vote[k][c] = 0

ListsFit(q, vote) ==
    /\ vote = [l \in 1..Len(q.sizes) |-> vote[l]]
    /\ \A l \in 1..Len(q.sizes) : DOMAIN vote[l] = 0..q.sizes[l]
    /\ \/ \A l \in 1..Len(q.sizes) : \A c \in 0..q.sizes[l] : vote[l][c] = None
       \/ \E l \in 1..Len(q.sizes) : Selected(q, vote, l)

(* A vote without alerts has one list, and a candidate of it.              *)
LEMMA ListSelected ==
    ASSUME NEW q \in Descriptions, QuestionType(q) = "LISTS",
           NEW vote, ListsFit(q, vote), AlertsOf(q, vote) = {}
    PROVE  \E l \in 1..Len(q.sizes) :
               /\ Selected(q, vote, l)
               /\ \E c \in 1..q.sizes[l] : vote[l][c] = 1
  <1>1. q.sizes \in Seq(Nat) /\ \A l \in 1..Len(q.sizes) : q.sizes[l] \in Nat
    BY DEF Descriptions
  <1>2. DOMAIN vote = 1..Len(q.sizes)
    BY DEF ListsFit
  <1>3. PICK l \in 1..Len(q.sizes) :
            vote[l][0] = 1 /\ \E c \in DOMAIN vote[l] \ {0} : vote[l][c] = 1
    <2>1. AnswerOf(q, vote) = vote
      BY AnswerKinds
    <2>2. AlertsOf(q, vote) =
            IF \E l \in DOMAIN vote :
                /\ vote[l][0] = 1
                /\ \A k \in 1..l - 1 : vote[k][0] # 1
                /\ \E c \in DOMAIN vote[l] \ {0} : vote[l][c] = 1
            THEN {} ELSE {<<"more">>}
      BY <2>1 DEF AlertsOf, Preferential
    <2> QED
      BY <1>2, <2>2
  <1>4. \E c \in 1..q.sizes[l] : vote[l][c] = 1
    <2>1. DOMAIN vote[l] \ {0} = 1..q.sizes[l]
      <3>1. DOMAIN vote[l] = 0..q.sizes[l] /\ q.sizes[l] \in Nat
        BY <1>1 DEF ListsFit
      <3>2. \A m \in Nat : (0..m) \ {0} = 1..m
        OBVIOUS
      <3> QED
        BY <3>1, <3>2
    <2> QED
      BY <1>3, <2>1
  <1>5. Selected(q, vote, l)
    <2>1. 0 \in 0..q.sizes[l]
      BY <1>1
    <2>2. PICK m \in 1..Len(q.sizes) : Selected(q, vote, m)
      <3>1. 1 # None
        BY ColumnsAssumption
      <3>2. vote[l][0] # None
        BY <1>3, <3>1
      <3> QED
        BY <2>1, <3>2 DEF ListsFit
    <2>3. m = l
      BY <1>3, <2>1, <2>2 DEF Selected
    <2> QED
      BY <2>2, <2>3
  <1> QED
    BY <1>4, <1>5

(* The encryption accepts it.                                              *)
LEMMA ListsCountable ==
    ASSUME NEW q \in Descriptions, QuestionType(q) = "LISTS",
           NEW vote, ListsFit(q, vote), AlertsOf(q, vote) = {}
    PROVE  ListsAccepted(q, AnswerOf(q, vote))
  <1>1. q.sizes \in Seq(Nat) /\ \A l \in 1..Len(q.sizes) : q.sizes[l] \in Nat
    BY DEF Descriptions
  <1>2. DOMAIN vote = 1..Len(q.sizes) /\ Len(vote) = Len(q.sizes)
    BY <1>1, FunctionLen DEF ListsFit
  <1>3. PICK l \in 1..Len(q.sizes) :
            Selected(q, vote, l) /\ \E c \in 1..q.sizes[l] : vote[l][c] = 1
    BY ListSelected
  <1>4. \A k \in 1..Len(q.sizes) : \A c \in 0..q.sizes[k] : vote[k][c] \in {0, 1}
    BY <1>3 DEF Selected
  <1>5. \A k \in 1..Len(q.sizes) : 0 \in 0..q.sizes[k]
    BY <1>1
  <1>6. {k \in DOMAIN vote : vote[k][0] = 1} = {l}
    BY <1>2, <1>3, <1>5 DEF Selected
  <1>7. Cardinality({k \in DOMAIN vote : vote[k][0] = 1}) = 1
    BY <1>6, FS_Singleton
  <1>8. \A k \in 1..Len(q.sizes) : \A c \in 1..q.sizes[k] :
            c \in 0..q.sizes[k] /\ (vote[k][c] = 1 => vote[k][0] = 1)
    <2>1. \A k \in 1..Len(q.sizes) : \A c \in 1..q.sizes[k] : c \in 0..q.sizes[k]
      BY <1>1
    <2> QED
      BY <1>3, <2>1 DEF Selected
  <1>9. ListsAccepted(q, vote)
    BY <1>2, <1>3, <1>4, <1>7, <1>8 DEF ListsAccepted
  <1> QED
    BY <1>9, AnswerKinds

(* The recapitulation shows the list and its candidates.                   *)
LEMMA ListsShown ==
    ASSUME NEW q \in Descriptions, QuestionType(q) = "LISTS",
           NEW vote, ListsFit(q, vote), AlertsOf(q, vote) = {}
    PROVE  WholeRecap(q, AnswerOf(q, vote)).lists =
               {<<l, {c \in 1..q.sizes[l] : vote[l][c] = 1}>>
                    : l \in {k \in DOMAIN vote : vote[k][0] = 1}}
  <1>1. q.sizes \in Seq(Nat) /\ \A l \in 1..Len(q.sizes) : q.sizes[l] \in Nat
    BY DEF Descriptions
  <1>2. PICK l \in 1..Len(q.sizes) : Selected(q, vote, l)
    BY ListSelected
  <1>3. \A k \in DOMAIN vote : vote[k][0] # 0 <=> vote[k][0] = 1
    <2>1. \A k \in 1..Len(q.sizes) : 0 \in 0..q.sizes[k]
      BY <1>1
    <2>2. DOMAIN vote = 1..Len(q.sizes)
      BY DEF ListsFit
    <2> QED
      BY <1>2, <2>1, <2>2 DEF Selected
  <1>4. AnswerOf(q, vote) = vote
    BY AnswerKinds
  <1>5. WholeRecap(q, vote).lists =
            {IF vote[k][0] = 1
             THEN <<k, {c \in 1..q.sizes[k] : vote[k][c] = 1}>> ELSE ErrorMark
             : k \in {j \in DOMAIN vote : vote[j][0] # 0}}
    BY DEF WholeRecap, ListsRecap
  <1>6. {j \in DOMAIN vote : vote[j][0] # 0} = {j \in DOMAIN vote : vote[j][0] = 1}
    BY <1>3
  <1> DEFINE chosen == {j \in DOMAIN vote : vote[j][0] = 1}
             Shown(k) == <<k, {c \in 1..q.sizes[k] : vote[k][c] = 1}>>
  <1>7. \A k \in chosen : vote[k][0] = 1
    OBVIOUS
  <1>8. WholeRecap(q, vote).lists =
            {IF vote[k][0] = 1 THEN Shown(k) ELSE ErrorMark : k \in chosen}
    BY <1>5, <1>6
  <1> HIDE DEF chosen, Shown
  <1>9. WholeRecap(q, vote).lists = {Shown(k) : k \in chosen}
    BY <1>7, <1>8
  <1> QED
    BY <1>4, <1>9 DEF chosen, Shown

-----------------------------------------------------------------------------
(* Graded questions                                                        *)

GradesFit(q, vote) == \A c \in 1..q.n : vote[c] \in 0..q.grades - 1 \cup {None}

(* Without alerts every candidate has a grade, sent one higher.            *)
LEMMA GradesSent ==
    ASSUME NEW q \in Descriptions, QuestionType(q) = "MAJORITY_JUDGMENT",
           NEW vote, GradesFit(q, vote), AlertsOf(q, vote) = {},
           ~VotedBlank(q, vote)
    PROVE  /\ AnswerOf(q, vote) = RanksOf(vote, q.n)
           /\ \A c \in 1..q.n : /\ RanksOf(vote, q.n)[c] \in 1..q.grades
                                /\ RanksOf(vote, q.n)[c] - 1 = vote[c]
  <1>1. q.n \in Nat /\ q.grades \in Nat
    BY DEF Descriptions
  <1>2. AnswerOf(q, vote) = RanksOf(vote, q.n)
    BY AnswerKinds
  <1>3. AlertsOf(q, vote) = {<<"grade", c>> : c \in {d \in 1..q.n : vote[d] = None}}
    BY AlertKinds
  <1>4. \A c \in 1..q.n : vote[c] # None
    BY <1>3
  <1>5. ASSUME NEW c \in 1..q.n
        PROVE  RanksOf(vote, q.n)[c] \in 1..q.grades /\ RanksOf(vote, q.n)[c] - 1 = vote[c]
    <2>1. vote[c] \in 0..q.grades - 1
      BY <1>4 DEF GradesFit
    <2>2. RanksOf(vote, q.n)[c] = vote[c] + 1
      BY <1>4 DEF RanksOf
    <2> QED
      BY <1>1, <2>1, <2>2
  <1> QED
    BY <1>2, <1>5

(* The recapitulation shows the grades chosen.                             *)
LEMMA GradesShown ==
    ASSUME NEW q \in Descriptions, QuestionType(q) = "MAJORITY_JUDGMENT",
           NEW vote, GradesFit(q, vote), AlertsOf(q, vote) = {},
           ~VotedBlank(q, vote)
    PROVE  WholeRecap(q, AnswerOf(q, vote)) =
               IF q.blank /\ q.n = 0 THEN Blank
               ELSE [grades |-> [c \in 1..q.n |-> vote[c]]]
  <1> DEFINE answer == RanksOf(vote, q.n)
  <1>1. /\ AnswerOf(q, vote) = answer
        /\ \A c \in 1..q.n : answer[c] \in 1..q.grades /\ answer[c] - 1 = vote[c]
    BY GradesSent
  <1>2. DOMAIN answer = 1..q.n /\ q.n \in Nat /\ q.grades \in Nat
    BY DEF RanksOf, Descriptions
  <1> HIDE DEF answer
  <1>3. AllZero(answer) <=> q.n = 0
    <2>1. ASSUME q.n # 0 PROVE ~AllZero(answer)
      <3>1. 1 \in 1..q.n
        BY <1>2, <2>1
      <3>2. answer[1] # 0
        BY <1>1, <1>2, <3>1
      <3> QED
        BY <1>2, <3>1, <3>2 DEF AllZero
    <2>2. ASSUME q.n = 0 PROVE AllZero(answer)
      BY <1>2, <2>2 DEF AllZero
    <2> QED
      BY <2>1, <2>2
  <1>4. [c \in DOMAIN answer |->
            IF answer[c] \in 1..q.grades THEN answer[c] - 1 ELSE ErrorMark] =
        [c \in 1..q.n |-> vote[c]]
    BY <1>1, <1>2
  <1>5. WholeRecap(q, answer) = GradesRecap(q, answer)
    BY DEF WholeRecap
  <1> QED
    BY <1>1, <1>3, <1>4, <1>5 DEF GradesRecap

-----------------------------------------------------------------------------
(* A question, whatever its kind                                           *)

(* The vote is one that the page can make, and it agrees with the          *)
(* arrangement of a preferential list.                                     *)
Fit(q, vote, a) ==
    /\ QuestionType(q) = "CLASSIC" => ClassicFit(q, vote)
    /\ QuestionType(q) = "LISTS" => ListsFit(q, vote)
    /\ QuestionType(q) = "MAJORITY_JUDGMENT" => GradesFit(q, vote)
    /\ QuestionType(q) = "SCHULZE" => LevelsFit(vote, a, q.n)
    /\ QuestionType(q) = "STV" => RanksFit(vote, a, q.n)

(* A blank vote is counted as one, and shown as one.                       *)
LEMMA BlankSent ==
    ASSUME NEW q \in Descriptions, NEW vote, VotedBlank(q, vote),
           QuestionType(q) \in {"MAJORITY_JUDGMENT"} \cup Preferential
    PROVE  /\ Countable(q, AnswerOf(q, vote))
           /\ WholeRecap(q, AnswerOf(q, vote)) = Blank
  <1> DEFINE answer == [c \in 1..q.n |-> 0]
  <1>1. AnswerOf(q, vote) = answer
    BY AnswerKinds
  <1>2. q.n \in Nat /\ q.blank
    BY DEF Descriptions, VotedBlank, BlankAllowed
  <1>3. answer \in [1..q.n -> Nat] /\ Len(answer) = q.n
    BY <1>2
  <1>4. AllZero(answer)
    BY DEF AllZero
  <1>5. Process(answer) # None
    <2>1. PICK s : s = <<>>
      OBVIOUS
    <2>2. s \in Seq(1..q.n) /\ Distinct(s) /\ s \in Seq(Nat) /\ DOMAIN s = {}
      BY <2>1 DEF Distinct
    <2>3. /\ \A c \in 1..q.n : c \notin ToSet(s) => answer[c] = 0
          /\ \A r \in DOMAIN s : answer[s[r]] = r
      BY <2>2
    <2> HIDE DEF answer
    <2>4. Process(answer) = s
      <3>1. q.n \in Nat /\ answer \in [1..q.n -> Nat] /\ s \in Seq(1..q.n) /\ Distinct(s)
        BY <1>2, <1>3, <2>2
      <3> QED
        BY <2>3, <3>1, RanksProcessed
    <2> QED
      BY <2>2, <2>4, ColumnsAssumption
  <1> HIDE DEF answer
  <1>6. WholeRecap(q, answer) = Blank
    BY <1>2, <1>4 DEF WholeRecap, GradesRecap, LevelsRecap, RanksRecap, Preferential
  <1>7. Countable(q, answer)
    BY <1>2, <1>3, <1>4, <1>5 DEF Countable, GradesCounted, Preferential
  <1> QED
    BY <1>1, <1>6, <1>7

(* What passes the checks of the page can be encrypted and is counted.     *)
LEMMA FitCountable ==
    ASSUME NEW q \in Descriptions, NEW vote, NEW a, Fit(q, vote, a),
           QuestionType(q) \in Preferential => Arranged(a, q.n),
           AlertsOf(q, vote) = {}, QuestionType(q) # "GENERIC"
    PROVE  Countable(q, AnswerOf(q, vote))
  <1> DEFINE answer == AnswerOf(q, vote)
  <1>1. q.n \in Nat
    BY DEF Descriptions
  <1>2. CASE QuestionType(q) = "CLASSIC"
    BY <1>2, ClassicCountable DEF Fit, Countable
  <1>3. CASE QuestionType(q) = "LISTS"
    BY <1>3, ListsCountable DEF Fit, Countable
  <1>4. CASE QuestionType(q) = "MAJORITY_JUDGMENT"
    <2>1. CASE VotedBlank(q, vote)
      BY <1>4, <2>1, BlankSent
    <2>2. CASE ~VotedBlank(q, vote)
      <3>1. GradesCounted(q, answer)
        BY <1>4, <2>2, GradesSent DEF Fit, GradesCounted
      <3> QED
        BY <1>4, <3>1 DEF Countable
    <2> QED
      BY <2>1, <2>2
  <1>5. CASE QuestionType(q) = "STV"
    <2>1. CASE VotedBlank(q, vote)
      BY <1>5, <2>1, BlankSent DEF Preferential
    <2>2. CASE ~VotedBlank(q, vote)
      <3>1. Arranged(a, q.n) /\ RanksFit(vote, a, q.n)
        BY <1>5 DEF Fit, Preferential
      <3>2. Process(answer) = a.columns[Ranked] /\ a.columns[Ranked] \in Seq(Nat)
        <4>1. answer = RanksOf(vote, q.n)
          BY <1>5, <2>2, AnswerKinds
        <4> QED
          BY <1>1, <3>1, <4>1, RanksCounted
      <3>3. Process(answer) # None
        BY <3>2, ColumnsAssumption
      <3> QED
        BY <1>5, <3>3 DEF Countable
    <2> QED
      BY <2>1, <2>2
  <1>6. CASE QuestionType(q) = "SCHULZE"
    <2>1. CASE VotedBlank(q, vote)
      BY <1>6, <2>1, BlankSent DEF Preferential
    <2>2. CASE ~VotedBlank(q, vote)
      <3>1. Arranged(a, q.n) /\ LevelsFit(vote, a, q.n)
        BY <1>6 DEF Fit, Preferential
      <3>2. answer \in [1..q.n -> Nat]
        <4>1. answer = RemoveEmptyLevels(RanksOf(vote, q.n))
          BY <1>6, <2>2, AnswerKinds
        <4> QED
          BY <1>1, <3>1, <4>1, LevelsCounted
      <3>3. Len(answer) = q.n
        BY <1>1, <3>2
      <3> QED
        BY <1>6, <3>3 DEF Countable
    <2> QED
      BY <2>1, <2>2
  <1>7. CASE QuestionType(q) \notin {"CLASSIC", "LISTS", "MAJORITY_JUDGMENT", "STV", "SCHULZE"}
    <2>1. answer = [c \in 1..q.n |-> Defined(vote[c])]
      BY <1>7 DEF AnswerOf, Preferential
    <2>2. answer = [c \in 1..q.n |-> answer[c]]
      BY <2>1
    <2>3. Len(answer) = q.n
      BY <1>1, <2>2, FunctionLen
    <2> QED
      BY <1>7, <2>3 DEF Countable
  <1> QED
    BY <1>2, <1>3, <1>4, <1>5, <1>6, <1>7

(* What the count reads of a ballot, in terms of the columns displayed.    *)
Counted(q, vote, a) ==
    /\ QuestionType(q) = "SCHULZE" =>
        /\ \A c, d \in 1..q.n :
                Prefers(AnswerOf(q, vote), c, d) <=> Before(a, vote, c, d)
        /\ \A c \in 1..q.n : \A r \in 1..AnswerOf(q, vote)[c] :
                \E d \in 1..q.n : AnswerOf(q, vote)[d] = r
    /\ QuestionType(q) = "STV" => Process(AnswerOf(q, vote)) = a.columns[Ranked]

(* Levels are compared, and ranks processed, from the columns.             *)
LEMMA FitCounted ==
    ASSUME NEW q \in Descriptions, NEW vote, NEW a, Fit(q, vote, a),
           QuestionType(q) \in Preferential => Arranged(a, q.n),
           ~VotedBlank(q, vote)
    PROVE  Counted(q, vote, a)
  <1> DEFINE answer == AnswerOf(q, vote)
  <1>1. q.n \in Nat
    BY DEF Descriptions
  <1>2. CASE QuestionType(q) = "SCHULZE"
    <2>1. Arranged(a, q.n) /\ LevelsFit(vote, a, q.n)
      BY <1>2 DEF Fit, Preferential
    <2>2. answer = RemoveEmptyLevels(RanksOf(vote, q.n))
      BY <1>2, AnswerKinds
    <2>3. /\ answer \in [1..q.n -> Nat] /\ NoHoles(answer)
          /\ \A c, d \in 1..q.n : Prefers(answer, c, d) <=> Before(a, vote, c, d)
      BY <1>1, <2>1, <2>2, LevelsCounted
    <2>4. DOMAIN answer = 1..q.n
      BY <2>3
    <2> QED
      BY <1>2, <2>3, <2>4 DEF Counted, NoHoles
  <1>3. CASE QuestionType(q) = "STV"
    <2>1. Arranged(a, q.n) /\ RanksFit(vote, a, q.n)
      BY <1>3 DEF Fit, Preferential
    <2>2. answer = RanksOf(vote, q.n)
      BY <1>3, AnswerKinds
    <2>3. Process(answer) = a.columns[Ranked]
      BY <1>1, <2>1, <2>2, RanksCounted
    <2> QED
      BY <1>3, <2>3 DEF Counted
  <1> QED
    BY <1>2, <1>3 DEF Counted

-----------------------------------------------------------------------------
(* The review of a preferential question                                   *)

(* The review shows the columns with ranks, numbered from left to right.   *)
LEMMA LevelsShown ==
    ASSUME NEW q \in Descriptions, QuestionType(q) = "SCHULZE",
           NEW vote, NEW a, LevelsFit(vote, a, q.n), Arranged(a, q.n),
           ~VotedBlank(q, vote)
    PROVE  WholeRecap(q, AnswerOf(q, vote)) = LevelsReview(q, a, vote)
  <1> DEFINE answer == AnswerOf(q, vote)
             n == q.n
             b == RanksOf(vote, n)
             levels == Levels(a, vote)
             Number(p) == Cardinality({l \in levels : l <= p})
             Column(p) == RankedIn(a, vote, p)
             Level(c) == {d \in DOMAIN answer : answer[d] = answer[c]}
             rest == ToSet(a.columns[NotRanked]) \ MovedBack(a, vote)
  <1>1. n \in Nat /\ answer = RemoveEmptyLevels(b)
    BY AnswerKinds DEF Descriptions
  <1>2. answer \in [1..n -> Nat] /\ SameOrder(b, answer) /\ NoHoles(answer)
    BY <1>1, LevelsCounted
  <1>3. /\ b \in [1..n -> Nat]
        /\ \A c \in 1..n : b[c] # 0 => b[c] \in DOMAIN a.order
        /\ \A p \in DOMAIN a.order : Column(p) = {c \in 1..n : b[c] = p}
        /\ levels = {b[c] : c \in 1..n} \ {0}
        /\ rest = {c \in 1..n : b[c] = 0}
    BY <1>1, RankPlaces
  <1>4. WholeRecap(q, answer) =
            IF q.blank /\ AllZero(answer) THEN Blank
            ELSE [levels |-> {<<answer[c], Level(c)>>
                                : c \in {d \in DOMAIN answer : answer[d] # 0}},
                  notRanked |-> {c \in DOMAIN answer : answer[c] = 0}]
    BY DEF WholeRecap, LevelsRecap
  <1> HIDE DEF answer, b, levels, rest, n
  <1>5. DOMAIN answer = 1..n /\ DOMAIN b = 1..n
    BY <1>2, <1>3
  <1>6. \A c, d \in 1..n : /\ answer[c] = 0 <=> b[c] = 0
                           /\ answer[c] = answer[d] <=> b[c] = b[d]
    <2>1. \A c, d \in 1..n : /\ answer[c] \in Nat /\ b[c] \in Nat
                             /\ answer[c] = 0 <=> b[c] = 0
                             /\ answer[c] < answer[d] <=> b[c] < b[d]
      BY <1>2, <1>3, <1>5 DEF SameOrder
    <2> QED
      BY <2>1
  <1>7. AllZero(answer) <=> levels = {}
    BY <1>3, <1>5, <1>6 DEF AllZero
  <1>8. {c \in DOMAIN answer : answer[c] = 0} = rest
    BY <1>3, <1>5, <1>6
  <1>9. ASSUME NEW c \in 1..n, b[c] # 0
        PROVE  b[c] \in levels /\ answer[c] = Number(b[c]) /\ Level(c) = Column(b[c])
    <2>1. answer[c] = Cardinality({l \in {b[d] : d \in 1..n} \ {0} : l <= b[c]})
      <3>1. /\ n \in Nat /\ b \in [1..n -> Nat] /\ answer \in [1..n -> Nat]
            /\ SameOrder(b, answer) /\ NoHoles(answer) /\ c \in 1..n /\ b[c] # 0
        BY <1>1, <1>2, <1>3, <1>9
      <3> QED
        BY <3>1, LevelNumber
    <2>2. answer[c] = Number(b[c])
      BY <1>3, <2>1
    <2>3. Level(c) = Column(b[c])
      <3>1. Column(b[c]) = {d \in 1..n : b[d] = b[c]}
        BY <1>3, <1>9
      <3> HIDE DEF Column
      <3> QED
        BY <1>5, <1>6, <3>1
    <2>4. b[c] \in levels
      BY <1>3, <1>9
    <2> QED
      BY <2>2, <2>3, <2>4
  <1>10. \A p \in levels : \E c \in 1..n : b[c] = p /\ b[c] # 0
    BY <1>3
  <1> HIDE DEF Number, Column, Level
  <1>11. {<<answer[c], Level(c)>> : c \in {d \in DOMAIN answer : answer[d] # 0}} =
            {<<Number(p), Column(p)>> : p \in levels}
    <2>1. ASSUME NEW c \in {d \in DOMAIN answer : answer[d] # 0}
          PROVE  <<answer[c], Level(c)>> \in {<<Number(p), Column(p)>> : p \in levels}
      <3>1. c \in 1..n /\ b[c] # 0
        BY <1>5, <1>6
      <3> QED
        BY <1>9, <3>1
    <2>2. ASSUME NEW p \in levels
          PROVE  \E c \in {d \in DOMAIN answer : answer[d] # 0} :
                    <<Number(p), Column(p)>> = <<answer[c], Level(c)>>
      <3>1. PICK c \in 1..n : b[c] = p /\ b[c] # 0
        BY <1>10
      <3>2. c \in {d \in DOMAIN answer : answer[d] # 0}
        BY <1>5, <1>6, <3>1
      <3> QED
        BY <1>9, <3>1, <3>2
    <2> QED
      BY <2>1, <2>2
  <1>12. WholeRecap(q, answer) =
            IF q.blank /\ levels = {} THEN Blank
            ELSE [levels |-> {<<Number(p), Column(p)>> : p \in levels},
                  notRanked |-> rest]
    BY <1>4, <1>7, <1>8, <1>11
  <1> QED
    BY <1>12 DEF LevelsReview, answer, levels, rest, Number, Column

(* The ranks shown are the column Ranked from top to bottom.               *)
LEMMA RanksShown ==
    ASSUME NEW q \in Descriptions, QuestionType(q) = "STV",
           NEW vote, NEW a, RanksFit(vote, a, q.n), Arranged(a, q.n),
           ~VotedBlank(q, vote)
    PROVE  WholeRecap(q, AnswerOf(q, vote)) =
               IF q.blank /\ a.columns[Ranked] = <<>> THEN Blank
               ELSE [ranks |-> a.columns[Ranked],
                     notRanked |-> ToSet(a.columns[NotRanked])]
  <1> DEFINE answer == RanksOf(vote, q.n)
             s == a.columns[Ranked]
  <1>1. AnswerOf(q, vote) = answer /\ q.n \in Nat
    BY AnswerKinds DEF Descriptions
  <1>2. /\ ShownAt(answer) = s
        /\ {c \in DOMAIN answer : answer[c] = 0} = ToSet(a.columns[NotRanked])
        /\ answer \in [1..q.n -> Nat] /\ s \in Seq(Nat)
        /\ \A c \in ToSet(s) : c \in 1..q.n /\ answer[c] # 0
        /\ Process(answer) = s
    BY <1>1, RanksCounted
  <1> HIDE DEF answer, s
  <1>3. WholeRecap(q, answer) =
            IF q.blank /\ AllZero(answer) THEN Blank
            ELSE [ranks |-> s, notRanked |-> ToSet(a.columns[NotRanked])]
    <2>1. WholeRecap(q, answer) = RanksRecap(q, answer)
      BY DEF WholeRecap
    <2>2. RanksRecap(q, answer) =
            IF q.blank /\ AllZero(answer) THEN Blank
            ELSE [ranks |-> ShownAt(answer),
                  notRanked |-> {c \in DOMAIN answer : answer[c] = 0}]
      BY DEF RanksRecap, ShownAt
    <2> QED
      BY <1>2, <2>1, <2>2
  <1>4. AllZero(answer) <=> s = <<>>
    <2>1. ASSUME AllZero(answer) PROVE s = <<>>
      <3>1. ToSet(s) = {}
        BY <1>2, <2>1 DEF AllZero
      <3> QED
        BY <1>2, <3>1 DEF ToSet
    <2>2. ASSUME s = <<>> PROVE AllZero(answer)
      <3>1. DOMAIN ShownAt(answer) = {answer[c] : c \in DOMAIN answer} \ {0}
        BY DEF ShownAt
      <3>2. DOMAIN ShownAt(answer) = {}
        BY <1>2, <2>2
      <3> QED
        BY <3>1, <3>2 DEF AllZero
    <2> QED
      BY <2>1, <2>2
  <1> QED
    BY <1>1, <1>3, <1>4 DEF s

-----------------------------------------------------------------------------
(* The vote and the arrangement after an event                             *)

(* A move takes one candidate to the column it is moved to.                *)
LEMMA MoveColumns ==
    ASSUME NEW n \in Nat, NEW a, Arranged(a, n),
           NEW from \in DOMAIN a.columns, NEW to \in DOMAIN a.columns,
           NEW i \in DOMAIN a.columns[from], NEW k \in Nat \ {0},
           NEW b, b = Move(a, from, i, to, k)
    PROVE  /\ b.order = a.order
           /\ DOMAIN b.columns = DOMAIN a.columns
           /\ a.columns[from][i] \in 1..n
           /\ ColumnOf(b, a.columns[from][i]) = to
           /\ \A d \in 1..n :
                d # a.columns[from][i] => ColumnOf(b, d) = ColumnOf(a, d)
  <1> DEFINE c == a.columns[from][i]
             taken == RemoveAt(a.columns[from], i)
             put == Put(IF from = to THEN taken ELSE a.columns[to], k, c)
             new == [a.columns EXCEPT ![from] = taken, ![to] = put]
  <1>1. /\ Placed(a.columns, n)
        /\ a = [columns |-> a.columns, order |-> a.order, created |-> a.created]
    BY DEF Arranged
  <1>2. /\ c \in ToSet(new[to])
        /\ \A h \in DOMAIN a.columns :
                ToSet(a.columns[h]) \ {c} \subseteq ToSet(new[h])
    <2>1. /\ taken = RemoveAt(a.columns[from], i)
          /\ put = Put(IF from = to THEN taken ELSE a.columns[to], k,
                       a.columns[from][i])
          /\ new = [a.columns EXCEPT ![from] = taken, ![to] = put]
      OBVIOUS
    <2> HIDE DEF taken, put, new
    <2> QED
      BY <1>1, <2>1, MovePlaced
  <1>3. b = [a EXCEPT !.columns = new]
    BY DEF Move
  <1>4. DOMAIN new = DOMAIN a.columns
    BY <1>1 DEF Placed
  <1>5. c \in 1..n
    BY <1>1 DEF Placed
  <1>6. Arranged(b, n)
    BY MoveArranged
  <1> HIDE DEF new, c
  <1>7. b.columns = new /\ b.order = a.order
    BY <1>1, <1>3
  <1>8. ColumnOf(b, c) = to
    BY <1>2, <1>4, <1>5, <1>6, <1>7, ColumnFacts
  <1>9. ASSUME NEW d \in 1..n, d # c
        PROVE  ColumnOf(b, d) = ColumnOf(a, d)
    <2>1. /\ ColumnOf(a, d) \in DOMAIN a.columns
          /\ d \in ToSet(a.columns[ColumnOf(a, d)])
      BY ColumnFacts
    <2>2. d \in ToSet(new[ColumnOf(a, d)])
      BY <1>2, <1>9, <2>1
    <2> QED
      BY <1>4, <1>6, <1>7, <2>1, <2>2, ColumnFacts
  <1> QED
    BY <1>4, <1>5, <1>7, <1>8, <1>9 DEF c

(* The votes that the events of a preferential list report agree with it.  *)
LEMMA MoveLevelFits ==
    ASSUME NEW n \in Nat, NEW a, Arranged(a, n),
           NEW vote, DOMAIN vote = 1..n + 1, LevelsFit(vote, a, n),
           NEW from \in DOMAIN a.columns, NEW to \in DOMAIN a.columns,
           NEW i \in DOMAIN a.columns[from], NEW k \in Nat \ {0},
           NEW new,
           new = [vote EXCEPT ![a.columns[from][i]] = IndexOf(a, to)]
    PROVE  LevelsFit(new, Move(a, from, i, to, k), n)
  <1> DEFINE b == Move(a, from, i, to, k)
             c == a.columns[from][i]
  <1>1. /\ b.order = a.order /\ c \in 1..n
        /\ ColumnOf(b, c) = to
        /\ \A d \in 1..n : d # c => ColumnOf(b, d) = ColumnOf(a, d)
    <2>1. b = Move(a, from, i, to, k)
      OBVIOUS
    <2> HIDE DEF b
    <2> QED
      BY <2>1, MoveColumns
  <1>2. /\ new[c] = IndexOf(a, to)
        /\ \A d \in 1..n : d # c => new[d] = vote[d]
    BY <1>1
  <1> HIDE DEF b, c
  <1>3. \A h : IndexOf(b, h) = IndexOf(a, h)
    BY <1>1 DEF IndexOf
  <1>4. LevelsFit(new, b, n)
    BY <1>1, <1>2, <1>3 DEF LevelsFit
  <1> QED
    BY <1>4 DEF b

(* The vote made anew from an arrangement agrees with it.                  *)
LEMMA RebuiltFits ==
    ASSUME NEW q \in Descriptions, NEW vote, NEW a, NEW new,
           new = [c \in 1..q.n + 1 |-> IF c <= q.n THEN vote[c] ELSE None]
    PROVE  /\ vote = VoteByLevel(a, q.n) => LevelsFit(new, a, q.n)
           /\ vote = VoteByPlace(a, q.n) /\ DOMAIN a.columns = {Ranked, NotRanked}
                => RanksFit(new, a, q.n)
  <1>1. q.n \in Nat
    BY DEF Descriptions
  <1>2. \A c \in 1..q.n : new[c] = vote[c]
    BY <1>1
  <1>3. ASSUME vote = VoteByLevel(a, q.n)
        PROVE  LevelsFit(new, a, q.n)
    BY <1>2, <1>3 DEF LevelsFit, VoteByLevel
  <1>4. ASSUME vote = VoteByPlace(a, q.n), DOMAIN a.columns = {Ranked, NotRanked}
        PROVE  RanksFit(new, a, q.n)
    BY <1>2, <1>4 DEF RanksFit
  <1> QED
    BY <1>3, <1>4

(* The first votes of a question agree with its first arrangement.         *)
LEMMA InitialFits ==
    ASSUME NEW q \in Descriptions
    PROVE  Fit(q, InitialVote(q), InitialArrangement(q))
  <1>1. q.n \in Nat /\ q.sizes \in Seq(Nat)
    BY DEF Descriptions
  <1>2. CASE QuestionType(q) = "LISTS"
    <2> DEFINE vote == [l \in 1..Len(q.sizes) |-> [c \in 0..q.sizes[l] |-> None]]
    <2>1. InitialVote(q) = vote
      BY <1>2 DEF InitialVote
    <2>2. vote = [l \in 1..Len(q.sizes) |-> vote[l]]
      OBVIOUS
    <2>3. \A l \in 1..Len(q.sizes) :
            DOMAIN vote[l] = 0..q.sizes[l] /\ \A c \in 0..q.sizes[l] : vote[l][c] = None
      OBVIOUS
    <2> HIDE DEF vote
    <2>4. ListsFit(q, vote)
      BY <2>2, <2>3 DEF ListsFit
    <2> QED
      BY <1>2, <2>1, <2>4 DEF Fit
  <1>3. CASE QuestionType(q) # "LISTS"
    <2> DEFINE vote == [c \in 1..q.n + 1 |-> None]
    <2>1. InitialVote(q) = vote
      BY <1>3 DEF InitialVote
    <2>2. \A c \in 1..q.n + 1 : vote[c] = None
      OBVIOUS
    <2>3. q.n + 1 \in 1..q.n + 1 /\ \A c \in 1..q.n : c \in 1..q.n + 1
      BY <1>1
    <2> HIDE DEF vote
    <2>4. ClassicFit(q, vote) /\ GradesFit(q, vote)
      BY <2>2, <2>3 DEF ClassicFit, GradesFit
    <2>5. ASSUME NEW a, Arranged(a, q.n), ToSet(a.columns[NotRanked]) = 1..q.n
          PROVE  \A c \in 1..q.n : ColumnOf(a, c) = NotRanked
      BY <1>1, <2>5, ColumnFacts, NotRankedLast
    <2>6. CASE QuestionType(q) = "SCHULZE"
      <3>1. InitialArrangement(q) = LevelsOf(q.n)
        BY <2>6 DEF InitialArrangement
      <3>2. Arranged(LevelsOf(q.n), q.n)
        BY <1>1, InitialArranged
      <3>3. ToSet(LevelsOf(q.n).columns[NotRanked]) = 1..q.n
        BY DEF LevelsOf, ToSet
      <3>4. LevelsFit(vote, LevelsOf(q.n), q.n)
        BY <2>2, <2>3, <2>5, <3>2, <3>3 DEF LevelsFit
      <3> QED
        BY <2>1, <2>6, <3>1, <3>4 DEF Fit
    <2>7. CASE QuestionType(q) = "STV"
      <3>1. InitialArrangement(q) = RankingOf(q.n)
        BY <2>7 DEF InitialArrangement
      <3>2. Arranged(RankingOf(q.n), q.n)
        BY <1>1, InitialArranged
      <3>3. /\ ToSet(RankingOf(q.n).columns[NotRanked]) = 1..q.n
            /\ DOMAIN RankingOf(q.n).columns = {Ranked, NotRanked}
        BY DEF RankingOf, ToSet
      <3>4. \A c \in 1..q.n : VoteByPlace(RankingOf(q.n), q.n)[c] = None
        BY <2>5, <3>2, <3>3 DEF VoteByPlace
      <3>5. RanksFit(vote, RankingOf(q.n), q.n)
        BY <2>2, <2>3, <3>3, <3>4 DEF RanksFit
      <3> QED
        BY <2>1, <2>7, <3>1, <3>5 DEF Fit
    <2> QED
      BY <1>3, <2>1, <2>4, <2>6, <2>7 DEF Fit
  <1> QED
    BY <1>2, <1>3

-----------------------------------------------------------------------------
(* The votes of the page                                                   *)

(* What the votes and arrangements of all questions are while the voter    *)
(* answers, and what the review is made of.                                *)
FitInv ==
    /\ Readable(election)
    /\ \A i \in Questions : Fit(election[i], votes[i], arrangement[i])
    /\ submitted # None => submitted = Convert(election, votes)

(* The page starts with votes that fit.                                    *)
LEMMA FitInit == Init => FitInv
  <1> SUFFICES ASSUME Init PROVE FitInv
    OBVIOUS
  <1>1. \A i \in Questions : election[i] \in Descriptions
    BY VoteInit, QuestionFacts DEF VoteInv
  <1>2. \A i \in Questions :
            /\ votes[i] = InitialVote(election[i])
            /\ arrangement[i] = InitialArrangement(election[i])
    BY DEF Init
  <1>3. submitted = None /\ Readable(election)
    BY DEF Init
  <1> QED
    BY <1>1, <1>2, <1>3, InitialFits DEF FitInv

(* It is enough that the answer to the current question fits.              *)
LEMMA FitAnswered ==
    ASSUME VoteInv, FitInv, submitted = None,
           UNCHANGED <<election, current, submitted>>,
           NEW vote, votes' = [votes EXCEPT ![current] = vote],
           \A i \in Questions : i # current => arrangement'[i] = arrangement[i],
           Fit(election[current], vote, arrangement'[current])
    PROVE  FitInv'
  <1>1. DOMAIN votes = Questions /\ Questions' = Questions
    BY DEF VoteInv, TypeOK, Questions
  <1>2. \A i \in Questions : votes'[i] = IF i = current THEN vote ELSE votes[i]
    BY <1>1
  <1>3. \A i \in Questions : Fit(election[i], votes'[i], arrangement'[i])
    BY <1>2 DEF FitInv
  <1> QED
    BY <1>1, <1>3 DEF FitInv

(* The current question, and what is known of it.                          *)
LEMMA CurrentQuestion ==
    ASSUME VoteInv, FitInv
    PROVE  /\ current \in Questions
           /\ election[current] \in Descriptions
           /\ Size(current) = election[current].n
           /\ Size(current) \in Nat
           /\ TypeOf(current) = QuestionType(election[current])
           /\ Fit(election[current], votes[current], arrangement[current])
           /\ TypeOf(current) # "LISTS" =>
                DOMAIN votes[current] = 1..election[current].n + 1
           /\ TypeOf(current) \in Preferential =>
                Arranged(arrangement[current], election[current].n)
  <1>1. current \in Questions
    BY QuestionFacts DEF VoteInv
  <1>2. election[current] \in Descriptions /\ Size(current) \in Nat
    BY <1>1, QuestionFacts DEF VoteInv
  <1> QED
    BY <1>1, <1>2 DEF VoteInv, TypeOK, FitInv, Size, TypeOf

(* Checked or unchecked, a choice is 0 or 1.                               *)
LEMMA ClassicSaved ==
    ASSUME NEW q \in Descriptions, QuestionType(q) = "CLASSIC",
           NEW vote, DOMAIN vote = 1..q.n + 1, ClassicFit(q, vote),
           NEW c \in 1..(IF q.blank THEN q.n + 1 ELSE q.n)
    PROVE  /\ \A value \in {0, 1} : ClassicFit(q, [vote EXCEPT ![c] = value])
           /\ ClassicFit(q, [d \in DOMAIN vote |-> IF d = c THEN 1 ELSE None])
  <1>1. q.n \in Nat /\ q.blank \in BOOLEAN
    BY DEF Descriptions
  <1>2. /\ c \in 1..q.n + 1 /\ q.n + 1 \in 1..q.n + 1
        /\ ~q.blank => c # q.n + 1
    BY <1>1
  <1> QED
    BY <1>2 DEF ClassicFit

(* The events of classic, generic and graded questions.                    *)
LEMMA ChoiceFits ==
    ASSUME VoteInv, FitInv, NEW c \in Answerable(current), NEW value,
           ClickCheckbox(c) \/ ClickRadio(c) \/ TypeNumber(c, value)
                \/ SelectGrade(c, value)
    PROVE  FitInv'
  <1> DEFINE q == election[current]
             vote == votes[current]
             a == arrangement[current]
  <1>1. /\ q \in Descriptions /\ TypeOf(current) = QuestionType(q)
        /\ Fit(q, vote, a)
        /\ TypeOf(current) # "LISTS" => DOMAIN vote = 1..q.n + 1
        /\ Size(current) = q.n
    BY CurrentQuestion
  <1>2. /\ submitted = None
        /\ UNCHANGED <<election, current, arrangement, submitted>>
    BY DEF ClickCheckbox, ClickRadio, TypeNumber, SelectGrade, Answering
  <1>3. \A i \in Questions : i # current => arrangement'[i] = arrangement[i]
    BY <1>2
  <1>4. arrangement'[current] = a
    BY <1>2
  <1>5. ASSUME NEW new, votes' = [votes EXCEPT ![current] = new], Fit(q, new, a)
        PROVE  FitInv'
    BY <1>2, <1>3, <1>4, <1>5, FitAnswered
  <1> HIDE DEF q, vote, a
  <1>6. CASE ClickCheckbox(c) \/ ClickRadio(c)
    <2>1. QuestionType(q) = "CLASSIC"
      BY <1>1, <1>6 DEF ClickCheckbox, ClickRadio, Answering
    <2>2. c \in 1..(IF q.blank THEN q.n + 1 ELSE q.n)
      BY <1>1, <2>1 DEF Answerable, BlankAllowed, q
    <2>3. ClassicFit(q, vote) /\ DOMAIN vote = 1..q.n + 1
      BY <1>1, <2>1 DEF Fit
    <2>4. /\ \A x \in {0, 1} : ClassicFit(q, [vote EXCEPT ![c] = x])
          /\ ClassicFit(q, [d \in DOMAIN vote |-> IF d = c THEN 1 ELSE None])
      BY <1>1, <2>1, <2>2, <2>3, ClassicSaved
    <2>5. PICK new : votes' = [votes EXCEPT ![current] = new] /\ ClassicFit(q, new)
      <3>1. CASE ClickCheckbox(c)
        <4>1. PICK x \in {0, 1} :
                votes' = [votes EXCEPT ![current] = [vote EXCEPT ![c] = x]]
          BY <3>1 DEF ClickCheckbox, SaveCandidate, SaveAll, vote
        <4> QED
          BY <2>4, <4>1
      <3>2. CASE ClickRadio(c)
        <4>1. votes' = [votes EXCEPT ![current] =
                            [d \in DOMAIN vote |-> IF d = c THEN 1 ELSE None]]
          BY <3>2 DEF ClickRadio, SaveOnly, SaveAll, vote
        <4> QED
          BY <2>4, <4>1
      <3> QED
        BY <1>6, <3>1, <3>2
    <2>6. Fit(q, new, a)
      BY <2>1, <2>5 DEF Fit
    <2> QED
      BY <1>5, <2>5, <2>6
  <1>7. CASE TypeNumber(c, value)
    <2>1. QuestionType(q) = "GENERIC"
      BY <1>1, <1>7 DEF TypeNumber, Answering
    <2>2. votes' = [votes EXCEPT ![current] = [vote EXCEPT ![c] = value]]
      BY <1>7 DEF TypeNumber, SaveCandidate, SaveAll, vote
    <2>3. Fit(q, [vote EXCEPT ![c] = value], a)
      BY <2>1 DEF Fit
    <2> QED
      BY <1>5, <2>2, <2>3
  <1>8. CASE SelectGrade(c, value)
    <2>1. /\ QuestionType(q) = "MAJORITY_JUDGMENT"
          /\ value \in 0..q.grades - 1 \cup {None}
      BY <1>1, <1>8 DEF SelectGrade, Answering, q
    <2>2. votes' = [votes EXCEPT ![current] = [vote EXCEPT ![c] = value]]
      BY <1>8 DEF SelectGrade, SaveCandidate, SaveAll, vote
    <2>3. GradesFit(q, vote) /\ DOMAIN vote = 1..q.n + 1 /\ q.n \in Nat
      BY <1>1, <2>1 DEF Fit, Descriptions
    <2>4. GradesFit(q, [vote EXCEPT ![c] = value])
      BY <2>1, <2>3 DEF GradesFit
    <2>5. Fit(q, [vote EXCEPT ![c] = value], a)
      BY <2>1, <2>4 DEF Fit
    <2> QED
      BY <1>5, <2>2, <2>5
  <1> QED
    BY <1>6, <1>7, <1>8

(* The blank vote is no choice among the candidates.                       *)
LEMMA BlankFits ==
    ASSUME VoteInv, FitInv, ToggleBlank
    PROVE  FitInv'
  <1> DEFINE q == election[current]
             vote == votes[current]
             a == arrangement[current]
  <1>1. /\ q \in Descriptions /\ TypeOf(current) = QuestionType(q)
        /\ Fit(q, vote, a)
        /\ TypeOf(current) # "LISTS" => DOMAIN vote = 1..q.n + 1
        /\ Size(current) = q.n /\ current \in Questions
    BY CurrentQuestion
  <1>2. /\ submitted = None
        /\ UNCHANGED <<election, current, arrangement, submitted>>
        /\ QuestionType(q) \in {"MAJORITY_JUDGMENT", "SCHULZE", "STV"}
    BY <1>1 DEF ToggleBlank, Answering, SaveBlank, Preferential
  <1>3. PICK value : votes' = [votes EXCEPT ![current][Size(current) + 1] = value]
    BY DEF ToggleBlank, SaveBlank
  <1>4. DOMAIN votes = Questions
    BY DEF VoteInv, TypeOK
  <1> DEFINE new == [vote EXCEPT ![q.n + 1] = value]
  <1>5. votes' = [votes EXCEPT ![current] = new]
    BY <1>1, <1>3, <1>4
  <1>6. q.n \in Nat /\ DOMAIN vote = 1..q.n + 1
    BY <1>1, <1>2 DEF Descriptions
  <1>7. \A c \in 1..q.n : new[c] = vote[c]
    BY <1>6
  <1> HIDE DEF q, vote, a, new
  <1>8. Fit(q, new, a)
    <2>1. CASE QuestionType(q) = "MAJORITY_JUDGMENT"
      BY <1>1, <1>7, <2>1 DEF Fit, GradesFit
    <2>2. CASE QuestionType(q) = "SCHULZE"
      BY <1>1, <1>7, <2>2 DEF Fit, LevelsFit
    <2>3. CASE QuestionType(q) = "STV"
      BY <1>1, <1>7, <2>3 DEF Fit, RanksFit
    <2> QED
      BY <1>2, <2>1, <2>2, <2>3
  <1> QED
    BY <1>2, <1>5, <1>8, FitAnswered DEF q, a

(* Selecting a list, or a candidate of it, leaves one list selected.       *)
LEMMA ListFits ==
    ASSUME VoteInv, FitInv, NEW l, NEW c, ClickList(l) \/ ClickListCandidate(l, c)
    PROVE  FitInv'
  <1> DEFINE q == election[current]
             vote == votes[current]
             a == arrangement[current]
  <1>1. /\ q \in Descriptions /\ TypeOf(current) = QuestionType(q)
        /\ Fit(q, vote, a)
    BY CurrentQuestion
  <1>2. /\ submitted = None
        /\ UNCHANGED <<election, current, arrangement, submitted>>
    BY DEF ClickList, ClickListCandidate, Answering
  <1> HIDE DEF q, vote, a
  <1>3. QuestionType(q) = "LISTS" /\ l \in DOMAIN vote
    BY <1>1 DEF ClickList, ClickListCandidate, Answering, vote
  <1>4. ListsFit(q, vote)
    BY <1>1, <1>3 DEF Fit
  <1>5. l \in 1..Len(q.sizes) /\ DOMAIN vote[l] = 0..q.sizes[l]
    BY <1>3, <1>4 DEF ListsFit
  <1>6. q.sizes[l] \in Nat
    BY <1>1, <1>5 DEF Descriptions
  <1> DEFINE saved(list) == [k \in DOMAIN vote |->
                                IF k = l THEN list
                                ELSE IF list[0] = 1 THEN [d \in DOMAIN vote[k] |-> 0]
                                ELSE vote[k]]
  <1>7. ASSUME NEW list, votes' = [votes EXCEPT ![current] = saved(list)],
               DOMAIN list = 0..q.sizes[l], list[0] = 1,
               \A d \in 0..q.sizes[l] : list[d] \in {0, 1}
        PROVE  FitInv'
    <2>1. ListsFit(q, saved(list))
      <3> DEFINE new == saved(list)
      <3>1. /\ DOMAIN vote = 1..Len(q.sizes)
            /\ \A k \in 1..Len(q.sizes) : DOMAIN vote[k] = 0..q.sizes[k]
        BY <1>4 DEF ListsFit
      <3>2. new = [k \in 1..Len(q.sizes) |-> new[k]] /\ new[l] = list
        BY <1>5, <3>1
      <3>3. \A k \in 1..Len(q.sizes) \ {l} :
                new[k] = [d \in 0..q.sizes[k] |-> 0]
        BY <1>7, <3>1
      <3> HIDE DEF new
      <3>4. \A k \in 1..Len(q.sizes) : DOMAIN new[k] = 0..q.sizes[k]
        BY <1>7, <3>2, <3>3
      <3>5. Selected(q, new, l)
        BY <1>7, <3>2, <3>3 DEF Selected
      <3>6. ListsFit(q, new)
        BY <1>5, <3>2, <3>4, <3>5 DEF ListsFit
      <3> QED
        BY <3>6 DEF new
    <2> HIDE DEF saved
    <2>2. Fit(q, saved(list), a)
      BY <1>3, <2>1 DEF Fit
    <2> QED
      BY <1>2, <1>7, <2>2, FitAnswered DEF q, a
  <1>8. CASE ClickList(l)
    <2> DEFINE list == [d \in DOMAIN vote[l] |-> 1]
    <2>1. votes' = [votes EXCEPT ![current] = saved(list)]
      BY <1>8 DEF ClickList, SaveList, SaveAll, vote
    <2>2. /\ DOMAIN list = 0..q.sizes[l] /\ list[0] = 1
          /\ \A d \in 0..q.sizes[l] : list[d] \in {0, 1}
      BY <1>5, <1>6
    <2> HIDE DEF list, saved
    <2> QED
      BY <1>7, <2>1, <2>2
  <1>9. CASE ClickListCandidate(l, c)
    <2> DEFINE list == [vote[l] EXCEPT ![c] = IF @ = 1 THEN 0 ELSE 1]
    <2>1. /\ votes' = [votes EXCEPT ![current] = saved(list)]
          /\ c \in DOMAIN vote[l] \ {0} /\ vote[l][0] = 1
      BY <1>9 DEF ClickListCandidate, SaveList, SaveAll, vote
    <2>2. \A d \in 0..q.sizes[l] : vote[l][d] \in {0, 1}
      <3>1. 0 \in 0..q.sizes[l] /\ None # 1
        BY <1>6, ColumnsAssumption
      <3>2. PICK m \in 1..Len(q.sizes) : Selected(q, vote, m)
        BY <1>4, <1>5, <2>1, <3>1 DEF ListsFit
      <3>3. l = m
        BY <1>5, <2>1, <3>1, <3>2 DEF Selected
      <3> QED
        BY <3>2, <3>3 DEF Selected
    <2>3. /\ DOMAIN list = 0..q.sizes[l] /\ list[0] = 1
          /\ \A d \in 0..q.sizes[l] : list[d] \in {0, 1}
      BY <1>5, <1>6, <2>1, <2>2
    <2> HIDE DEF list, saved
    <2> QED
      BY <1>7, <2>1, <2>3
  <1> QED
    BY <1>8, <1>9

-----------------------------------------------------------------------------
(* An event of a preferential list.                                        *)
LEMMA ArrangementFits ==
    ASSUME VoteInv, FitInv, submitted = None,
           UNCHANGED <<election, current, submitted>>,
           NEW b, arrangement' = [arrangement EXCEPT ![current] = b],
           NEW vote, SaveAll(vote),
           \/ TypeOf(current) = "SCHULZE" /\ LevelsFit(vote, b, Size(current))
           \/ TypeOf(current) = "STV" /\ RanksFit(vote, b, Size(current))
    PROVE  FitInv'
  <1>1. /\ current \in Questions /\ Size(current) = election[current].n
        /\ TypeOf(current) = QuestionType(election[current])
    BY CurrentQuestion
  <1>2. DOMAIN arrangement = Questions
    BY DEF VoteInv, TypeOK
  <1>3. /\ arrangement'[current] = b
        /\ \A i \in Questions : i # current => arrangement'[i] = arrangement[i]
    BY <1>1, <1>2
  <1>4. Fit(election[current], vote, b)
    BY <1>1 DEF Fit
  <1>5. votes' = [votes EXCEPT ![current] = vote]
    BY DEF SaveAll
  <1> QED
    BY <1>3, <1>4, <1>5, FitAnswered

(* The list of a preferential question, and what is known of it.           *)
LEMMA CurrentList ==
    ASSUME VoteInv, FitInv, TypeOf(current) \in Preferential
    PROVE  /\ Arranged(ui, Size(current))
           /\ Size(current) \in Nat
           /\ DOMAIN votes[current] = 1..Size(current) + 1
           /\ TypeOf(current) = "SCHULZE" =>
                LevelsFit(votes[current], ui, Size(current))
           /\ TypeOf(current) = "STV" =>
                RanksFit(votes[current], ui, Size(current))
           /\ \A vote, a :
                /\ vote = VoteByLevel(a, Size(current)) =>
                        LevelsFit(Rebuilt(vote), a, Size(current))
                /\ vote = VoteByPlace(a, Size(current))
                        /\ DOMAIN a.columns = {Ranked, NotRanked} =>
                        RanksFit(Rebuilt(vote), a, Size(current))
  <1>1. /\ Size(current) = election[current].n /\ Size(current) \in Nat
        /\ election[current] \in Descriptions
        /\ TypeOf(current) = QuestionType(election[current])
        /\ Fit(election[current], votes[current], arrangement[current])
        /\ TypeOf(current) # "LISTS" =>
                DOMAIN votes[current] = 1..election[current].n + 1
        /\ Arranged(arrangement[current], election[current].n)
    BY CurrentQuestion
  <1>2. TypeOf(current) # "LISTS"
    BY DEF Preferential
  <1>3. ASSUME NEW vote, NEW a
        PROVE  /\ vote = VoteByLevel(a, Size(current)) =>
                        LevelsFit(Rebuilt(vote), a, Size(current))
               /\ vote = VoteByPlace(a, Size(current))
                        /\ DOMAIN a.columns = {Ranked, NotRanked} =>
                        RanksFit(Rebuilt(vote), a, Size(current))
    <2>1. Rebuilt(vote) = [c \in 1..election[current].n + 1 |->
                            IF c <= election[current].n THEN vote[c] ELSE None]
      BY <1>1 DEF Rebuilt
    <2>2. /\ vote = VoteByLevel(a, election[current].n) =>
                LevelsFit(Rebuilt(vote), a, election[current].n)
          /\ vote = VoteByPlace(a, election[current].n)
                /\ DOMAIN a.columns = {Ranked, NotRanked} =>
                RanksFit(Rebuilt(vote), a, election[current].n)
      BY <1>1, <2>1, RebuiltFits
    <2> QED
      BY <1>1, <2>2
  <1> QED
    BY <1>1, <1>2, <1>3 DEF Fit, ui

(* A candidate moved to a level has the index of the level.                *)
LEMMA MoveFits ==
    ASSUME VoteInv, FitInv, NEW from, NEW i, NEW to, NEW k,
           MoveToLevel(from, i, to, k)
    PROVE  FitInv'
  <1>1. /\ submitted = None /\ TypeOf(current) = "SCHULZE"
        /\ TypeOf(current) \in Preferential
        /\ from \in DOMAIN ui.columns /\ to \in DOMAIN ui.columns
        /\ i \in DOMAIN ui.columns[from]
        /\ UNCHANGED <<election, current, submitted>>
        /\ arrangement' = [arrangement EXCEPT ![current] = Move(ui, from, i, to, k)]
    BY DEF MoveToLevel, Arranging, Answering, Preferential
  <1>2. k \in Nat \ {0}
    BY <1>1, Places DEF MoveToLevel
  <1> DEFINE vote == [votes[current] EXCEPT ![ui.columns[from][i]] = IndexOf(ui, to)]
  <1>3. SaveAll(vote)
    BY DEF MoveToLevel, SaveCandidate
  <1>4. LevelsFit(vote, Move(ui, from, i, to, k), Size(current))
    <2>1. /\ Arranged(ui, Size(current)) /\ Size(current) \in Nat
          /\ DOMAIN votes[current] = 1..Size(current) + 1
          /\ LevelsFit(votes[current], ui, Size(current))
      BY <1>1, CurrentList
    <2> QED
      BY <1>1, <1>2, <2>1, MoveLevelFits
  <1> HIDE DEF vote
  <1> QED
    BY <1>1, <1>3, <1>4, ArrangementFits

(* The vote made anew agrees with the new levels.                          *)
LEMMA LevelFits ==
    ASSUME VoteInv, FitInv, NEW p, AddLevel(p) \/ RemoveLevel(p)
    PROVE  FitInv'
  <1>1. /\ submitted = None /\ TypeOf(current) = "SCHULZE"
        /\ TypeOf(current) \in Preferential
        /\ UNCHANGED <<election, current, submitted>>
    BY DEF AddLevel, RemoveLevel, Arranging, Answering, Preferential
  <1>2. PICK b : /\ arrangement' = [arrangement EXCEPT ![current] = b]
                 /\ SaveAll(Rebuilt(VoteByLevel(b, Size(current))))
    BY DEF AddLevel, RemoveLevel
  <1>3. LevelsFit(Rebuilt(VoteByLevel(b, Size(current))), b, Size(current))
    BY <1>1, CurrentList
  <1> QED
    BY <1>1, <1>2, <1>3, ArrangementFits

(* The vote made anew agrees with the new ranks.                           *)
LEMMA RankFits ==
    ASSUME VoteInv, FitInv, submitted = None, TypeOf(current) = "STV",
           NEW from \in DOMAIN ui.columns, NEW to \in DOMAIN ui.columns,
           NEW i \in DOMAIN ui.columns[from], NEW k \in Nat \ {0},
           Rank(from, i, to, k)
    PROVE  FitInv'
  <1> DEFINE b == Move(ui, from, i, to, k)
             vote == Rebuilt(VoteByPlace(b, Size(current)))
  <1>1. TypeOf(current) \in Preferential
    BY DEF Preferential
  <1>2. /\ arrangement' = [arrangement EXCEPT ![current] = b]
        /\ SaveAll(vote) /\ UNCHANGED <<election, current, submitted>>
    BY DEF Rank
  <1>3. b = Move(ui, from, i, to, k)
    OBVIOUS
  <1> HIDE DEF b
  <1>4. DOMAIN b.columns = {Ranked, NotRanked}
    <2>1. /\ Arranged(ui, Size(current)) /\ Size(current) \in Nat
          /\ RanksFit(votes[current], ui, Size(current))
      BY <1>1, CurrentList
    <2>2. DOMAIN b.columns = DOMAIN ui.columns
      BY <1>3, <2>1, MoveColumns
    <2> QED
      BY <2>1, <2>2 DEF RanksFit
  <1>5. RanksFit(vote, b, Size(current))
    BY <1>1, <1>4, CurrentList
  <1> HIDE DEF vote
  <1> QED
    BY <1>2, <1>5, ArrangementFits

(* Every event keeps the votes fitting.                                    *)
LEMMA FitStep ==
    ASSUME VoteInv, FitInv, [Next]_vars
    PROVE  FitInv'
  <1>1. ASSUME NEW c \in Answerable(current), ClickCheckbox(c) \/ ClickRadio(c)
        PROVE  FitInv'
    BY <1>1, ChoiceFits
  <1>2. ASSUME NEW c \in Answerable(current), NEW text, TypeNumber(c, text)
        PROVE  FitInv'
    BY <1>2, ChoiceFits
  <1>3. ASSUME NEW c \in Answerable(current), NEW grade, SelectGrade(c, grade)
        PROVE  FitInv'
    BY <1>3, ChoiceFits
  <1>4. CASE ToggleBlank
    BY <1>4, BlankFits
  <1>5. ASSUME NEW l, NEW c, ClickList(l) \/ ClickListCandidate(l, c)
        PROVE  FitInv'
    BY <1>5, ListFits
  <1>6. ASSUME NEW from, NEW i, NEW to, NEW k, MoveToLevel(from, i, to, k)
        PROVE  FitInv'
    BY <1>6, MoveFits
  <1>7. ASSUME NEW from, NEW i, NEW to \in DOMAIN ui.columns, NEW k,
               DragToRank(from, i, to, k) \/ SelectRank(from, i, to, k)
        PROVE  FitInv'
    <2>1. /\ submitted = None /\ TypeOf(current) = "STV"
          /\ TypeOf(current) \in Preferential
          /\ from \in DOMAIN ui.columns /\ i \in DOMAIN ui.columns[from]
          /\ Rank(from, i, to, k)
      BY <1>7 DEF DragToRank, SelectRank, Arranging, Answering, Preferential
    <2>2. k \in Nat \ {0}
      <3>1. k = Len(ui.columns[to]) + 1 \/ k \in DOMAIN ui.columns[to]
                \/ k \in 1..Len(ui.columns[to]) + 1
        BY <1>7 DEF DragToRank, SelectRank, RankedPlaces
      <3> QED
        BY <2>1, <3>1, Places
    <2> QED
      BY <2>1, <2>2, RankFits
  <1>8. ASSUME NEW p, AddLevel(p) \/ RemoveLevel(p)
        PROVE  FitInv'
    BY <1>8, LevelFits
  <1>9. CASE OnClickPrevious \/ UNCHANGED vars
    BY <1>9 DEF OnClickPrevious, vars, FitInv, Questions
  <1>10. CASE OnClickNext
    <2>1. /\ UNCHANGED <<election, votes, arrangement>>
          /\ submitted' = submitted \/ submitted' = Convert(election, votes)
      BY <1>10 DEF OnClickNext
    <2> QED
      BY <2>1 DEF FitInv, Questions
  <1>11. CASE BackFromReview
    <2>1. /\ election' = election /\ submitted' = None
          /\ votes' = [i \in Questions |-> InitialVote(election[i])]
          /\ arrangement' = [i \in Questions |-> InitialArrangement(election[i])]
      BY <1>11 DEF BackFromReview
    <2>2. \A i \in Questions : election[i] \in Descriptions
      BY QuestionFacts DEF VoteInv
    <2>3. Questions' = Questions
      BY <2>1 DEF Questions
    <2>4. \A i \in Questions : Fit(election[i], votes'[i], arrangement'[i])
      BY <2>1, <2>2, InitialFits
    <2> QED
      BY <2>1, <2>3, <2>4 DEF FitInv
  <1> QED
    BY <1>1, <1>2, <1>3, <1>4, <1>5, <1>6, <1>7, <1>8, <1>9, <1>10, <1>11 DEF Next

-----------------------------------------------------------------------------
(* What leaves the page                                                    *)

(* The votes of every question fit its kind and the arrangement displayed, *)
(* and the ballot under review is made of them.                            *)
THEOREM VotesFit == Spec => [](VoteInv /\ FitInv)
  <1>1. Init => VoteInv /\ FitInv
    BY VoteInit, FitInit
  <1>2. (VoteInv /\ FitInv) /\ [Next]_vars => (VoteInv /\ FitInv)'
    <2> SUFFICES ASSUME VoteInv, FitInv, [Next]_vars
                 PROVE  VoteInv' /\ FitInv'
      OBVIOUS
    <2> QED
      BY VoteStep, FitStep
  <1> QED
    BY <1>1, <1>2, PTL DEF Spec

(* What is known of a question, from the two invariants.                   *)
LEMMA FittingQuestion ==
    ASSUME VoteInv, FitInv, NEW i \in Questions
    PROVE  /\ election[i] \in Descriptions
           /\ QuestionType(election[i]) # "unknown"
           /\ Size(i) = election[i].n
           /\ TypeOf(i) = QuestionType(election[i])
           /\ Fit(election[i], votes[i], arrangement[i])
           /\ QuestionType(election[i]) # "LISTS" =>
                DOMAIN votes[i] = 1..election[i].n + 1
           /\ QuestionType(election[i]) \in Preferential =>
                Arranged(arrangement[i], election[i].n)
           /\ submitted # None =>
                /\ submitted[i] = AnswerOf(election[i], votes[i])
                /\ AlertsOf(election[i], votes[i]) = {}
  <1>1. election[i] \in Descriptions
    BY QuestionFacts DEF VoteInv
  <1>2. ASSUME submitted # None
        PROVE  /\ submitted[i] = AnswerOf(election[i], votes[i])
               /\ AlertsOf(election[i], votes[i]) = {}
    BY <1>2 DEF VoteInv, EarlierQuestionsValid, FitInv, Convert, Questions
  <1>3. QuestionType(election[i]) # "unknown"
    BY DEF FitInv, Readable, Questions
  <1> QED
    BY <1>1, <1>2, <1>3 DEF VoteInv, TypeOK, FitInv, Size, TypeOf

(* A ballot that leaves the page can be encrypted and is counted: the page *)
(* lets through only the votes that the rest of the chain accepts.         *)
THEOREM SubmittedIsCounted == Spec => []SubmittedCountable
  <1>1. VoteInv /\ FitInv => SubmittedCountable
    <2> SUFFICES ASSUME VoteInv, FitInv, submitted # None,
                        NEW i \in Questions, TypeOf(i) # "GENERIC"
                 PROVE  Countable(election[i], submitted[i])
      BY DEF SubmittedCountable
    <2>1. Countable(election[i], AnswerOf(election[i], votes[i]))
      BY FittingQuestion, FitCountable
    <2> QED
      BY <2>1, FittingQuestion
  <1> QED
    BY VotesFit, <1>1, PTL

(* The counts of Schulze and STV in terms of what is displayed: the pairs  *)
(* that schulze compares are those of the columns from left to right, and  *)
(* the only others are candidates moved back to NotRanked against those    *)
(* never moved; levels have no hole, and stv has the column Ranked.        *)
THEOREM ColumnsAreCounted == Spec => []CountedAsArranged
  <1>1. VoteInv /\ FitInv => CountedAsArranged
    <2> SUFFICES ASSUME VoteInv, FitInv, NEW i \in Questions,
                        ~VotedBlank(election[i], votes[i])
                 PROVE  Counted(election[i], votes[i], arrangement[i])
                            /\ TypeOf(i) = QuestionType(election[i])
                            /\ Size(i) = election[i].n
      BY DEF CountedAsArranged, Counted, Answer
    <2> QED
      BY FittingQuestion, FitCounted
  <1> QED
    BY VotesFit, <1>1, PTL

(* The review shows what the votes say, for every kind of question that    *)
(* has a review (generic questions have none).  Candidates moved back to   *)
(* NotRanked are part of it as the last preference level.                  *)
THEOREM ReviewFollowsVotes == Spec => []RecapFollowsVotes
  <1>1. VoteInv /\ FitInv => RecapFollowsVotes
    <2> SUFFICES ASSUME VoteInv, FitInv, submitted # None, NEW i \in Questions
                 PROVE  LET q == election[i]
                            vote == votes[i]
                            recap == WholeRecap(q, submitted[i])
                            a == arrangement[i]
                            blank == VotedBlank(q, vote)
                        IN /\ TypeOf(i) # "CLASSIC" /\ blank => recap = Blank
                           /\ TypeOf(i) = "CLASSIC" =>
                                recap.marks =
                                    {IF c > q.n THEN BlankMark ELSE c
                                        : c \in {d \in DOMAIN vote : vote[d] = 1}}
                           /\ TypeOf(i) = "LISTS" =>
                                recap.lists =
                                    {<<l, {c \in 1..q.sizes[l] : vote[l][c] = 1}>>
                                        : l \in {k \in DOMAIN vote : vote[k][0] = 1}}
                           /\ TypeOf(i) = "MAJORITY_JUDGMENT" /\ ~blank =>
                                recap = IF q.blank /\ q.n = 0 THEN Blank
                                        ELSE [grades |-> [c \in 1..q.n |-> vote[c]]]
                           /\ TypeOf(i) = "SCHULZE" /\ ~blank =>
                                recap = LevelsReview(q, a, vote)
                           /\ TypeOf(i) = "STV" /\ ~blank =>
                                recap = IF q.blank /\ a.columns[Ranked] = <<>> THEN Blank
                                        ELSE [ranks |-> a.columns[Ranked],
                                              notRanked |-> ToSet(a.columns[NotRanked])]
      BY DEF RecapFollowsVotes
    <2> DEFINE q == election[i]
               vote == votes[i]
               a == arrangement[i]
               blank == VotedBlank(q, vote)
               recap == WholeRecap(q, AnswerOf(q, vote))
    <2>1. /\ q \in Descriptions /\ TypeOf(i) = QuestionType(q)
          /\ QuestionType(q) # "unknown"
          /\ Fit(q, vote, a)
          /\ QuestionType(q) # "LISTS" => DOMAIN vote = 1..q.n + 1
          /\ QuestionType(q) \in Preferential => Arranged(a, q.n)
          /\ submitted[i] = AnswerOf(q, vote) /\ AlertsOf(q, vote) = {}
      BY FittingQuestion
    <2>2. WholeRecap(q, submitted[i]) = recap
      BY <2>1
    <2> HIDE DEF q, vote, a
    <2>3. ASSUME QuestionType(q) # "CLASSIC", blank
          PROVE  recap = Blank
      <3>1. QuestionType(q) \in {"MAJORITY_JUDGMENT"} \cup Preferential
        <4>1. QuestionType(q) \notin {"CLASSIC", "LISTS", "GENERIC", "unknown"}
          BY <2>1, <2>3 DEF VotedBlank, BlankAllowed
        <4> QED
          BY <4>1 DEF QuestionType, Preferential
      <3> QED
        BY <2>1, <2>3, <3>1, BlankSent
    <2>4. ASSUME QuestionType(q) = "CLASSIC"
          PROVE  recap.marks = {IF c > q.n THEN BlankMark ELSE c
                                    : c \in {d \in DOMAIN vote : vote[d] = 1}}
      <3>1. ClassicFit(q, vote) /\ DOMAIN vote = 1..q.n + 1
        BY <2>1, <2>4 DEF Fit
      <3> QED
        BY <2>1, <2>4, <3>1, ClassicShown
    <2>5. ASSUME QuestionType(q) = "LISTS"
          PROVE  recap.lists = {<<l, {c \in 1..q.sizes[l] : vote[l][c] = 1}>>
                                    : l \in {k \in DOMAIN vote : vote[k][0] = 1}}
      <3>1. ListsFit(q, vote)
        BY <2>1, <2>5 DEF Fit
      <3> QED
        BY <2>1, <2>5, <3>1, ListsShown
    <2>6. ASSUME QuestionType(q) = "MAJORITY_JUDGMENT", ~blank
          PROVE  recap = IF q.blank /\ q.n = 0 THEN Blank
                         ELSE [grades |-> [c \in 1..q.n |-> vote[c]]]
      <3>1. GradesFit(q, vote)
        BY <2>1, <2>6 DEF Fit
      <3> QED
        BY <2>1, <2>6, <3>1, GradesShown
    <2>7. ASSUME QuestionType(q) = "SCHULZE", ~blank
          PROVE  recap = LevelsReview(q, a, vote)
      <3>1. LevelsFit(vote, a, q.n) /\ Arranged(a, q.n)
        BY <2>1, <2>7 DEF Fit, Preferential
      <3> QED
        BY <2>1, <2>7, <3>1, LevelsShown
    <2>8. ASSUME QuestionType(q) = "STV", ~blank
          PROVE  recap = IF q.blank /\ a.columns[Ranked] = <<>> THEN Blank
                         ELSE [ranks |-> a.columns[Ranked],
                               notRanked |-> ToSet(a.columns[NotRanked])]
      <3>1. RanksFit(vote, a, q.n) /\ Arranged(a, q.n)
        BY <2>1, <2>8 DEF Fit, Preferential
      <3> QED
        BY <2>1, <2>8, <3>1, RanksShown
    <2> HIDE DEF recap, blank
    <2> QED
      BY <2>1, <2>2, <2>3, <2>4, <2>5, <2>6, <2>7, <2>8, Zenon
         DEF q, vote, a, blank
  <1> QED
    BY VotesFit, <1>1, PTL
=============================================================================
