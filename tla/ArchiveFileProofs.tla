------------------------- MODULE ArchiveFileProofs -------------------------
(***************************************************************************)
(* Theorems about ArchiveFile, for any batches, any hash function and any  *)
(* length of the file, as long as no read of Last_event fails.             *)
(*                                                                         *)
(* The committed records come first in the file.  While an append is under *)
(* way the file and what is still to be written make together the archive  *)
(* that its commit will announce, so a kill, a failed write or the end of  *)
(* the index at any point leaves the committed records, their chain and    *)
(* the index of them as they were.                                         *)
(***************************************************************************)
EXTENDS ArchiveFile, TLAPS

Linking == INSTANCE SequenceFolds WITH Op <- Link
Rooting == INSTANCE SequenceFolds WITH Op <- UpdateRoots
Adding == INSTANCE SequenceFolds WITH Op <- AddEvent

-----------------------------------------------------------------------------
(* The folds of the model, one element after the other.                    *)

LEMMA LinkStep ==
    /\ \A start : LinkAll(start, <<>>) = start
    /\ \A S, start : \A s \in Seq(S), x \in S :
           LinkAll(start, Append(s, x)) = Link(LinkAll(start, s), x)
  <1>1. \A start, s : LinkAll(start, s) = Linking!Fold(start, s)
    BY DEF LinkAll, FoldLeft, MapThenFoldSet, Max,
           Linking!Fold, Linking!FoldLeft, Linking!MapThenFoldSet, Linking!Max
  <1> QED
    BY <1>1, Linking!FoldEmpty, Linking!FoldAppend

LEMMA RootStep ==
    /\ \A roots : Rooted(roots, <<>>) = roots
    /\ \A S, roots : \A s \in Seq(S), x \in S :
           Rooted(roots, Append(s, x)) = UpdateRoots(Rooted(roots, s), x)
    /\ \A S, roots : \A s, t \in Seq(S) :
           Rooted(roots, s \o t) = Rooted(Rooted(roots, s), t)
  <1>1. \A roots, s : Rooted(roots, s) = Rooting!Fold(roots, s)
    BY DEF Rooted, FoldLeft, MapThenFoldSet, Max,
           Rooting!Fold, Rooting!FoldLeft, Rooting!MapThenFoldSet, Rooting!Max
  <1> QED
    BY <1>1, Rooting!FoldEmpty, Rooting!FoldAppend, Rooting!FoldConcat

LEMMA EventStep ==
    /\ Events(<<>>) = <<>>
    /\ \A S : \A s \in Seq(S), x \in S :
           Events(Append(s, x)) =
               IF x.kind = "event" THEN Append(Events(s), x) ELSE Events(s)
  <1>1. \A s : Events(s) = Adding!Fold(<<>>, s)
    BY DEF Events, FoldLeft, MapThenFoldSet, Max,
           Adding!Fold, Adding!FoldLeft, Adding!MapThenFoldSet, Adding!Max
  <1> QED
    BY <1>1, Adding!FoldEmpty, Adding!FoldAppend DEF AddEvent

-----------------------------------------------------------------------------
(* Sequences of anything.                                                  *)

Sequence(s) == \E S : s \in Seq(S)

LEMMA SequenceFacts ==
    ASSUME NEW s, Sequence(s)
    PROVE  /\ Len(s) \in Nat
           /\ DOMAIN s = 1 .. Len(s)
           /\ s \o <<>> = s /\ <<>> \o s = s
           /\ SubSeq(s, 1, Len(s)) = s
           /\ SubSeq(s, 1, 0) = <<>>
  <1>1. PICK S : s \in Seq(S)
    BY DEF Sequence
  <1> QED
    BY <1>1

LEMMA AppendFacts ==
    ASSUME NEW s, Sequence(s), NEW x
    PROVE  /\ Sequence(Append(s, x))
           /\ Len(Append(s, x)) = Len(s) + 1
           /\ Append(s, x)[Len(s) + 1] = x
           /\ \A i \in 1 .. Len(s) : Append(s, x)[i] = s[i]
  <1>1. PICK S : s \in Seq(S)
    BY DEF Sequence
  <1>2. s \in Seq(S \cup {x}) /\ x \in S \cup {x}
    BY <1>1
  <1>3. Append(s, x) \in Seq(S \cup {x})
    BY <1>2
  <1> QED
    BY <1>1, <1>3 DEF Sequence

(* Two sequences of anything are sequences of the same set.                *)
LEMMA CommonSet ==
    ASSUME NEW s, Sequence(s), NEW t, Sequence(t)
    PROVE  \E S : s \in Seq(S) /\ t \in Seq(S)
  <1>1. PICK S, R : s \in Seq(S) /\ t \in Seq(R)
    BY DEF Sequence
  <1>2. s \in Seq(S \cup R) /\ t \in Seq(S \cup R)
    BY <1>1
  <1> QED
    BY <1>2

LEMMA ConcatFacts ==
    ASSUME NEW s, Sequence(s), NEW t, Sequence(t)
    PROVE  /\ Sequence(s \o t)
           /\ Len(s \o t) = Len(s) + Len(t)
           /\ \A i \in 1 .. Len(s) : (s \o t)[i] = s[i]
           /\ \A i \in 1 .. Len(t) : (s \o t)[Len(s) + i] = t[i]
           /\ SubSeq(s \o t, 1, Len(s)) = s
           /\ \A x : s \o Append(t, x) = Append(s \o t, x)
           /\ t # <<>> =>
                  /\ Append(s, Head(t)) \o Tail(t) = s \o t
                  /\ Sequence(Tail(t))
  <1>1. PICK S : s \in Seq(S) /\ t \in Seq(S)
    BY CommonSet
  <1>2. s \o t \in Seq(S)
    BY <1>1
  <1>3. ASSUME NEW x PROVE s \o Append(t, x) = Append(s \o t, x)
    <2>1. s \in Seq(S \cup {x}) /\ t \in Seq(S \cup {x}) /\ x \in S \cup {x}
      BY <1>1
    <2> QED
      BY <2>1
  <1>4. ASSUME t # <<>>
        PROVE  Append(s, Head(t)) \o Tail(t) = s \o t /\ Tail(t) \in Seq(S)
    BY <1>1, <1>4
  <1>5. SubSeq(s \o t, 1, Len(s)) = s
    BY <1>1
  <1>6. /\ Len(s \o t) = Len(s) + Len(t)
        /\ \A i \in 1 .. Len(s) : (s \o t)[i] = s[i]
        /\ \A i \in 1 .. Len(t) : (s \o t)[Len(s) + i] = t[i]
    BY <1>1
  <1> QED
    BY <1>2, <1>3, <1>4, <1>5, <1>6 DEF Sequence

LEMMA PrefixFacts ==
    ASSUME NEW s, Sequence(s), NEW n \in 0 .. Len(s)
    PROVE  /\ Sequence(SubSeq(s, 1, n))
           /\ Len(SubSeq(s, 1, n)) = n
           /\ SubSeq(SubSeq(s, 1, n), 1, n) = SubSeq(s, 1, n)
           /\ \A x : SubSeq(Append(s, x), 1, n) = SubSeq(s, 1, n)
  <1>1. PICK S : s \in Seq(S)
    BY DEF Sequence
  <1>2. /\ SubSeq(s, 1, n) \in Seq(S)
        /\ Len(SubSeq(s, 1, n)) = n
        /\ SubSeq(SubSeq(s, 1, n), 1, n) = SubSeq(s, 1, n)
    BY <1>1
  <1>3. ASSUME NEW x PROVE SubSeq(Append(s, x), 1, n) = SubSeq(s, 1, n)
    <2>1. s \in Seq(S \cup {x}) /\ x \in S \cup {x}
      BY <1>1
    <2> QED
      BY <2>1
  <1> QED
    BY <1>2, <1>3 DEF Sequence

-----------------------------------------------------------------------------
(* The chain of the events, and what an append adds to it.                 *)

(* The events of these records form a chain, at the end of which a new     *)
(* event has this hash for its parent and comes after this height.         *)
Chained(records, hash, height) ==
    /\ \A i \in DOMAIN Events(records) :
           /\ Events(records)[i].height = i - 1
           /\ Events(records)[i].parent =
                  IF i = 1 THEN NoHash ELSE Hash(Events(records)[i - 1])
    /\ height = Len(Events(records)) - 1
    /\ hash = IF Events(records) = <<>>
              THEN NoHash ELSE Hash(Events(records)[Len(Events(records))])

LEMMA EventsSequence ==
    ASSUME NEW S, NEW s \in Seq(S)
    PROVE  Sequence(Events(s))
  <1> DEFINE T == {t \in Seq(S) : Sequence(Events(t))}
  <1>1. <<>> \in T
    <2>1. <<>> \in Seq(S) /\ <<>> \in Seq({})
      OBVIOUS
    <2> QED
      BY <2>1, EventStep DEF Sequence
  <1>2. ASSUME NEW t \in Seq(S), NEW x \in S, t \in T
        PROVE  Append(t, x) \in T
    <2>1. Append(t, x) \in Seq(S)
      OBVIOUS
    <2>2. Sequence(Append(Events(t), x))
      BY <1>2, AppendFacts
    <2>3. Events(Append(t, x)) \in {Events(t), Append(Events(t), x)}
      BY EventStep
    <2> QED
      BY <1>2, <2>1, <2>2, <2>3
  <1> HIDE DEF T
  <1>3. Seq(S) \subseteq T
    BY <1>1, <1>2, Adding!SequenceInduction
  <1> QED
    BY <1>3 DEF T

(* One more record, as Sequence knows it.                                  *)
LEMMA NextEvent ==
    ASSUME NEW s, Sequence(s), NEW x
    PROVE  /\ Sequence(Events(s))
           /\ Events(Append(s, x)) =
                  IF x.kind = "event" THEN Append(Events(s), x) ELSE Events(s)
  <1>1. PICK S : s \in Seq(S)
    BY DEF Sequence
  <1>2. s \in Seq(S \cup {x}) /\ x \in S \cup {x}
    BY <1>1
  <1> QED
    BY <1>2, EventStep, EventsSequence

LEMMA NextContents ==
    ASSUME NEW s, Sequence(s), NEW x
    PROVE  /\ Sequence(Contents(s))
           /\ Contents(Append(s, x)) =
                  IF x.kind = "event" THEN Append(Contents(s), Content(x))
                                      ELSE Contents(s)
  <1>1. Sequence(Events(s)) /\ Sequence(Events(Append(s, x)))
    BY NextEvent, AppendFacts
  <1>2. PICK S : Events(s) \in Seq(S)
    BY <1>1 DEF Sequence
  <1> DEFINE R == {Content(Events(s)[i]) : i \in DOMAIN Events(s)}
  <1>3. Contents(s) \in Seq(R) /\ Len(Contents(s)) = Len(Events(s))
    <2>1. Contents(s) \in [1 .. Len(Events(s)) -> R] /\ Len(Events(s)) \in Nat
      BY <1>2 DEF Contents
    <2> QED
      BY <2>1 DEF Contents
  <1>4. CASE x.kind = "event"
    <2> DEFINE e == Events(s)
               c == Contents(s)
    <2>1. Events(Append(s, x)) = Append(e, x)
      BY <1>4, NextEvent
    <2>2. /\ DOMAIN Append(e, x) = 1 .. Len(e) + 1
          /\ \A i \in 1 .. Len(e) : Append(e, x)[i] = e[i]
          /\ Append(e, x)[Len(e) + 1] = x
          /\ Len(e) \in Nat /\ DOMAIN e = 1 .. Len(e)
      BY <1>1, <1>2, AppendFacts, SequenceFacts
    <2>3. c \in Seq(R \cup {Content(x)}) /\ Len(c) = Len(e)
      BY <1>3
    <2>4. \A i \in 1 .. Len(e) : c[i] = Content(e[i])
      BY <2>2 DEF Contents
    <2> DEFINE d == Append(c, Content(x))
    <2>5. /\ d = [i \in 1 .. Len(e) + 1 |-> d[i]]
          /\ \A i \in 1 .. Len(e) : d[i] = c[i]
          /\ d[Len(e) + 1] = Content(x)
      <3>1. Sequence(c) /\ Len(c) = Len(e)
        BY <2>3 DEF Sequence
      <3> HIDE DEF c, e
      <3>2. /\ Sequence(d) /\ Len(d) = Len(e) + 1
            /\ \A i \in 1 .. Len(e) : d[i] = c[i]
            /\ d[Len(e) + 1] = Content(x)
        BY <3>1, AppendFacts
      <3> HIDE DEF d
      <3>3. d = [i \in 1 .. Len(d) |-> d[i]]
        BY <3>2 DEF Sequence
      <3> QED
        BY <3>2, <3>3
    <2>6. Contents(Append(s, x)) =
              [i \in 1 .. Len(e) + 1 |-> Content(Append(e, x)[i])]
      BY <2>1, <2>2 DEF Contents
    <2>7. \A i \in 1 .. Len(e) + 1 : d[i] = Content(Append(e, x)[i])
      <3> HIDE DEF c, e, d
      <3> QED
        BY <2>2, <2>4, <2>5
    <2>8. d = [i \in 1 .. Len(e) + 1 |-> Content(Append(e, x)[i])]
      <3> HIDE DEF c, e, d
      <3> QED
        BY <2>5, <2>7
    <2> QED
      BY <1>3, <1>4, <2>6, <2>8 DEF Sequence
  <1>5. CASE x.kind # "event"
    BY <1>3, <1>5, NextEvent DEF Contents, Sequence
  <1> QED
    BY <1>4, <1>5

(* Linking one more event keeps the chain.                                 *)
LEMMA NextChained ==
    ASSUME NEW s, Sequence(s), NEW hash, NEW height, Chained(s, hash, height),
           NEW x
    PROVE  /\ x.kind # "event" => Chained(Append(s, x), hash, height)
           /\ x.kind = "event" /\ x.height = height + 1 /\ x.parent = hash =>
                  Chained(Append(s, x), Hash(x), height + 1)
  <1> DEFINE e == Events(s)
  <1>1. Sequence(e)
    BY NextEvent
  <1>2. CASE x.kind # "event"
    BY <1>2, NextEvent DEF Chained
  <1>3. ASSUME x.kind = "event", x.height = height + 1, x.parent = hash
        PROVE  Chained(Append(s, x), Hash(x), height + 1)
    <2> DEFINE next == Append(e, x)
    <2>1. Events(Append(s, x)) = next
      BY <1>3, NextEvent
    <2>2. /\ DOMAIN next = 1 .. Len(e) + 1 /\ Len(next) = Len(e) + 1
          /\ \A i \in 1 .. Len(e) : next[i] = e[i]
          /\ next[Len(e) + 1] = x
          /\ Len(e) \in Nat /\ DOMAIN e = 1 .. Len(e)
      BY <1>1, AppendFacts, SequenceFacts
    <2>3. /\ \A i \in DOMAIN e :
                 /\ e[i].height = i - 1
                 /\ e[i].parent = IF i = 1 THEN NoHash ELSE Hash(e[i - 1])
          /\ height = Len(e) - 1
          /\ hash = IF e = <<>> THEN NoHash ELSE Hash(e[Len(e)])
      BY DEF Chained
    <2>4. e = <<>> <=> Len(e) = 0
      BY <1>1 DEF Sequence
    <2>5. next # <<>>
      BY <2>2
    <2> HIDE DEF next, e
    <2>6. ASSUME NEW i \in DOMAIN next
          PROVE  /\ next[i].height = i - 1
                 /\ next[i].parent = IF i = 1 THEN NoHash ELSE Hash(next[i - 1])
      <3>1. CASE i = Len(e) + 1
        BY <1>3, <2>2, <2>3, <2>4, <3>1
      <3>2. CASE i \in 1 .. Len(e)
        <4>1. i # 1 => i - 1 \in 1 .. Len(e)
          BY <2>2, <3>2
        <4> QED
          BY <2>2, <2>3, <3>2, <4>1
      <3> QED
        BY <2>2, <3>1, <3>2
    <2>7. height + 1 = Len(next) - 1
      BY <2>2, <2>3
    <2> QED
      BY <2>1, <2>2, <2>5, <2>6, <2>7 DEF Chained
  <1> QED
    BY <1>2, <1>3

(* Linking goes on from a hash and a height; what it has made of a batch   *)
(* continues the archive s: the chain, and the contents.                   *)
Origin(hash, height) == [hash |-> hash, height |-> height, records |-> <<>>]

Continues(s, acc, batch) ==
    /\ acc = [hash |-> acc.hash, height |-> acc.height,
              records |-> acc.records]
    /\ acc.height \in Int
    /\ Sequence(acc.records)
    /\ Len(acc.records) = Len(batch)
    /\ Chained(s \o acc.records, acc.hash, acc.height)
    /\ Contents(s \o acc.records) = Contents(s) \o Contents(batch)

LEMMA LinkingAdds ==
    ASSUME NEW s, Sequence(s), NEW hash, NEW height \in Int,
           Chained(s, hash, height),
           NEW S, \A x \in S : x.kind \in {"data", "event"}
    PROVE  \A batch \in Seq(S) :
               Continues(s, LinkAll(Origin(hash, height), batch), batch)
  <1> DEFINE start == Origin(hash, height)
             Good(acc, batch) == Continues(s, acc, batch)
             T == {batch \in Seq(S) : Good(LinkAll(start, batch), batch)}
  <1> USE DEF Continues
  <1>1. <<>> \in T
    <2>1. <<>> \in Seq(S) /\ Sequence(<<>>)
      BY DEF Sequence
    <2>2. Contents(<<>>) = <<>>
      BY EventStep DEF Contents
    <2>3. Sequence(Contents(s))
      BY NextContents
    <2>4. s \o <<>> = s /\ Contents(s) \o <<>> = Contents(s)
      BY <2>3, SequenceFacts
    <2>5. Good(start, <<>>)
      BY <2>1, <2>2, <2>4 DEF Origin
    <2> QED
      BY <2>1, <2>5, LinkStep
  <1>2. ASSUME NEW batch \in Seq(S), NEW x \in S, batch \in T
        PROVE  Append(batch, x) \in T
    <2> DEFINE acc == LinkAll(start, batch)
               next == Link(acc, x)
               total == s \o acc.records
    <2>1. Append(batch, x) \in Seq(S) /\ LinkAll(start, Append(batch, x)) = next
      BY LinkStep
    <2>2. Good(acc, batch)
      BY <1>2
    <2>3. PICK r :
              /\ next = [hash |-> next.hash, height |-> next.height,
                         records |-> Append(acc.records, r)]
              /\ next.height \in Int
              /\ r.kind = x.kind
              /\ r.kind # "event" =>
                     r = x /\ next.hash = acc.hash /\ next.height = acc.height
              /\ r.kind = "event" =>
                     /\ Content(r) = Content(x)
                     /\ r.height = acc.height + 1 /\ r.parent = acc.hash
                     /\ next.hash = Hash(r) /\ next.height = acc.height + 1
      <3> HIDE DEF acc
      <3>1. CASE x.kind = "data"
        <4>1. next = [hash |-> acc.hash, height |-> acc.height,
                      records |-> Append(acc.records, x)]
          BY <2>2, <3>1 DEF Link
        <4>2. acc.height \in Int
          BY <2>2
        <4> HIDE DEF next
        <4>3. /\ next = [hash |-> next.hash, height |-> next.height,
                         records |-> Append(acc.records, x)]
              /\ next.hash = acc.hash /\ next.height = acc.height
          BY <4>1
        <4> QED
          BY <3>1, <4>2, <4>3
      <3>2. CASE x.kind = "event"
        <4> DEFINE ev == LinkedEvent(acc, x)
        <4>1. next = [hash |-> Hash(ev), height |-> acc.height + 1,
                      records |-> Append(acc.records, ev)]
          BY <3>2 DEF Link
        <4>2. /\ ev.kind = "event" /\ ev.height = acc.height + 1
              /\ ev.parent = acc.hash
          BY DEF LinkedEvent
        <4>3. Content(ev) = Content(x)
          BY DEF LinkedEvent, Content
        <4>4. acc.height + 1 \in Int
          BY <2>2
        <4> HIDE DEF ev, next
        <4>5. /\ next = [hash |-> next.hash, height |-> next.height,
                         records |-> Append(acc.records, ev)]
              /\ next.hash = Hash(ev) /\ next.height = acc.height + 1
          BY <4>1
        <4> QED
          BY <3>2, <4>2, <4>3, <4>4, <4>5
      <3> QED
        BY <3>1, <3>2
    <2> HIDE DEF acc, next
    <2> DEFINE recs == acc.records
    <2>4. /\ Sequence(next.records) /\ next.records = Append(recs, r)
          /\ Len(next.records) = Len(recs) + 1
          /\ Len(Append(batch, x)) = Len(batch) + 1
      <3>1. next.records = Append(recs, r)
        BY <2>3
      <3>2. Sequence(recs)
        BY <2>2
      <3> HIDE DEF recs
      <3> QED
        BY <3>1, <3>2, AppendFacts
    <2>5. Sequence(total) /\ s \o next.records = Append(total, r)
      <3>1. Sequence(recs) /\ total = s \o recs
        BY <2>2
      <3> HIDE DEF recs, total
      <3>2. Sequence(s \o recs) /\ s \o Append(recs, r) = Append(s \o recs, r)
        BY <3>1, ConcatFacts
      <3> QED
        BY <2>4, <3>1, <3>2
    <2>6. Chained(total, acc.hash, acc.height)
      BY <2>2
    <2> HIDE DEF total
    <2>7. Chained(s \o next.records, next.hash, next.height)
      BY <2>3, <2>5, <2>6, NextChained
    <2>8. Contents(s \o next.records) = Contents(s) \o Contents(Append(batch, x))
      <3>1. Sequence(batch) /\ Sequence(Contents(batch)) /\ Sequence(Contents(s))
        BY NextContents DEF Sequence
      <3>2. Contents(total) = Contents(s) \o Contents(batch)
        BY <2>2 DEF total
      <3>3. CASE x.kind = "event"
        <4>1. Contents(s \o next.records) = Append(Contents(total), Content(x))
          BY <2>3, <2>5, <3>3, NextContents
        <4>2. Contents(Append(batch, x)) = Append(Contents(batch), Content(x))
          BY <3>1, <3>3, NextContents
        <4>3. Contents(s) \o Append(Contents(batch), Content(x))
                  = Append(Contents(s) \o Contents(batch), Content(x))
          BY <3>1, ConcatFacts
        <4> QED
          BY <3>2, <4>1, <4>2, <4>3
      <3>4. CASE x.kind # "event"
        BY <2>3, <2>5, <3>1, <3>2, <3>4, NextContents
      <3> QED
        BY <3>3, <3>4
    <2>9. next = [hash |-> next.hash, height |-> next.height,
                  records |-> next.records]
      BY <2>3
    <2>10. Good(next, Append(batch, x))
      BY <2>2, <2>3, <2>4, <2>7, <2>8, <2>9
    <2> QED
      BY <2>1, <2>10
  <1> HIDE DEF T
  <1>3. Seq(S) \subseteq T
    BY <1>1, <1>2, Linking!SequenceInduction
  <1> QED
    BY <1>3 DEF T

(* A batch with an event has contents.                                     *)
LEMMA BatchContents ==
    ASSUME NEW batch \in Batches
    PROVE  Sequence(Contents(batch)) /\ Contents(batch) # <<>>
  <1> DEFINE S == ToSet(batch)
             T == {t \in Seq(S) :
                      (\E i \in DOMAIN t : t[i].kind = "event") => Events(t) # <<>>}
  <1>1. batch \in Seq(S) /\ \E i \in DOMAIN batch : batch[i].kind = "event"
    BY BatchesAssumption
  <1> HIDE DEF S
  <1>2. <<>> \in T
    OBVIOUS
  <1>3. ASSUME NEW t \in Seq(S), NEW x \in S, t \in T
        PROVE  Append(t, x) \in T
    <2>1. /\ Append(t, x) \in Seq(S) /\ Sequence(t)
          /\ \A i \in DOMAIN Append(t, x) :
                 \/ Append(t, x)[i] = x
                 \/ i \in DOMAIN t /\ Append(t, x)[i] = t[i]
      <3>1. Append(t, x) \in Seq(S) /\ Sequence(t)
        BY DEF Sequence
      <3>2. ASSUME NEW i \in DOMAIN Append(t, x), i # Len(t) + 1
            PROVE  i \in DOMAIN t /\ Append(t, x)[i] = t[i]
        BY <3>2
      <3>3. Append(t, x)[Len(t) + 1] = x
        OBVIOUS
      <3> QED
        BY <3>1, <3>2, <3>3
    <2>2. CASE x.kind = "event"
      <3>1. Sequence(Events(t)) /\ Events(Append(t, x)) = Append(Events(t), x)
        BY <2>1, <2>2, NextEvent
      <3>2. Append(Events(t), x) # <<>>
        BY <3>1, AppendFacts DEF Sequence
      <3> QED
        BY <2>1, <3>1, <3>2
    <2>3. CASE x.kind # "event"
      <3>1. Events(Append(t, x)) = Events(t)
        BY <2>1, <2>3, NextEvent
      <3> QED
        BY <1>3, <2>1, <2>3, <3>1
    <2> QED
      BY <2>2, <2>3
  <1>4. Events(batch) # <<>> /\ Sequence(batch)
    <2> HIDE DEF T
    <2>1. Seq(S) \subseteq T
      BY <1>2, <1>3, Linking!SequenceInduction
    <2> QED
      BY <1>1, <2>1 DEF T, Sequence
  <1>5. Sequence(Events(batch)) /\ Sequence(Contents(batch))
    BY <1>4, NextEvent, NextContents
  <1>6. DOMAIN Contents(batch) = DOMAIN Events(batch) /\ DOMAIN Events(batch) # {}
    BY <1>4, <1>5 DEF Contents, Sequence
  <1> QED
    BY <1>5, <1>6

-----------------------------------------------------------------------------
(* The roots of the index are the latest events.                           *)

RootsOf(roots, records) ==
    /\ DOMAIN roots = Chains \cup Singles
    /\ \A typ \in Chains : roots[typ] = {Hash(r) : r \in LatestOf(records, typ)}
    /\ \A typ \in Singles : roots[typ] = {r.payload : r \in LatestOf(records, typ)}

LEMMA NextLatest ==
    ASSUME NEW S, NEW s \in Seq(S), NEW x \in S, NEW typ
    PROVE  LatestOf(Append(s, x), typ) =
               IF x.kind = "event" /\ x.typ = typ THEN {x} ELSE LatestOf(s, typ)
  <1> DEFINE is(t) == {i \in DOMAIN t : t[i].kind = "event" /\ t[i].typ = typ}
             latest(t) == {i \in is(t) : \A j \in is(t) : j <= i}
             app == Append(s, x)
             n == Len(s) + 1
  <1>1. /\ DOMAIN app = DOMAIN s \cup {n} /\ n \notin DOMAIN s
        /\ \A i \in DOMAIN s : i \in Int /\ i < n /\ app[i] = s[i]
        /\ app[n] = x /\ n \in Int
    OBVIOUS
  <1>2. \A t : LatestOf(t, typ) = {t[i] : i \in latest(t)}
    BY DEF LatestOf
  <1> HIDE DEF app, n
  <1>3. CASE x.kind = "event" /\ x.typ = typ
    <2>1. is(app) = is(s) \cup {n}
      BY <1>1, <1>3
    <2>2. latest(app) = {n}
      <3>1. \A i \in is(s) : i \in Int /\ i < n
        BY <1>1
      <3> HIDE DEF is
      <3>2. n \in latest(app)
        BY <1>1, <2>1, <3>1
      <3>3. \A i \in latest(app) : i = n
        BY <1>1, <2>1, <3>1
      <3> HIDE DEF latest
      <3> QED
        BY <3>2, <3>3
    <2> HIDE DEF latest, is
    <2>3. LatestOf(app, typ) = {app[n]}
      BY <1>2, <2>2
    <2> QED
      BY <1>1, <1>3, <2>3 DEF app
  <1>4. CASE ~(x.kind = "event" /\ x.typ = typ)
    <2>1. is(app) = is(s)
      BY <1>1, <1>4
    <2>2. \A i \in is(s) : app[i] = s[i]
      BY <1>1
    <2> HIDE DEF is
    <2>3. latest(app) = latest(s) /\ \A i \in latest(s) : app[i] = s[i]
      BY <2>1, <2>2
    <2> HIDE DEF latest
    <2>4. {app[i] : i \in latest(app)} = {s[i] : i \in latest(s)}
      BY <2>3
    <2> QED
      BY <1>2, <1>4, <2>4 DEF app
  <1> QED
    BY <1>3, <1>4

LEMMA RootsAreLatest ==
    ASSUME NEW s, Sequence(s)
    PROVE  RootsOf(Rooted(EmptyRoots, s), s)
  <1>1. PICK S : s \in Seq(S)
    BY DEF Sequence
  <1> DEFINE T == {t \in Seq(S) : RootsOf(Rooted(EmptyRoots, t), t)}
  <1>2. <<>> \in T
    <2>1. <<>> \in Seq(S) /\ \A typ : LatestOf(<<>>, typ) = {}
      BY DEF LatestOf
    <2> QED
      BY <2>1, RootStep DEF RootsOf, EmptyRoots
  <1>3. ASSUME NEW t \in Seq(S), NEW x \in S, t \in T
        PROVE  Append(t, x) \in T
    <2> DEFINE roots == Rooted(EmptyRoots, t)
               app == Append(t, x)
    <2>1. app \in Seq(S) /\ Rooted(EmptyRoots, app) = UpdateRoots(roots, x)
      BY RootStep
    <2>2. RootsOf(roots, t)
      BY <1>3
    <2>3. \A typ : LatestOf(app, typ) =
              IF x.kind = "event" /\ x.typ = typ THEN {x} ELSE LatestOf(t, typ)
      BY NextLatest
    <2>4. \A typ \in Chains : typ \notin Singles
      BY DEF Chains, Singles
    <2> HIDE DEF roots, app
    <2>5. RootsOf(UpdateRoots(roots, x), app)
      BY <2>2, <2>3, <2>4 DEF RootsOf, UpdateRoots
    <2>6. RootsOf(Rooted(EmptyRoots, app), app)
      BY <2>1, <2>5
    <2> QED
      BY <2>1, <2>6 DEF app
  <1>4. s \in T
    <2> HIDE DEF T
    <2>1. Seq(S) \subseteq T
      BY <1>2, <1>3, Rooting!SequenceInduction
    <2> QED
      BY <1>1, <2>1
  <1> QED
    BY <1>4

-----------------------------------------------------------------------------
(* The inductive invariant, of a file f, a last event l, an index ix and   *)
(* an append under way wr.                                                 *)

(* The committed records.                                                  *)
Kept(f, l) == SubSeq(f, 1, Pos(l))

LastHash(l) == IF l = {} THEN NoHash ELSE (CHOOSE x \in l : TRUE).hash
LastHeight(l) == IF l = {} THEN -1 ELSE (CHOOSE x \in l : TRUE).height

(* Last_event closes the chain of the committed events.                    *)
Closes(l, records) ==
    /\ Chained(records, LastHash(l), LastHeight(l))
    /\ l # {} => Events(records) # <<>>

IndexOf(records) ==
    [map |-> Locations(records, 0), roots |-> Rooted(EmptyRoots, records)]

(* These contents are those with the events of one batch more.             *)
Grows(contents, more) ==
    \E batch \in Batches : more = contents \o Contents(batch)

(* The file and what is still to be written make the archive that the new  *)
(* last event announces, with the events of one batch more.                *)
Underway(w, f, l) ==
    /\ w = [todo |-> w.todo, records |-> w.records, pos |-> w.pos, last |-> w.last]
    /\ Sequence(w.todo) /\ Sequence(w.records)
    /\ f \o w.todo = Kept(f, l) \o w.records
    /\ w.pos = Pos(l) /\ w.last.pos = Pos(l) + Len(w.records)
    /\ Chained(Kept(f, l) \o w.records, w.last.hash, w.last.height)
    /\ Grows(Contents(Kept(f, l)), Contents(Kept(f, l) \o w.records))

ArchiveOK(f, l, ix, wr) ==
    /\ Sequence(f)
    /\ l = {} \/ \E x : l = {x}
    /\ Pos(l) \in 0 .. Len(f)
    /\ Closes(l, Kept(f, l))
    /\ ix \subseteq {IndexOf(Kept(f, l))}
    /\ \A w \in wr : Underway(w, f, l)

ArchiveInv == ArchiveOK(file, last, index, writing)

LEMMA CommittedKept ==
    ASSUME Pos(last) \in 0 .. Len(file), Sequence(file)
    PROVE  /\ Committed = Kept(file, last)
           /\ Built(Pos(last)) = IndexOf(Kept(file, last))
  <1>1. Before(Pos(last)) = Kept(file, last)
    <2>1. Pos(last) <= Len(file)
      BY SequenceFacts
    <2> QED
      BY <2>1 DEF Before, Kept
  <1> QED
    BY <1>1 DEF Committed, Built, IndexOf

LEMMA LocationsConcat ==
    ASSUME NEW s, Sequence(s), NEW t, Sequence(t)
    PROVE  Locations(s \o t, 0) = Locations(s, 0) \cup Locations(t, Len(s))
  <1> DEFINE at(i) == [hash |-> Hash((s \o t)[i]), pos |-> i]
  <1>1. /\ Len(s) \in Nat /\ Len(t) \in Nat /\ DOMAIN s = 1 .. Len(s)
        /\ DOMAIN t = 1 .. Len(t) /\ DOMAIN (s \o t) = 1 .. Len(s) + Len(t)
        /\ \A i \in 1 .. Len(s) : (s \o t)[i] = s[i]
        /\ \A i \in 1 .. Len(t) : (s \o t)[Len(s) + i] = t[i]
    BY ConcatFacts, SequenceFacts
  <1>2. Locations(s \o t, 0) = {at(i) : i \in 1 .. Len(s) + Len(t)}
    BY <1>1 DEF Locations
  <1>3. Locations(s, 0) = {at(i) : i \in 1 .. Len(s)}
    BY <1>1 DEF Locations
  <1>4. Locations(t, Len(s)) = {at(Len(s) + i) : i \in 1 .. Len(t)}
    BY <1>1 DEF Locations
  <1>5. \A i \in 1 .. Len(s) + Len(t) :
            i \in 1 .. Len(s) \/ \E j \in 1 .. Len(t) : i = Len(s) + j
    <2> SUFFICES ASSUME NEW i \in 1 .. Len(s) + Len(t), i \notin 1 .. Len(s)
                 PROVE  i - Len(s) \in 1 .. Len(t) /\ i = Len(s) + (i - Len(s))
      BY <1>1
    <2> QED
      BY <1>1
  <1>6. /\ \A i \in 1 .. Len(s) : i \in 1 .. Len(s) + Len(t)
        /\ \A i \in 1 .. Len(t) : Len(s) + i \in 1 .. Len(s) + Len(t)
    BY <1>1
  <1> HIDE DEF at
  <1> QED
    BY <1>2, <1>3, <1>4, <1>5, <1>6

LEMMA InitOK == ArchiveOK(<<>>, {}, {}, {})
  <1>1. Sequence(<<>>) /\ Len(<<>>) = 0 /\ Pos({}) = 0
    BY DEF Sequence, Pos
  <1>2. Kept(<<>>, {}) = <<>>
    BY <1>1, SequenceFacts DEF Kept
  <1>3. Closes({}, <<>>)
    BY EventStep DEF Closes, Chained, LastHash, LastHeight
  <1> QED
    BY <1>1, <1>2, <1>3 DEF ArchiveOK

(* Dropping the index, the append under way, or both.                      *)
LEMMA DropOK ==
    ASSUME NEW f, NEW l, NEW ix, NEW wr, ArchiveOK(f, l, ix, wr),
           NEW ix2 \in SUBSET ix, NEW wr2 \in SUBSET wr
    PROVE  ArchiveOK(f, l, ix2, wr2)
  BY DEF ArchiveOK

LEMMA StartOK ==
    ASSUME NEW f, NEW l, NEW ix, ArchiveOK(f, l, ix, {}), NEW batch \in Batches,
           NEW ix2 \in SUBSET {IndexOf(Kept(f, l))}
    PROVE  LET linked == Linked(batch, l)
               w == [todo |-> linked.records, records |-> linked.records,
                     pos |-> Pos(l),
                     last |-> [hash |-> linked.hash, height |-> linked.height,
                               pos |-> Pos(l) + Len(batch)]]
           IN  ArchiveOK(Kept(f, l), l, ix2, {w})
  <1> DEFINE linked == Linked(batch, l)
             c == Kept(f, l)
             w == [todo |-> linked.records, records |-> linked.records,
                   pos |-> Pos(l),
                   last |-> [hash |-> linked.hash, height |-> linked.height,
                             pos |-> Pos(l) + Len(batch)]]
  <1>1. /\ Sequence(f) /\ Pos(l) \in 0 .. Len(f)
        /\ l = {} \/ \E x : l = {x}
        /\ Closes(l, c)
    BY DEF ArchiveOK
  <1>2. /\ Sequence(c) /\ Len(c) = Pos(l) /\ Kept(c, l) = c
    BY <1>1, PrefixFacts DEF Kept
  <1>3. linked = LinkAll(Origin(LastHash(l), LastHeight(l)), batch)
    <2>1. CASE l = {}
      BY <2>1 DEF Linked, Origin, LastHash, LastHeight
    <2>2. CASE l # {}
      BY <2>2 DEF Linked, Origin, LastHash, LastHeight
    <2> QED
      BY <2>1, <2>2
  <1>4. Chained(c, LastHash(l), LastHeight(l)) /\ LastHeight(l) \in Int
    <2>1. Sequence(Events(c))
      BY <1>2, NextEvent
    <2>2. Len(Events(c)) \in Nat
      BY <2>1, SequenceFacts
    <2> QED
      BY <1>1, <2>2 DEF Closes, Chained
  <1>5. /\ batch \in Seq(ToSet(batch))
        /\ \A x \in ToSet(batch) : x.kind \in {"data", "event"}
    BY BatchesAssumption DEF ToSet
  <1> HIDE DEF c, linked
  <1>6. /\ Sequence(linked.records)
        /\ Len(linked.records) = Len(batch)
        /\ Chained(c \o linked.records, linked.hash, linked.height)
        /\ Contents(c \o linked.records) = Contents(c) \o Contents(batch)
    <2> DEFINE S == ToSet(batch)
               hash == LastHash(l)
               height == LastHeight(l)
    <2>1. batch \in Seq(S) /\ \A x \in S : x.kind \in {"data", "event"}
      BY <1>5
    <2>2. Chained(c, hash, height) /\ height \in Int
      BY <1>4
    <2>3. linked = LinkAll(Origin(hash, height), batch)
      BY <1>3
    <2> HIDE DEF S, hash, height
    <2>4. Continues(c, linked, batch)
      BY <1>2, <2>1, <2>2, <2>3, LinkingAdds
    <2> QED
      BY <2>4 DEF Continues
  <1>7. Underway(w, c, l)
    BY <1>2, <1>6 DEF Underway, Grows
  <1> HIDE DEF w
  <1>8. Pos(l) \in 0 .. Len(c)
    BY <1>1, <1>2
  <1>9. ArchiveOK(c, l, ix2, {w})
    BY <1>1, <1>2, <1>7, <1>8 DEF ArchiveOK, c
  <1> QED
    BY <1>9 DEF c, w, linked

LEMMA WriteOK ==
    ASSUME NEW f, NEW l, NEW ix, NEW wr, ArchiveOK(f, l, ix, wr),
           NEW w \in wr, w.todo # <<>>
    PROVE  ArchiveOK(Append(f, Head(w.todo)), l, ix, {[w EXCEPT !.todo = Tail(@)]})
  <1> DEFINE g == Append(f, Head(w.todo))
             v == [w EXCEPT !.todo = Tail(@)]
  <1>1. /\ Sequence(f) /\ Pos(l) \in 0 .. Len(f)
        /\ Underway(w, f, l)
    BY DEF ArchiveOK
  <1>2. /\ Sequence(w.todo) /\ Sequence(w.records)
        /\ f \o w.todo = Kept(f, l) \o w.records
        /\ w = [todo |-> w.todo, records |-> w.records,
                pos |-> w.pos, last |-> w.last]
    BY <1>1 DEF Underway
  <1>3. Sequence(g) /\ Len(g) = Len(f) + 1 /\ Len(f) \in Nat
    BY <1>1, AppendFacts, SequenceFacts
  <1>4. Kept(g, l) = Kept(f, l)
    BY <1>1, PrefixFacts DEF Kept
  <1>5. g \o Tail(w.todo) = f \o w.todo /\ Sequence(Tail(w.todo))
    BY <1>1, <1>2, ConcatFacts
  <1>6. /\ v = [todo |-> Tail(w.todo), records |-> w.records,
                pos |-> w.pos, last |-> w.last]
    <2>1. PICK a, b, c, d :
              w = [todo |-> a, records |-> b, pos |-> c, last |-> d]
      BY <1>2
    <2> QED
      BY <2>1
  <1> HIDE DEF g, v
  <1>7. Underway(v, g, l)
    BY <1>1, <1>4, <1>5, <1>6 DEF Underway
  <1>8. Pos(l) \in 0 .. Len(g)
    BY <1>1, <1>3
  <1>9. ArchiveOK(g, l, ix, {v})
    BY <1>3, <1>4, <1>7, <1>8 DEF ArchiveOK
  <1> QED
    BY <1>9 DEF g, v

(* The indexes after the commit of w.                                      *)
Followed(ix, w) ==
    {[map |-> i.map \cup Locations(w.records, w.pos),
      roots |-> Rooted(i.roots, w.records)] : i \in ix}

(* A commit: the whole file is committed, with the events of one batch     *)
(* after those there were, and the index follows.                          *)
LEMMA CommitOK ==
    ASSUME NEW f, NEW l, NEW ix, NEW wr, ArchiveOK(f, l, ix, wr),
           NEW w \in wr, w.todo = <<>>
    PROVE  /\ ArchiveOK(f, {w.last}, Followed(ix, w), {})
           /\ Grows(Contents(Kept(f, l)), Contents(Kept(f, {w.last})))
  <1> DEFINE c == Kept(f, l)
             ix2 == Followed(ix, w)
  <1>1. /\ Sequence(f) /\ Pos(l) \in 0 .. Len(f)
        /\ ix \subseteq {IndexOf(c)}
        /\ Underway(w, f, l)
    BY DEF ArchiveOK
  <1>2. Sequence(c) /\ Len(c) = Pos(l)
    BY <1>1, PrefixFacts DEF Kept
  <1>3. /\ Sequence(w.records)
        /\ f \o w.todo = c \o w.records
        /\ w.pos = Pos(l) /\ w.last.pos = Pos(l) + Len(w.records)
        /\ Chained(c \o w.records, w.last.hash, w.last.height)
        /\ Grows(Contents(c), Contents(c \o w.records))
    BY <1>1 DEF Underway
  <1>4. f = c \o w.records
    BY <1>1, <1>3, SequenceFacts
  <1>5. Pos({w.last}) = Len(f)
    <2>1. Pos({w.last}) = w.last.pos
      BY DEF Pos
    <2>2. Len(f) = Len(c) + Len(w.records)
      BY <1>2, <1>3, <1>4, ConcatFacts
    <2> QED
      BY <1>2, <1>3, <2>1, <2>2
  <1>6. Kept(f, {w.last}) = f /\ Len(f) \in Nat
    BY <1>1, <1>5, SequenceFacts DEF Kept
  <1>7. PICK batch \in Batches : Contents(f) = Contents(c) \o Contents(batch)
    BY <1>3, <1>4 DEF Grows
  <1>8. Closes({w.last}, f)
    <2>1. LastHash({w.last}) = w.last.hash /\ LastHeight({w.last}) = w.last.height
      BY DEF LastHash, LastHeight
    <2>2. Events(f) # <<>>
      <3>1. /\ Sequence(Contents(c)) /\ Sequence(Contents(f))
            /\ Sequence(Contents(batch)) /\ Contents(batch) # <<>>
        BY <1>1, <1>2, NextContents, BatchContents
      <3>2. Len(Contents(f)) # 0
        <4>1. Len(Contents(f)) = Len(Contents(c)) + Len(Contents(batch))
          BY <1>7, <3>1, ConcatFacts
        <4>2. Len(Contents(batch)) \in Nat \ {0} /\ Len(Contents(c)) \in Nat
          <5>1. PICK S, R : Contents(batch) \in Seq(S) /\ Contents(c) \in Seq(R)
            BY <3>1 DEF Sequence
          <5> QED
            BY <3>1, <5>1
        <4> QED
          BY <4>1, <4>2
      <3>3. DOMAIN Contents(f) # {}
        <4>1. Len(Contents(f)) \in Nat /\ DOMAIN Contents(f) = 1 .. Len(Contents(f))
          BY <3>1, SequenceFacts
        <4> QED
          BY <3>2, <4>1
      <3>4. DOMAIN Events(f) # {}
        BY <3>3 DEF Contents
      <3> QED
        BY <3>4
    <2> QED
      BY <1>3, <1>4, <2>1, <2>2 DEF Closes
  <1>9. ix2 \subseteq {IndexOf(f)}
    <2>1. Locations(f, 0) = Locations(c, 0) \cup Locations(w.records, w.pos)
      BY <1>2, <1>3, <1>4, LocationsConcat
    <2>2. Rooted(EmptyRoots, f) = Rooted(Rooted(EmptyRoots, c), w.records)
      <3>1. PICK S : c \in Seq(S) /\ w.records \in Seq(S)
        BY <1>2, <1>3, CommonSet
      <3> HIDE DEF c
      <3>2. Rooted(EmptyRoots, c \o w.records)
                = Rooted(Rooted(EmptyRoots, c), w.records)
        BY <3>1, RootStep
      <3> QED
        BY <1>4, <3>2
    <2>3. ASSUME NEW i \in ix
          PROVE  [map |-> i.map \cup Locations(w.records, w.pos),
                  roots |-> Rooted(i.roots, w.records)] = IndexOf(f)
      <3>1. i = [map |-> Locations(c, 0), roots |-> Rooted(EmptyRoots, c)]
        BY <1>1 DEF IndexOf
      <3>2. i.map = Locations(c, 0) /\ i.roots = Rooted(EmptyRoots, c)
        BY <3>1
      <3> QED
        BY <2>1, <2>2, <3>2 DEF IndexOf
    <2> QED
      BY <2>3 DEF Followed
  <1> HIDE DEF c, ix2
  <1>10. ArchiveOK(f, {w.last}, ix2, {})
    <2> DEFINE l2 == {w.last}
    <2>1. \E x : l2 = {x}
      OBVIOUS
    <2>2. Pos(l2) \in 0 .. Len(f)
      BY <1>5, <1>6
    <2>3. Kept(f, l2) = f /\ Closes(l2, f) /\ ix2 \subseteq {IndexOf(f)}
      BY <1>6, <1>8, <1>9
    <2> HIDE DEF l2
    <2>4. ArchiveOK(f, l2, ix2, {})
      BY <1>1, <2>1, <2>2, <2>3 DEF ArchiveOK
    <2> QED
      BY <2>4 DEF l2
  <1> QED
    BY <1>6, <1>7, <1>10 DEF c, ix2, Grows

-----------------------------------------------------------------------------
(* The steps of the specification, where the reads of Last_event succeed.  *)

(* The public events: those of the committed records.                      *)
Public == Contents(Committed)

PublicIsKept == Public = Contents(Kept(file, last)) /\ Sequence(Public)

LEMMA PublicKept == ArchiveInv => PublicIsKept
  <1> SUFFICES ASSUME ArchiveInv PROVE PublicIsKept
    OBVIOUS
  <1>1. Sequence(file) /\ Pos(last) \in 0 .. Len(file)
    BY DEF ArchiveInv, ArchiveOK
  <1>2. Sequence(Kept(file, last))
    BY <1>1, PrefixFacts DEF Kept
  <1> QED
    BY <1>1, <1>2, CommittedKept, NextContents DEF Public, PublicIsKept

LEMMA PublicKeptNext == ArchiveInv' => PublicIsKept'
  BY PublicKept, PTL

(* An append starts by cutting the file after the committed records.       *)
LEMMA StartStep ==
    ASSUME ReadErrors = FALSE, ArchiveInv,
           NEW batch \in Batches, StartAppend(batch)
    PROVE  /\ ArchiveInv'
           /\ file' = Kept(file, last) /\ last' = last
  <1> DEFINE linked == Linked(batch, last)
             w == [todo |-> linked.records, records |-> linked.records,
                   pos |-> Pos(last),
                   last |-> [hash |-> linked.hash, height |-> linked.height,
                             pos |-> Pos(last) + Len(batch)]]
             anew == index = {} /\ last = {}
  <1>1. /\ Sequence(file) /\ Pos(last) \in 0 .. Len(file)
        /\ index \subseteq {IndexOf(Kept(file, last))}
        /\ ArchiveOK(file, last, index, writing)
    BY DEF ArchiveInv, ArchiveOK
  <1>2. /\ writing = {} /\ last' = last /\ writing' = {w}
        /\ index' = IF index # {} THEN index
                    ELSE IF anew THEN {[map |-> {}, roots |-> EmptyRoots]}
                    ELSE {Built(Pos(last))}
        /\ file' = Cut(IF anew THEN <<>> ELSE file, Pos(last))
    <2>1. LastRead = {last}
      BY DEF LastRead
    <2> QED
      BY <2>1, Zenon DEF StartAppend
  <1>3. last = {} => Pos(last) = 0 /\ Kept(file, last) = <<>>
    <2>1. Pos({}) = 0
      BY DEF Pos
    <2> QED
      BY <1>1, <2>1, SequenceFacts DEF Kept
  <1>4. file' = Kept(file, last)
    <2>1. CASE anew
      <3>1. Len(<<>>) >= 0 /\ SubSeq(<<>>, 1, 0) = <<>>
        OBVIOUS
      <3> QED
        BY <1>2, <1>3, <2>1, <3>1 DEF Cut
    <2>2. CASE ~anew
      <3>1. Len(file) >= Pos(last)
        BY <1>1, SequenceFacts
      <3> QED
        BY <1>2, <2>2, <3>1 DEF Cut, Kept
    <2> QED
      BY <2>1, <2>2
  <1>5. index' \in SUBSET {IndexOf(Kept(file, last))}
    <2>1. CASE index # {}
      BY <1>1, <1>2, <2>1
    <2>2. CASE anew
      <3>1. Locations(<<>>, 0) = {} /\ Rooted(EmptyRoots, <<>>) = EmptyRoots
        BY RootStep DEF Locations
      <3> QED
        BY <1>2, <1>3, <2>2, <3>1 DEF IndexOf
    <2>3. CASE index = {} /\ ~anew
      BY <1>1, <1>2, <2>3, CommittedKept
    <2> QED
      BY <2>1, <2>2, <2>3
  <1>6. ArchiveOK(Kept(file, last), last, index', {w})
    BY <1>1, <1>2, <1>5, StartOK
  <1> HIDE DEF w
  <1> QED
    BY <1>2, <1>4, <1>6 DEF ArchiveInv

LEMMA WriteStep ==
    ASSUME ArchiveInv, WriteRecord
    PROVE  /\ ArchiveInv'
           /\ Kept(file, last)' = Kept(file, last)
  <1>1. PICK w \in writing :
            /\ w.todo # <<>>
            /\ file' = Append(file, Head(w.todo))
            /\ writing' = {[w EXCEPT !.todo = Tail(@)]}
            /\ last' = last /\ index' = index
    BY DEF WriteRecord
  <1>2. ArchiveOK(file', last', index', writing')
    BY <1>1, WriteOK DEF ArchiveInv
  <1>3. Sequence(file) /\ Pos(last) \in 0 .. Len(file)
    BY DEF ArchiveInv, ArchiveOK
  <1>4. Kept(file', last') = Kept(file, last)
    BY <1>1, <1>3, PrefixFacts DEF Kept
  <1> QED
    BY <1>2, <1>4 DEF ArchiveInv, Kept, Pos

LEMMA CommitStep ==
    ASSUME ArchiveInv, Commit
    PROVE  /\ ArchiveInv'
           /\ Grows(Contents(Kept(file, last)), Contents(Kept(file, last))')
  <1>1. PICK w \in writing :
            /\ w.todo = <<>>
            /\ last' = {w.last}
            /\ index' = Followed(index, w)
            /\ writing' = {}
            /\ file' = file
    BY DEF Commit, Followed
  <1>2. /\ ArchiveOK(file, {w.last}, Followed(index, w), {})
        /\ Grows(Contents(Kept(file, last)), Contents(Kept(file, {w.last})))
    <2>1. ArchiveOK(file, last, index, writing)
      BY DEF ArchiveInv
    <2>2. w.todo = <<>>
      BY <1>1
    <2> QED
      BY <2>1, <2>2, CommitOK, Zenon
  <1>3. /\ ArchiveOK(file', last', index', writing')
        /\ Grows(Contents(Kept(file, last)), Contents(Kept(file', last')))
    BY <1>1, <1>2
  <1> QED
    BY <1>3 DEF ArchiveInv

(* Every step keeps the invariant, and either publishes the events of a    *)
(* batch or leaves the public events as they are.                          *)
LEMMA ArchiveStep ==
    ASSUME ReadErrors = FALSE, ArchiveInv, [Next]_vars
    PROVE  /\ ArchiveInv'
           /\ Public' = Public \/ Grows(Public, Public')
  <1> DEFINE kept == Kept(file, last)
  <1>1. ArchiveOK(file, last, index, writing)
    BY DEF ArchiveInv
  <1>2. Sequence(file) /\ Pos(last) \in 0 .. Len(file)
    BY <1>1 DEF ArchiveOK
  <1> SUFFICES /\ ArchiveInv'
               /\ kept' = kept \/ Grows(Contents(kept), Contents(kept)')
    <2>1. Public = Contents(kept)
      BY PublicKept DEF PublicIsKept
    <2>2. ASSUME ArchiveInv' PROVE Public' = Contents(kept)'
      BY <2>2, PublicKeptNext DEF PublicIsKept
    <2> QED
      BY <2>1, <2>2 DEF Contents
  <1>3. ASSUME file' = file, last' = last,
               index' \in SUBSET index, writing' \in SUBSET writing
        PROVE  ArchiveInv' /\ kept' = kept
    <2>1. ArchiveOK(file, last, index', writing')
      BY <1>1, <1>3, DropOK
    <2> QED
      BY <1>3, <2>1 DEF ArchiveInv, Kept, Pos
  <1>4. CASE GetRoots
    <2>1. index' \in SUBSET {IndexOf(kept)}
      BY <1>2, <1>4, CommittedKept DEF GetRoots
    <2>2. ArchiveOK(file, last, index', writing)
      BY <1>1, <2>1 DEF ArchiveOK
    <2>3. file' = file /\ last' = last /\ writing' = writing
      BY <1>4 DEF GetRoots
    <2> QED
      BY <2>2, <2>3 DEF ArchiveInv, Kept, Pos
  <1>5. ASSUME NEW batch \in Batches, StartAppend(batch)
        PROVE  ArchiveInv' /\ kept' = kept
    <2>1. ArchiveInv' /\ file' = kept /\ last' = last
      BY <1>5, StartStep
    <2>2. SubSeq(kept, 1, Pos(last)) = kept
      BY <1>2, PrefixFacts DEF Kept
    <2> QED
      BY <2>1, <2>2 DEF Kept, Pos
  <1>6. CASE WriteRecord
    BY <1>6, WriteStep
  <1>7. CASE Commit
    BY <1>7, CommitStep
  <1>8. CASE Fail
    BY <1>3, <1>8 DEF Fail
  <1>9. CASE Kill
    BY <1>3, <1>9 DEF Kill
  <1>10. CASE Expire
    BY <1>3, <1>10 DEF Expire
  <1>11. CASE UNCHANGED vars
    BY <1>3, <1>11 DEF vars
  <1> QED
    BY <1>4, <1>5, <1>6, <1>7, <1>8, <1>9, <1>10, <1>11 DEF Next

LEMMA ArchiveInit == ASSUME Init PROVE ArchiveInv /\ Public = <<>>
  <1>1. ArchiveInv
    BY InitOK DEF Init, ArchiveInv
  <1>2. Kept(file, last) = <<>>
    BY SequenceFacts DEF Init, Kept, Pos, Sequence
  <1>3. Contents(<<>>) = <<>>
    BY EventStep DEF Contents
  <1> QED
    BY <1>1, <1>2, <1>3, PublicKept DEF PublicIsKept

(* While an append is under way the file begins with the committed records *)
(* and what is still to be written completes it; whatever interrupts it    *)
(* finds the archive of before.                                            *)
THEOREM ArchiveInvariant ==
    ASSUME ReadErrors = FALSE
    PROVE  Spec => []ArchiveInv
  <1>1. Init => ArchiveInv
    BY ArchiveInit
  <1>2. ArchiveInv /\ [Next]_vars => ArchiveInv'
    BY ArchiveStep
  <1> QED
    BY <1>1, <1>2, PTL DEF Spec

-----------------------------------------------------------------------------
(* The properties of the runs.                                             *)

(* The index in memory, built once or kept up to date by appends, has all  *)
(* the committed records at their places and the latest committed events.  *)
THEOREM IndexFollows ==
    ASSUME ReadErrors = FALSE
    PROVE  Spec => []IndexAgrees
  <1>1. ASSUME ArchiveInv PROVE IndexAgrees
    <2>1. /\ Committed = Kept(file, last) /\ Sequence(Committed)
          /\ index \subseteq {IndexOf(Committed)}
      <3>1. /\ Sequence(file) /\ Pos(last) \in 0 .. Len(file)
            /\ index \subseteq {IndexOf(Kept(file, last))}
        BY <1>1 DEF ArchiveInv, ArchiveOK
      <3> QED
        BY <3>1, CommittedKept, PrefixFacts DEF Kept
    <2> DEFINE c == Committed
    <2>2. RootsOf(Rooted(EmptyRoots, c), c)
      BY <2>1, RootsAreLatest
    <2>3. Locations(c, 0) = {[hash |-> Hash(c[i]), pos |-> i] : i \in DOMAIN c}
      <3>1. \A i \in DOMAIN c : 0 + i = i
        BY <2>1, SequenceFacts
      <3> HIDE DEF c
      <3> QED
        BY <3>1 DEF Locations
    <2> SUFFICES ASSUME NEW x \in index
                 PROVE  /\ x.map = {[hash |-> Hash(c[i]), pos |-> i] :
                                        i \in DOMAIN c}
                        /\ \A typ \in Chains :
                               x.roots[typ] = {Hash(r) : r \in LatestOf(c, typ)}
                        /\ \A typ \in Singles :
                               x.roots[typ] = {r.payload : r \in LatestOf(c, typ)}
      BY DEF IndexAgrees
    <2>4. x.map = Locations(c, 0) /\ x.roots = Rooted(EmptyRoots, c)
      BY <2>1 DEF IndexOf
    <2> HIDE DEF c
    <2> QED
      BY <2>2, <2>3, <2>4 DEF RootsOf
  <1> QED
    BY <1>1, ArchiveInvariant, PTL

(* The committed events form one chain that ends at Last_event, whatever   *)
(* failed appends have left in the file.                                   *)
THEOREM ChainHolds ==
    ASSUME ReadErrors = FALSE
    PROVE  Spec => []ChainOK
  <1>1. ASSUME ArchiveInv PROVE ChainOK
    <2>1. /\ Committed = Kept(file, last)
          /\ Closes(last, Committed)
          /\ last = {} \/ \E x : last = {x}
      BY <1>1, CommittedKept DEF ArchiveInv, ArchiveOK
    <2>2. Chained(Committed, LastHash(last), LastHeight(last))
      BY <2>1 DEF Closes
    <2>3. ASSUME NEW l \in last
          PROVE  l.hash = LastHash(last) /\ l.height = LastHeight(last)
      BY <2>1 DEF LastHash, LastHeight
    <2>4. last # {} => Events(Committed) # <<>>
      BY <2>1 DEF Closes
    <2> QED
      BY <2>2, <2>3, <2>4 DEF Chained, ChainOK
  <1> QED
    BY <1>1, ArchiveInvariant, PTL

(* The archive file, in spite of kills, failed writes and lost indexes,    *)
(* implements the board: all the events of an append appear at once.       *)
THEOREM ArchiveImplementsBoard ==
    ASSUME ReadErrors = FALSE
    PROVE  Spec => ImplementsBoard
  <1>1. Init => Board!Init
    BY ArchiveInit DEF Board!Init, Public
  <1>2. ArchiveInv /\ [Next]_vars => [Board!Next]_(Contents(Committed))
    <2> SUFFICES ASSUME ArchiveInv, [Next]_vars
                 PROVE  Public' = Public \/ Board!Next
      BY DEF Public
    <2>1. CASE Grows(Public, Public')
      BY <2>1 DEF Grows, Public, Board!Next, Board!Publish
    <2> QED
      BY <2>1, ArchiveStep
  <1> QED
    BY <1>1, <1>2, ArchiveInvariant, PTL DEF Spec, ImplementsBoard, Board!Spec

(* What the specification document says, that the archive evolves by       *)
(* appending, holds where no read of Last_event fails.                     *)
THEOREM ArchiveIsAppendOnly ==
    ASSUME ReadErrors = FALSE
    PROVE  Spec => EventsStay
  <1>1. ArchiveInv /\ [Next]_vars => [IsPrefix(Public, Public')]_vars
    <2> SUFFICES ASSUME ArchiveInv, [Next]_vars
                 PROVE  IsPrefix(Public, Public')
      OBVIOUS
    <2>1. Sequence(Public)
      BY PublicKept DEF PublicIsKept
    <2>2. CASE Public' = Public
      BY <2>1, <2>2, SequenceFacts DEF IsPrefix
    <2>3. CASE Grows(Public, Public')
      <3>1. PICK batch \in Batches : Public' = Public \o Contents(batch)
        BY <2>3 DEF Grows
      <3>2. Sequence(Contents(batch))
        BY BatchContents
      <3>3. /\ Len(Public \o Contents(batch)) = Len(Public) + Len(Contents(batch))
            /\ SubSeq(Public \o Contents(batch), 1, Len(Public)) = Public
            /\ SubSeq(Public, 1, Len(Public)) = Public
            /\ Len(Public) \in Nat /\ Len(Contents(batch)) \in Nat
        BY <2>1, <3>2, ConcatFacts, SequenceFacts
      <3> QED
        BY <3>1, <3>3 DEF IsPrefix
    <2> QED
      BY <2>2, <2>3, ArchiveStep
  <1> QED
    BY <1>1, ArchiveInvariant, PTL DEF Spec, EventsStay, Public
=============================================================================
