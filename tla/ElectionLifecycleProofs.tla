----------------------- MODULE ElectionLifecycleProofs -----------------------
(***************************************************************************)
(* Theorems about ElectionLifecycle, for every value of its constants.     *)
(*                                                                         *)
(* PhaseOrder, TallyComplete and OneDecryptionPerTrustee are about the log *)
(* alone, but none is inductive: what keeps an event in its place is the   *)
(* state file.  The invariant ElectionInv therefore says how far each      *)
(* state lets the log have gone, and that at most one tally is in it.      *)
(*                                                                         *)
(* The second half (ArchiveInv) adds what each state promises of the log   *)
(* and the key, what a result has behind it, and what the audit cache was  *)
(* computed from; from it follow that the archive always verifies and that *)
(* an election never lacks what its state needs.                           *)
(***************************************************************************)
EXTENDS ElectionLifecycle, TLAPS, WellFoundedInduction

EventType == {"Setup", "Ballot", "EndBallots", "EncryptedTally", "Shuffle",
              "EndShuffles", "PartialDecryption", "Result"}

(* No event of the log is of a later phase than n.                         *)
AtMost(log, n) == \A i \in DOMAIN log : Rank(log[i].typ) <= n

OneTally(log) ==
    \A i, j \in Indices(log, "EncryptedTally") : i = j

LogInv(log) ==
    /\ log \in Seq(Event)
    /\ InPhaseOrder(log)
    /\ CountsLastBallots(log)
    /\ OneShareEach(log)
    /\ OneTally(log)

HasTally(log) == Indices(log, "EncryptedTally") # {}

(* How far the log has gone in each state.                                 *)
ElectionInv(e) ==
    /\ e \in Election
    /\ LogInv(e.log)
    /\ e.draft => e.log = <<>> /\ e.state = "none"
    /\ e.state \in {"Open", "Closed"} => AtMost(e.log, 1)
    /\ e.state = "Shuffling" => AtMost(e.log, 4) /\ HasTally(e.log)
    /\ e.state = "EncryptedTally" => AtMost(e.log, 6) /\ HasTally(e.log)

Inv ==
    /\ now \in Nat
    /\ hasNH \in BOOLEAN
    /\ ElectionInv(el)

-----------------------------------------------------------------------------
(* Events and their payloads.                                              *)

LEMMA EventFields ==
    ASSUME NEW ev \in Event
    PROVE  /\ ev.typ \in EventType
           /\ ev.typ \in {"EncryptedTally", "Result"} => ev.payload \in SUBSET Nat
           /\ ev.typ = "PartialDecryption" => ev.payload \in Trustees
  BY DEF Event, EventType

(* A rank names one phase.                                                 *)
LEMMA RankInjective ==
    /\ \A typ \in EventType : Rank(typ) \in 0 .. 7
    /\ \A typ1, typ2 \in EventType : Rank(typ1) = Rank(typ2) => typ1 = typ2
  <1>1. Rank("Setup") = 0
    BY DEF Rank
  <1>2. Rank("Ballot") = 1
    BY DEF Rank
  <1>3. Rank("EndBallots") = 2
    BY DEF Rank
  <1>4. Rank("EncryptedTally") = 3
    BY DEF Rank
  <1>5. Rank("Shuffle") = 4
    BY DEF Rank
  <1>6. Rank("EndShuffles") = 5
    BY DEF Rank
  <1>7. Rank("PartialDecryption") = 6
    BY DEF Rank
  <1>8. Rank("Result") = 7
    BY DEF Rank
  <1> QED
    BY <1>1, <1>2, <1>3, <1>4, <1>5, <1>6, <1>7, <1>8 DEF EventType

LEMMA EventConstructors ==
    /\ Setup \in Event
    /\ EndBallots \in Event
    /\ EndShuffles \in Event
    /\ \A c \in Credentials : Ballot(c) \in Event
    /\ \A s \in SUBSET Nat : EncryptedTally(s) \in Event /\ Result(s) \in Event
    /\ \A t \in Trustees : PartialDecryption(t) \in Event
    /\ \A t \in Trustees, s \in SUBSET Nat : Shuffle(t, s) \in Event
  BY DEF Event, Setup, EndBallots, EndShuffles, Ballot, EncryptedTally,
         Result, PartialDecryption, Shuffle, NoPayload

-----------------------------------------------------------------------------
(* What the folds find in a log that is in order.                          *)

(* In a log in phase order a fold misses nothing: an event between two of  *)
(* one type has a rank between theirs, which is theirs.                    *)
LEMMA RunIsAll ==
    ASSUME NEW log \in Seq(Event), InPhaseOrder(log), NEW typ
    PROVE  Run(log, typ) = Indices(log, typ)
  <1>1. SUFFICES ASSUME NEW i \in Indices(log, typ),
                        NEW j \in DOMAIN log, NEW k \in DOMAIN log,
                        i < j, j <= k, log[k].typ = typ
                 PROVE  log[j].typ = typ
    BY DEF Run
  <1>2. i \in DOMAIN log /\ log[i].typ = typ
    BY DEF Indices
  <1>3. /\ log[i] \in Event /\ log[j] \in Event /\ log[k] \in Event
        /\ DOMAIN log \subseteq Int
    BY <1>2
  <1>4. /\ log[i].typ \in EventType
        /\ log[j].typ \in EventType
        /\ log[k].typ \in EventType
    BY <1>3, EventFields
  <1>5. Rank(log[i].typ) <= Rank(log[j].typ)
    BY <1>1, <1>2 DEF InPhaseOrder
  <1>6. Rank(log[j].typ) <= Rank(log[k].typ)
    <2>1. CASE j = k
      BY <2>1, <1>4, RankInjective
    <2>2. CASE j < k
      BY <2>2 DEF InPhaseOrder
    <2> QED
      BY <2>1, <2>2, <1>1, <1>3
  <1>7. Rank(log[j].typ) = Rank(log[i].typ)
    BY <1>1, <1>2, <1>4, <1>5, <1>6, RankInjective
  <1> QED
    BY <1>2, <1>4, <1>7, RankInjective

LEMMA TalliedAreLast ==
    ASSUME NEW log \in Seq(Event), InPhaseOrder(log)
    PROVE  TalliedBallots(log) = LastBallots(log)
  BY RunIsAll DEF TalliedBallots, LastBallots

LEMMA DecryptedAreAll ==
    ASSUME NEW log \in Seq(Event), InPhaseOrder(log)
    PROVE  Decrypted(log) =
               {log[i].payload : i \in Indices(log, "PartialDecryption")}
  BY RunIsAll DEF Decrypted

LEMMA LatestTallyCounts ==
    ASSUME NEW log, LogInv(log), HasTally(log)
    PROVE  LatestTally(log) = LastBallots(log)
  <1>1. PICK i \in Indices(log, "EncryptedTally") : TRUE
    BY DEF HasTally
  <1>2. i \in DOMAIN log /\ log[i].typ = "EncryptedTally"
    BY DEF Indices
  <1>3. DOMAIN log \subseteq Int
    BY DEF LogInv
  <1>4. Root(log, "EncryptedTally") = {i}
    BY <1>1, <1>2, <1>3 DEF Root, LogInv, OneTally, Indices
  <1>5. log[i].payload = LastBallots(log)
    BY <1>2 DEF LogInv, CountsLastBallots
  <1>6. LatestTally(log) = UNION {log[i].payload}
    BY <1>4 DEF LatestTally
  <1> QED
    BY <1>5, <1>6

LEMMA FoldTypes ==
    ASSUME NEW log \in Seq(Event)
    PROVE  /\ LastBallots(log) \in SUBSET Nat
           /\ TalliedBallots(log) \in SUBSET Nat
           /\ NhCiphertexts(log) \in SUBSET Nat
           /\ \A typ : Root(log, typ) \in SUBSET Nat /\ Run(log, typ) \in SUBSET Nat
  <1>1. \A typ : Indices(log, typ) \in SUBSET Nat
    BY DEF Indices
  <1> QED
    BY <1>1 DEF LastBallots, TalliedBallots, NhCiphertexts, Root, Run
-----------------------------------------------------------------------------
(* Appending one event.                                                    *)

LEMMA AppendFields ==
    ASSUME NEW log \in Seq(Event), NEW ev \in Event
    PROVE  /\ Append(log, ev) \in Seq(Event)
           /\ DOMAIN log \subseteq Int
           /\ Len(log) + 1 \notin DOMAIN log
           /\ \A i \in DOMAIN log : i < Len(log) + 1
           /\ DOMAIN Append(log, ev) = DOMAIN log \cup {Len(log) + 1}
           /\ \A i \in DOMAIN log : Append(log, ev)[i] = log[i]
           /\ Append(log, ev)[Len(log) + 1] = ev
  OBVIOUS

LEMMA AppendIndices ==
    ASSUME NEW log \in Seq(Event), NEW ev \in Event, NEW typ
    PROVE  /\ ev.typ # typ => Indices(Append(log, ev), typ) = Indices(log, typ)
           /\ ev.typ = typ => Indices(Append(log, ev), typ) =
                                  Indices(log, typ) \cup {Len(log) + 1}
  BY AppendFields DEF Indices

LEMMA AppendAtMost ==
    ASSUME NEW log \in Seq(Event), NEW ev \in Event, NEW n \in Int,
           AtMost(log, n), Rank(ev.typ) <= n
    PROVE  AtMost(Append(log, ev), n)
  BY AppendFields DEF AtMost

LEMMA AtMostWeaker ==
    ASSUME NEW log \in Seq(Event)
    PROVE  /\ AtMost(log, 0) => AtMost(log, 1)
           /\ AtMost(log, 1) => AtMost(log, 2)
           /\ AtMost(log, 2) => AtMost(log, 3)
           /\ AtMost(log, 3) => AtMost(log, 4)
           /\ AtMost(log, 3) => AtMost(log, 6)
           /\ AtMost(log, 4) => AtMost(log, 5)
           /\ AtMost(log, 5) => AtMost(log, 6)
           /\ AtMost(log, 7)
  <1>1. \A i \in DOMAIN log : log[i].typ \in EventType
    BY EventFields
  <1> QED
    BY <1>1, RankInjective DEF AtMost

LEMMA AppendOrder ==
    ASSUME NEW log \in Seq(Event), NEW ev \in Event,
           InPhaseOrder(log), AtMost(log, Rank(ev.typ))
    PROVE  InPhaseOrder(Append(log, ev))
  <1> DEFINE app == Append(log, ev)
  <1>1. SUFFICES ASSUME NEW i \in DOMAIN app, NEW j \in DOMAIN app, i < j
                 PROVE  Rank(app[i].typ) <= Rank(app[j].typ)
    BY DEF InPhaseOrder
  <1>2. i \in DOMAIN log /\ app[i] = log[i]
    BY <1>1, AppendFields
  <1>3. CASE j \in DOMAIN log
    BY <1>1, <1>2, <1>3, AppendFields DEF InPhaseOrder
  <1>4. CASE j = Len(log) + 1
    BY <1>2, <1>4, AppendFields DEF AtMost
  <1> QED
    BY <1>3, <1>4, AppendFields

(* An event that is not a ballot changes no voter's last ballot.           *)
LEMMA AppendLastBallots ==
    ASSUME NEW log \in Seq(Event), NEW ev \in Event, ev.typ # "Ballot"
    PROVE  LastBallots(Append(log, ev)) = LastBallots(log)
  <1>1. Indices(Append(log, ev), "Ballot") = Indices(log, "Ballot")
    BY AppendIndices
  <1>2. \A i \in Indices(log, "Ballot") : Append(log, ev)[i] = log[i]
    BY AppendFields DEF Indices
  <1> QED
    BY <1>1, <1>2 DEF LastBallots

LEMMA AppendCounts ==
    ASSUME NEW log \in Seq(Event), NEW ev \in Event,
           CountsLastBallots(log), AtMost(log, Rank(ev.typ)),
           ev.typ \in {"EncryptedTally", "Result"} => ev.payload = LastBallots(log)
    PROVE  CountsLastBallots(Append(log, ev))
  <1> DEFINE app == Append(log, ev)
  <1>1. SUFFICES ASSUME NEW i \in DOMAIN app,
                        app[i].typ \in {"EncryptedTally", "Result"}
                 PROVE  app[i].payload = LastBallots(app)
    BY DEF CountsLastBallots
  <1>2. CASE ev.typ = "Ballot"
    <2>1. Rank(ev.typ) = 1
      BY <1>2 DEF Rank
    <2>2. i \in DOMAIN log
      BY <1>1, <1>2, AppendFields
    <2>3. app[i] = log[i] /\ Rank(log[i].typ) <= 1
      BY <2>1, <2>2, AppendFields DEF AtMost
    <2>4. Rank("EncryptedTally") = 3
      BY DEF Rank
    <2>5. Rank("Result") = 7
      BY DEF Rank
    <2> QED
      BY <1>1, <2>3, <2>4, <2>5
  <1>3. CASE ev.typ # "Ballot"
    <2>1. LastBallots(app) = LastBallots(log)
      BY <1>3, AppendLastBallots
    <2>2. CASE i \in DOMAIN log
      BY <1>1, <2>1, <2>2, AppendFields DEF CountsLastBallots
    <2>3. CASE i = Len(log) + 1
      BY <1>1, <2>1, <2>3, AppendFields
    <2> QED
      BY <2>2, <2>3, AppendFields
  <1> QED
    BY <1>2, <1>3

LEMMA AppendShares ==
    ASSUME NEW log \in Seq(Event), NEW ev \in Event, OneShareEach(log),
           InPhaseOrder(log),
           ev.typ = "PartialDecryption" => ev.payload \notin Decrypted(log)
    PROVE  OneShareEach(Append(log, ev))
  <1> DEFINE shares == Indices(log, "PartialDecryption")
             app == Append(log, ev)
  <1>1. Indices(app, "PartialDecryption")
            \subseteq shares \cup {Len(log) + 1}
    BY AppendIndices
  <1>2. \A i \in shares : app[i] = log[i] /\ i # Len(log) + 1
    BY AppendFields DEF Indices
  <1>3. app[Len(log) + 1] = ev
    BY AppendFields
  <1>4. ev.typ = "PartialDecryption" =>
            \A i \in shares : log[i].payload # ev.payload
    BY DecryptedAreAll
  <1>5. ev.typ # "PartialDecryption" =>
            Indices(app, "PartialDecryption") = shares
    BY AppendIndices
  <1> QED
    BY <1>1, <1>2, <1>3, <1>4, <1>5 DEF OneShareEach

LEMMA AppendIn ==
    ASSUME NEW log \in Seq(Event), NEW ev \in Event
    PROVE  /\ Len(log) + 1 \in Indices(Append(log, ev), ev.typ)
           /\ Append(log, ev)[Len(log) + 1] = ev
  BY AppendFields, AppendIndices

LEMMA AppendOneTally ==
    ASSUME NEW log \in Seq(Event), NEW ev \in Event, OneTally(log),
           ev.typ = "EncryptedTally" => ~HasTally(log)
    PROVE  OneTally(Append(log, ev))
  <1>1. CASE ev.typ = "EncryptedTally"
    <2>1. Indices(log, "EncryptedTally") = {}
      BY <1>1 DEF HasTally
    <2>2. Indices(Append(log, ev), "EncryptedTally") = {Len(log) + 1}
      BY <1>1, <2>1, AppendIndices
    <2> QED
      BY <2>2 DEF OneTally
  <1>2. CASE ev.typ # "EncryptedTally"
    BY <1>2, AppendIndices DEF OneTally
  <1> QED
    BY <1>1, <1>2

(* The event that may be appended next: not of an earlier phase, and, for  *)
(* the events that count or decrypt, what they must be.                    *)
MayAppend(log, ev) ==
    /\ ev \in Event
    /\ AtMost(log, Rank(ev.typ))
    /\ ev.typ = "EncryptedTally" => ~HasTally(log)
    /\ ev.typ \in {"EncryptedTally", "Result"} => ev.payload = LastBallots(log)
    /\ ev.typ = "PartialDecryption" => ev.payload \notin Decrypted(log)

LEMMA AppendInv ==
    ASSUME NEW log, LogInv(log), NEW ev, MayAppend(log, ev)
    PROVE  /\ LogInv(Append(log, ev))
           /\ AtMost(Append(log, ev), Rank(ev.typ))
           /\ HasTally(log) => HasTally(Append(log, ev))
  <1>1. log \in Seq(Event) /\ ev \in Event
    BY DEF LogInv, MayAppend
  <1>2. Rank(ev.typ) \in Int
    BY <1>1, EventFields, RankInjective
  <1>3. LogInv(Append(log, ev))
    BY <1>1, AppendFields, AppendOrder, AppendCounts, AppendShares, AppendOneTally
       DEF LogInv, MayAppend
  <1>4. AtMost(Append(log, ev), Rank(ev.typ))
    BY <1>1, <1>2, AppendAtMost DEF MayAppend
  <1>5. HasTally(log) => HasTally(Append(log, ev))
    BY <1>1, AppendIndices DEF HasTally
  <1> QED
    BY <1>3, <1>4, <1>5
-----------------------------------------------------------------------------
(* What the handlers append.                                               *)

LEMMA RankValues ==
    /\ Rank("Setup") = 0 /\ Rank("Ballot") = 1
    /\ Rank("EndBallots") = 2 /\ Rank("EncryptedTally") = 3
    /\ Rank("Shuffle") = 4 /\ Rank("EndShuffles") = 5
    /\ Rank("PartialDecryption") = 6 /\ Rank("Result") = 7
  BY DEF Rank

LEMMA SetupInv ==
    /\ LogInv(<<>>)
    /\ LogInv(Append(<<>>, Setup))
    /\ AtMost(Append(<<>>, Setup), 1)
  <1>1. <<>> \in Seq(Event) /\ DOMAIN <<>> = {}
    OBVIOUS
  <1>2. LogInv(<<>>)
    BY <1>1 DEF LogInv, InPhaseOrder, CountsLastBallots, OneShareEach,
                OneTally, Indices
  <1>3. Setup.typ = "Setup"
    BY DEF Setup
  <1>4. MayAppend(<<>>, Setup)
    BY <1>1, <1>3, EventConstructors DEF MayAppend, AtMost
  <1>5. LogInv(Append(<<>>, Setup)) /\ AtMost(Append(<<>>, Setup), 0)
    BY <1>2, <1>3, <1>4, AppendInv, RankValues
  <1> QED
    BY <1>2, <1>5, AtMostWeaker DEF LogInv

(* A tally, and with non-homomorphic questions a shuffle, end a log of     *)
(* ballots.                                                                *)
LEMMA TalliedInv ==
    ASSUME NEW log, LogInv(log), AtMost(log, 1)
    PROVE  /\ LogInv(Tallied(log))
           /\ AtMost(Tallied(log), 3)
           /\ HasTally(Tallied(log))
  <1> DEFINE ended == Append(log, EndBallots)
             ev == EncryptedTally(TalliedBallots(log))
  <1>1. log \in Seq(Event) /\ InPhaseOrder(log)
    BY DEF LogInv
  <1>2. EndBallots.typ = "EndBallots"
    BY DEF EndBallots
  <1>3. AtMost(log, 2)
    BY <1>1, AtMostWeaker
  <1>4. MayAppend(log, EndBallots)
    BY <1>2, <1>3, EventConstructors, RankValues DEF MayAppend
  <1>5. LogInv(ended) /\ AtMost(ended, 2)
    BY <1>2, <1>4, AppendInv, RankValues
  <1>6. ev \in Event /\ ev.typ = "EncryptedTally" /\ ev.payload = LastBallots(log)
    BY <1>1, FoldTypes, EventConstructors, TalliedAreLast DEF EncryptedTally
  <1>7. ended \in Seq(Event) /\ LastBallots(ended) = LastBallots(log)
    BY <1>1, <1>2, <1>5, AppendLastBallots, EventConstructors DEF LogInv
  <1>8. ~HasTally(ended) /\ AtMost(ended, 3)
    <2>1. \A i \in DOMAIN ended : Rank(ended[i].typ) <= 2
      BY <1>5 DEF AtMost
    <2>2. \A i \in DOMAIN ended : ended[i].typ # "EncryptedTally"
      BY <2>1, RankValues
    <2>3. AtMost(ended, 3)
      BY <1>5, <1>7, AtMostWeaker
    <2> QED
      BY <2>2, <2>3 DEF HasTally, Indices
  <1>9. MayAppend(ended, ev)
    BY <1>6, <1>7, <1>8, RankValues DEF MayAppend
  <1>10. LogInv(Append(ended, ev)) /\ AtMost(Append(ended, ev), 3)
    BY <1>5, <1>6, <1>9, AppendInv, RankValues
  <1>11. HasTally(Append(ended, ev))
    <2>1. Len(ended) + 1 \in Indices(Append(ended, ev), ev.typ)
      BY <1>6, <1>7, AppendIn
    <2> QED
      BY <1>6, <2>1 DEF HasTally
  <1> QED
    BY <1>10, <1>11 DEF Tallied

LEMMA ShuffleInv ==
    ASSUME NEW log, LogInv(log), AtMost(log, 4), HasTally(log), NEW t \in Trustees
    PROVE  LET next == Append(log, Shuffle(t, NhCiphertexts(log)))
           IN  LogInv(next) /\ AtMost(next, 4) /\ HasTally(next)
  <1> DEFINE ev == Shuffle(t, NhCiphertexts(log))
  <1>1. log \in Seq(Event)
    BY DEF LogInv
  <1>2. ev \in Event /\ ev.typ = "Shuffle"
    BY <1>1, FoldTypes, EventConstructors DEF Shuffle
  <1>3. MayAppend(log, ev)
    BY <1>2, RankValues DEF MayAppend
  <1> QED
    BY <1>2, <1>3, AppendInv, RankValues

LEMMA EndShufflesInv ==
    ASSUME NEW log, LogInv(log), AtMost(log, 4), HasTally(log)
    PROVE  LET next == Append(log, EndShuffles)
           IN  LogInv(next) /\ AtMost(next, 6) /\ HasTally(next)
  <1>1. log \in Seq(Event)
    BY DEF LogInv
  <1>2. EndShuffles \in Event /\ EndShuffles.typ = "EndShuffles"
    BY EventConstructors DEF EndShuffles
  <1>3. AtMost(log, 5)
    BY <1>1, AtMostWeaker
  <1>4. MayAppend(log, EndShuffles)
    BY <1>2, <1>3, RankValues DEF MayAppend
  <1>5. /\ LogInv(Append(log, EndShuffles))
        /\ AtMost(Append(log, EndShuffles), 5)
        /\ HasTally(Append(log, EndShuffles))
    BY <1>2, <1>4, AppendInv, RankValues
  <1>6. Append(log, EndShuffles) \in Seq(Event)
    BY <1>5 DEF LogInv
  <1>7. AtMost(Append(log, EndShuffles), 6)
    BY <1>5, <1>6, AtMostWeaker
  <1> QED
    BY <1>5, <1>7

LEMMA ShareInv ==
    ASSUME NEW log, LogInv(log), AtMost(log, 6), HasTally(log),
           NEW t \in Trustees, t \notin Decrypted(log)
    PROVE  LET next == Append(log, PartialDecryption(t))
           IN  LogInv(next) /\ AtMost(next, 6) /\ HasTally(next)
  <1> DEFINE ev == PartialDecryption(t)
  <1>1. ev \in Event /\ ev.typ = "PartialDecryption" /\ ev.payload = t
    BY EventConstructors DEF PartialDecryption
  <1>2. MayAppend(log, ev)
    BY <1>1, RankValues DEF MayAppend
  <1> QED
    BY <1>1, <1>2, AppendInv, RankValues

LEMMA BallotInv ==
    ASSUME NEW log, LogInv(log), AtMost(log, 1), NEW c \in Credentials
    PROVE  LogInv(Append(log, Ballot(c))) /\ AtMost(Append(log, Ballot(c)), 1)
  <1>1. Ballot(c) \in Event /\ Ballot(c).typ = "Ballot"
    BY EventConstructors DEF Ballot
  <1>2. MayAppend(log, Ballot(c))
    BY <1>1, RankValues DEF MayAppend
  <1> QED
    BY <1>1, <1>2, AppendInv, RankValues

LEMMA ResultInv ==
    ASSUME NEW log, LogInv(log), HasTally(log)
    PROVE  LET next == Append(log, Result(LatestTally(log)))
           IN  /\ LogInv(next)
               /\ HasTally(next)
               /\ Decrypted(next) = Decrypted(log)
  <1> DEFINE ev == Result(LatestTally(log))
  <1>1. log \in Seq(Event) /\ InPhaseOrder(log)
    BY DEF LogInv
  <1>2. LatestTally(log) = LastBallots(log)
    BY LatestTallyCounts
  <1>3. ev \in Event /\ ev.typ = "Result" /\ ev.payload = LastBallots(log)
    BY <1>1, <1>2, FoldTypes, EventConstructors DEF Result
  <1>4. AtMost(log, 7)
    BY <1>1, AtMostWeaker
  <1>5. MayAppend(log, ev)
    BY <1>3, <1>4, RankValues DEF MayAppend
  <1>6. LogInv(Append(log, ev)) /\ HasTally(Append(log, ev))
    BY <1>5, AppendInv
  <1>7. Indices(Append(log, ev), "PartialDecryption")
            = Indices(log, "PartialDecryption")
    BY <1>1, <1>3, AppendIndices
  <1>8. \A i \in Indices(log, "PartialDecryption") : Append(log, ev)[i] = log[i]
    BY <1>1, <1>3, AppendFields DEF Indices
  <1>9. Decrypted(Append(log, ev)) = Decrypted(log)
    <2>1. Append(log, ev) \in Seq(Event) /\ InPhaseOrder(Append(log, ev))
      BY <1>6 DEF LogInv
    <2>2. Decrypted(Append(log, ev)) =
              {Append(log, ev)[i].payload :
                   i \in Indices(Append(log, ev), "PartialDecryption")}
      BY <2>1, DecryptedAreAll
    <2>3. Decrypted(log) = {log[i].payload : i \in Indices(log, "PartialDecryption")}
      BY <1>1, DecryptedAreAll
    <2> QED
      BY <1>7, <1>8, <2>2, <2>3
  <1> QED
    BY <1>6, <1>9

(* A release adds no second share of the server, and may be done again.    *)
LEMMA ReleasedInv ==
    ASSUME NEW log, LogInv(log), HasTally(log), AtMost(log, 6)
    PROVE  LogInv(Released(log)) /\ LogInv(Released(Released(log)))
  <1> DEFINE shared == WithServerShare(log)
             once == Released(log)
  <1>1. log \in Seq(Event) /\ Server \in Trustees
    BY TrusteesAssumption DEF LogInv
  <1>2. LogInv(shared) /\ HasTally(shared)
    BY <1>1, ShareInv DEF WithServerShare
  <1>3. Server \in Decrypted(shared)
    <2>1. CASE Server \in Decrypted(log)
      BY <2>1 DEF WithServerShare
    <2>2. CASE Server \notin Decrypted(log)
      <3> DEFINE ev == PartialDecryption(Server)
      <3>1. shared = Append(log, ev)
        BY <2>2 DEF WithServerShare
      <3>2. ev \in Event /\ ev.typ = "PartialDecryption" /\ ev.payload = Server
        BY <1>1, EventConstructors DEF PartialDecryption
      <3>3. /\ Len(log) + 1 \in Indices(shared, "PartialDecryption")
            /\ shared[Len(log) + 1] = ev
        BY <1>1, <3>1, <3>2, AppendIn
      <3>4. shared \in Seq(Event) /\ InPhaseOrder(shared)
        BY <1>2 DEF LogInv
      <3> QED
        BY <3>2, <3>3, <3>4, DecryptedAreAll
    <2> QED
      BY <2>1, <2>2
  <1>4. /\ LogInv(once)
        /\ HasTally(once)
        /\ Server \in Decrypted(once)
    <2> DEFINE next == Append(shared, Result(LatestTally(shared)))
    <2>1. once = next
      <3>1. LastBallots(shared) = LastBallots(log)
        <4>1. PartialDecryption(Server) \in Event
          BY <1>1, EventConstructors
        <4>2. PartialDecryption(Server).typ # "Ballot"
          BY DEF PartialDecryption
        <4> QED
          BY <1>1, <4>1, <4>2, AppendLastBallots DEF WithServerShare
      <3>2. LatestTally(shared) = LatestTally(log)
        <4> HIDE DEF shared
        <4> QED
          BY <1>2, <3>1, LatestTallyCounts
      <3> QED
        BY <3>2 DEF Released
    <2>2. LogInv(next) /\ HasTally(next) /\ Decrypted(next) = Decrypted(shared)
      <3> HIDE DEF shared
      <3> QED
        BY <1>2, ResultInv
    <2> HIDE DEF shared, next, once
    <2> QED
      BY <1>3, <2>1, <2>2
  <1>5. WithServerShare(once) = once
    BY <1>4 DEF WithServerShare
  <1>6. Released(once) = Append(once, Result(LatestTally(once)))
    BY <1>5 DEF Released
  <1> QED
    BY <1>4, <1>6, ResultInv
-----------------------------------------------------------------------------
(* The directory.                                                          *)

LEMMA ReleaseInv ==
    ASSUME NEW e, ElectionInv(e), e.state = "EncryptedTally"
    PROVE  /\ ElectionInv(Release(e))
           /\ ElectionInv(Release(Release(e)))
           /\ Release(e).state = "Tallied"
  <1>1. /\ e \in Election /\ e.state = "EncryptedTally" /\ ~e.draft
        /\ LogInv(Released(e.log)) /\ LogInv(Released(Released(e.log)))
    BY ReleasedInv DEF ElectionInv
  <1>2. /\ Released(e.log) \in Seq(Event)
        /\ Released(Released(e.log)) \in Seq(Event)
    BY <1>1 DEF LogInv
  <1>3. /\ Release(e) \in Election
        /\ Release(e).state = "Tallied"
        /\ Release(e).log = Released(e.log)
        /\ ~Release(e).draft
    BY <1>1, <1>2 DEF Release, Election, States
  <1>4. /\ Release(Release(e)) \in Election
        /\ Release(Release(e)).state = "Tallied"
        /\ Release(Release(e)).log = Released(Released(e.log))
        /\ ~Release(Release(e)).draft
    BY <1>2, <1>3 DEF Release, Election, States
  <1> QED
    BY <1>1, <1>3, <1>4 DEF ElectionInv

LEMMA RefreshInv ==
    ASSUME NEW e, ElectionInv(e), NEW t
    PROVE  ElectionInv(Refresh(e, t))
  <1>1. CASE AutoRelease(e, t)
    BY <1>1, ReleaseInv DEF AutoRelease, Refresh
  <1>2. CASE ~AutoRelease(e, t)
    <2> DEFINE f == [e EXCEPT !.state = AutoClose(e, t)]
    <2>1. e \in Election
      BY DEF ElectionInv
    <2>2. \/ AutoClose(e, t) = e.state
          \/ {e.state, AutoClose(e, t)} \subseteq {"Open", "Closed"}
      BY DEF AutoClose, AutoOpen
    <2>3. /\ f \in Election
          /\ f.state = AutoClose(e, t)
          /\ f.log = e.log
          /\ f.draft = e.draft
      BY <2>1, <2>2 DEF Election, States
    <2>4. ElectionInv(f)
      BY <2>2, <2>3 DEF ElectionInv
    <2> QED
      BY <1>2, <2>4 DEF Refresh
  <1> QED
    BY <1>1, <1>2

LEMMA NoElectionInv == ElectionInv(NoElection)
  <1>1. NoElection \in Election
    <2>1. <<>> \in Seq(Event) /\ NoDate \in DateValues
      BY TimeAssumption
    <2> QED
      BY <2>1 DEF NoElection, ReadyDraft, Election, States
  <1>2. NoElection.log = <<>> /\ NoElection.state = "none"
    BY DEF NoElection, ReadyDraft
  <1> QED
    BY <1>1, <1>2, SetupInv DEF ElectionInv

LEMMA InitInv == Init => Inv
  <1>1. SUFFICES ASSUME Init PROVE Inv
    OBVIOUS
  <1>2. PICK open, close, publish \in DateValues :
            el = ReadyDraft(open, close, publish)
    BY <1>1 DEF Init
  <1>3. el \in Election /\ el.log = <<>> /\ el.state = "none"
    <2>1. <<>> \in Seq(Event)
      OBVIOUS
    <2> QED
      BY <1>2, <2>1 DEF ReadyDraft, Election, States
  <1> QED
    BY <1>1, <1>3, SetupInv DEF Init, Inv, ElectionInv
-----------------------------------------------------------------------------
(* One lemma for the actions that append, one for those that do not.       *)

(* The directory may change anything but the draft, the state and the log. *)
LEMMA SameLogInv ==
    ASSUME NEW e, ElectionInv(e), NEW f \in Election,
           f.log = e.log, f.draft = e.draft, f.state \in {e.state, "none"}
    PROVE  ElectionInv(f)
  BY DEF ElectionInv

LEMMA CurrentInv ==
    ASSUME Inv
    PROVE  ElectionInv(Current) /\ Current \in Election
  BY RefreshInv DEF Inv, Current, ElectionInv

LEMMA ValidateInv ==
    ASSUME Inv, Validate
    PROVE  ElectionInv(el')
  <1>1. el \in Election /\ el.log = <<>>
    BY DEF Inv, ElectionInv, Validate
  <1>2. Append(<<>>, Setup) \in Seq(Event)
    BY SetupInv DEF LogInv
  <1>3. el' = [el EXCEPT !.draft = FALSE, !.state = "Closed",
                         !.log = Append(<<>>, Setup), !.keys = TRUE]
    BY <1>1 DEF Validate, Becomes
  <1>4. /\ el' \in Election /\ ~el'.draft /\ el'.state = "Closed"
        /\ el'.log = Append(<<>>, Setup)
    BY <1>1, <1>2, <1>3 DEF Election, States
  <1> QED
    BY <1>4, SetupInv DEF ElectionInv

LEMMA SetStateInv ==
    ASSUME Inv, NEW state \in {"Open", "Closed"}, SetState(state)
    PROVE  ElectionInv(el')
  <1>1. ElectionInv(Current) /\ Current \in Election
    BY CurrentInv
  <1>2. Current.state \in {"Open", "Closed"}
    BY DEF SetState
  <1>3. el' = [Current EXCEPT !.state = state, !.open = NoDate, !.close = NoDate]
    BY DEF SetState, Becomes
  <1> HIDE DEF Current
  <1>4. /\ el' \in Election /\ el'.state = state
        /\ el'.log = Current.log /\ el'.draft = Current.draft
    BY <1>1, <1>3, TimeAssumption DEF Election, States
  <1> QED
    BY <1>1, <1>2, <1>4 DEF ElectionInv

LEMMA CastBallotInv ==
    ASSUME Inv, NEW c \in Credentials, NEW login, CastBallot(c, login)
    PROVE  ElectionInv(el')
  <1>1. ElectionInv(Current) /\ Current \in Election
    BY CurrentInv
  <1>2. Current.state \in {"Open", "Closed"}
    BY DEF CastBallot, InGrace
  <1>3. el' = [Current EXCEPT !.log = Append(@, Ballot(c))]
    BY DEF CastBallot, Becomes
  <1> DEFINE log == Append(Current.log, Ballot(c))
  <1>4. LogInv(log) /\ AtMost(log, 1)
    BY <1>1, <1>2, BallotInv DEF ElectionInv
  <1>5. log \in Seq(Event)
    BY <1>4 DEF LogInv
  <1> HIDE DEF log
  <1>6. /\ el' \in Election /\ el'.state = Current.state
        /\ el'.log = log /\ el'.draft = Current.draft
    BY <1>1, <1>3, <1>5 DEF Election, log
  <1> QED
    BY <1>1, <1>2, <1>4, <1>6 DEF ElectionInv

LEMMA ComputeEncryptedTallyInv ==
    ASSUME Inv, ComputeEncryptedTally
    PROVE  ElectionInv(el')
  <1>1. ElectionInv(Current) /\ Current \in Election
    BY CurrentInv
  <1>2. Current.state = "Closed"
    BY DEF ComputeEncryptedTally
  <1> DEFINE log == Tallied(Current.log)
             shuffled == ServerShuffled(log)
  <1>3. LogInv(log) /\ AtMost(log, 3) /\ HasTally(log)
    BY <1>1, <1>2, TalliedInv DEF ElectionInv
  <1>4. log \in Seq(Event)
    BY <1>3 DEF LogInv
  <1>5. AtMost(log, 4) /\ AtMost(log, 6)
    BY <1>3, <1>4, AtMostWeaker
  <1>6. LogInv(shuffled) /\ AtMost(shuffled, 4) /\ HasTally(shuffled)
    <2> HIDE DEF log
    <2> QED
      BY <1>3, <1>5, ShuffleInv, TrusteesAssumption DEF ServerShuffled
  <1>7. shuffled \in Seq(Event)
    BY <1>6 DEF LogInv
  <1>8. CASE hasNH
    <2>1. el' = [Current EXCEPT !.log = shuffled, !.audit = {},
                                !.state = "Shuffling"]
      BY <1>8 DEF ComputeEncryptedTally, Becomes
    <2> HIDE DEF shuffled
    <2>2. /\ el' \in Election /\ el'.state = "Shuffling"
          /\ el'.log = shuffled /\ el'.draft = Current.draft
      BY <1>1, <1>7, <2>1 DEF Election, States
    <2> QED
      BY <1>1, <1>2, <1>6, <2>2 DEF ElectionInv
  <1>9. CASE ~hasNH
    <2>1. el' = [Current EXCEPT !.log = log, !.audit = {},
                                !.state = "EncryptedTally"]
      BY <1>9 DEF ComputeEncryptedTally, Becomes
    <2> HIDE DEF log
    <2>2. /\ el' \in Election /\ el'.state = "EncryptedTally"
          /\ el'.log = log /\ el'.draft = Current.draft
      BY <1>1, <1>4, <2>1 DEF Election, States
    <2> QED
      BY <1>1, <1>2, <1>3, <1>5, <2>2 DEF ElectionInv
  <1> QED
    BY <1>8, <1>9

LEMMA PostShuffleInv ==
    ASSUME Inv, PostShuffle
    PROVE  ElectionInv(el')
  <1>1. ElectionInv(Current) /\ Current \in Election
    BY CurrentInv
  <1>2. Current.state = "Shuffling"
    BY DEF PostShuffle
  <1>3. PICK k \in el.token :
            el' = [Current EXCEPT
                      !.log = Append(@, Shuffle(k.owner, NhCiphertexts(@))),
                      !.token = {}, !.audit = {}]
    BY DEF PostShuffle, Becomes
  <1> DEFINE log == Append(Current.log, Shuffle(k.owner, NhCiphertexts(Current.log)))
  <1>4. k.owner \in Trustees
    BY DEF Inv, ElectionInv, Election, Token
  <1>5. LogInv(log) /\ AtMost(log, 4) /\ HasTally(log)
    BY <1>1, <1>2, <1>4, ShuffleInv DEF ElectionInv
  <1>6. log \in Seq(Event)
    BY <1>5 DEF LogInv
  <1>7. el' = [Current EXCEPT !.log = log, !.token = {}, !.audit = {}]
    BY <1>3
  <1> HIDE DEF log
  <1>8. /\ el' \in Election /\ el'.state = "Shuffling"
        /\ el'.log = log /\ el'.draft = Current.draft
    BY <1>1, <1>2, <1>6, <1>7 DEF Election, States
  <1> QED
    BY <1>1, <1>2, <1>5, <1>8 DEF ElectionInv

LEMMA FinishShufflingInv ==
    ASSUME Inv, FinishShuffling
    PROVE  ElectionInv(el')
  <1>1. ElectionInv(Current) /\ Current \in Election
    BY CurrentInv
  <1>2. Current.state = "Shuffling"
    BY DEF FinishShuffling
  <1> DEFINE log == Append(Current.log, EndShuffles)
  <1>3. LogInv(log) /\ AtMost(log, 6) /\ HasTally(log)
    BY <1>1, <1>2, EndShufflesInv DEF ElectionInv
  <1>4. log \in Seq(Event)
    BY <1>3 DEF LogInv
  <1>5. el' = [Current EXCEPT !.log = log, !.state = "EncryptedTally",
                              !.tokens = FALSE, !.skipped = {}, !.token = {}]
    BY DEF FinishShuffling, Becomes
  <1> HIDE DEF log
  <1>6. /\ el' \in Election /\ el'.state = "EncryptedTally"
        /\ el'.log = log /\ el'.draft = Current.draft
    BY <1>1, <1>4, <1>5 DEF Election, States
  <1> QED
    BY <1>1, <1>2, <1>3, <1>6 DEF ElectionInv

LEMMA PostPartialDecryptionInv ==
    ASSUME Inv, NEW t \in Trustees, PostPartialDecryption(t)
    PROVE  ElectionInv(el')
  <1>1. ElectionInv(Current) /\ Current \in Election
    BY CurrentInv
  <1>2. Current.state = "EncryptedTally" /\ t \notin Decrypted(Current.log)
    BY DEF PostPartialDecryption
  <1> DEFINE log == Append(Current.log, PartialDecryption(t))
  <1>3. LogInv(log) /\ AtMost(log, 6) /\ HasTally(log)
    BY <1>1, <1>2, ShareInv DEF ElectionInv
  <1>4. log \in Seq(Event)
    BY <1>3 DEF LogInv
  <1>5. el' = [Current EXCEPT !.log = log]
    BY DEF PostPartialDecryption, Becomes
  <1> HIDE DEF log
  <1>6. /\ el' \in Election /\ el'.state = "EncryptedTally"
        /\ el'.log = log /\ el'.draft = Current.draft
    BY <1>1, <1>2, <1>4, <1>5 DEF Election
  <1> QED
    BY <1>1, <1>2, <1>3, <1>6 DEF ElectionInv

LEMMA GetPartialDecryptionsInv ==
    ASSUME Inv, GetPartialDecryptions
    PROVE  ElectionInv(el')
  <1>1. ElectionInv(Current) /\ Current \in Election
    BY CurrentInv
  <1>2. \/ el' = Current
        \/ el' = [Current EXCEPT !.tokens = TRUE, !.skipped = {}, !.token = {}]
    BY DEF GetPartialDecryptions, Becomes
  <1> HIDE DEF Current
  <1>3. /\ el' \in Election /\ el'.state = Current.state
        /\ el'.log = Current.log /\ el'.draft = Current.draft
    BY <1>1, <1>2 DEF Election
  <1> QED
    BY <1>1, <1>3, SameLogInv

(* The handlers that leave the log and the draft alone.                    *)
LEMMA OtherFields ==
    ASSUME el \in Election,
           \/ SetAutomaticDates
           \/ \E seal \in BOOLEAN : Seal(seal)
           \/ \E t \in Shufflers : SkipShuffler(t)
           \/ \E t \in Shufflers : SelectShuffler(t)
           \/ GetAuditCache
           \/ Archive
    PROVE  /\ el' \in Election /\ el'.log = el.log /\ el'.draft = el.draft
           /\ el'.state \in {el.state, "none"}
  <1>1. el \in Election
    OBVIOUS
  <1>2. CASE SetAutomaticDates
    <2>1. PICK open, close, publish \in DateValues :
              el' = [el EXCEPT !.open = open, !.close = close, !.publish = publish]
      BY <1>2 DEF SetAutomaticDates, Becomes
    <2> QED
      BY <1>1, <2>1 DEF Election
  <1>3. ASSUME NEW seal \in BOOLEAN, Seal(seal)
        PROVE  /\ el' \in Election /\ el'.log = el.log /\ el'.draft = el.draft
               /\ el'.state \in {el.state, "none"}
    <2>1. el' = [el EXCEPT !.sealed = seal, !.seals = @ + 1, !.audit = {}]
      BY <1>3 DEF Seal, Becomes
    <2>2. el.seals + 1 \in Nat
      BY <1>1 DEF Election
    <2> QED
      BY <1>1, <1>3, <2>1, <2>2 DEF Election
  <1>4. ASSUME NEW t \in Shufflers, SkipShuffler(t)
        PROVE  /\ el' \in Election /\ el'.log = el.log /\ el'.draft = el.draft
               /\ el'.state \in {el.state, "none"}
    <2>1. SkippedNow \cup {t} \in SUBSET Shufflers
      BY <1>1 DEF SkippedNow, Election
    <2> QED
      BY <1>1, <1>4, <2>1 DEF SkipShuffler, Becomes, Election
  <1>5. ASSUME NEW t \in Shufflers, SelectShuffler(t)
        PROVE  /\ el' \in Election /\ el'.log = el.log /\ el'.draft = el.draft
               /\ el'.state \in {el.state, "none"}
    <2>1. SkippedNow \in SUBSET Shufflers
      BY <1>1 DEF SkippedNow, Election
    <2>2. PICK owner \in {Server, t} :
              el' = [el EXCEPT !.skipped = SkippedNow, !.tokens = FALSE,
                               !.token = {[trustee |-> t, owner |-> owner]}]
      BY <1>5 DEF SelectShuffler, Becomes
    <2>3. {[trustee |-> t, owner |-> owner]} \in SUBSET Token
      BY <2>2, TrusteesAssumption DEF Token
    <2> QED
      BY <1>1, <2>1, <2>2, <2>3 DEF Election
  <1>6. CASE GetAuditCache
    <2>1. AuditCache(el) \in Audit
      <3>1. el.log \in Seq(Event) /\ el.seals \in Nat /\ Len(el.log) \in Nat
        BY <1>1 DEF Election
      <3> QED
        BY <3>1, FoldTypes DEF AuditCache, Audit
    <2> QED
      BY <1>1, <1>6, <2>1 DEF GetAuditCache, Becomes, Election
  <1>7. CASE Archive
    <2>1. el' = [el EXCEPT !.state = "none", !.keys = FALSE, !.creds = FALSE,
                           !.tokens = FALSE]
      BY <1>7 DEF Archive, Becomes
    <2> QED
      BY <1>1, <2>1 DEF Election, States
  <1> QED
    BY <1>2, <1>3, <1>4, <1>5, <1>6, <1>7

LEMMA OtherInv ==
    ASSUME Inv,
           \/ SetAutomaticDates
           \/ \E seal \in BOOLEAN : Seal(seal)
           \/ \E t \in Shufflers : SkipShuffler(t)
           \/ \E t \in Shufflers : SelectShuffler(t)
           \/ GetAuditCache
           \/ Archive
    PROVE  ElectionInv(el')
  <1>1. ElectionInv(el) /\ el \in Election
    BY DEF Inv, ElectionInv
  <1>2. /\ el' \in Election /\ el'.log = el.log /\ el'.draft = el.draft
        /\ el'.state \in {el.state, "none"}
    BY <1>1, OtherFields
  <1> QED
    BY <1>1, <1>2, SameLogInv
-----------------------------------------------------------------------------
(* The invariant, and what follows from it.                                *)

LEMMA NextInv == Inv /\ [Next]_vars => Inv'
  <1> SUFFICES ASSUME Inv, [Next]_vars PROVE Inv'
    OBVIOUS
  <1>1. ElectionInv(el) /\ now \in Nat /\ hasNH \in BOOLEAN
    BY DEF Inv
  <1>2. CASE Tick
    BY <1>1, <1>2 DEF Tick, Inv
  <1>3. ASSUME UNCHANGED <<now, hasNH>>, ElectionInv(el')
        PROVE  Inv'
    BY <1>1, <1>3 DEF Inv
  <1>4. CASE Visit
    BY <1>3, <1>4, CurrentInv DEF Visit, Becomes
  <1>5. CASE Validate
    BY <1>3, <1>5, ValidateInv DEF Validate, Becomes
  <1>6. CASE Open \/ Close
    BY <1>3, <1>6, SetStateInv DEF Open, Close, SetState, Becomes
  <1>7. ASSUME NEW c \in Credentials, NEW login, CastBallot(c, login)
        PROVE  Inv'
    BY <1>3, <1>7, CastBallotInv DEF CastBallot, Becomes
  <1>8. CASE ComputeEncryptedTally
    BY <1>3, <1>8, ComputeEncryptedTallyInv DEF ComputeEncryptedTally, Becomes
  <1>9. CASE PostShuffle
    BY <1>3, <1>9, PostShuffleInv DEF PostShuffle, Becomes
  <1>10. CASE FinishShuffling
    BY <1>3, <1>10, FinishShufflingInv DEF FinishShuffling, Becomes
  <1>11. CASE GetPartialDecryptions
    BY <1>3, <1>11, GetPartialDecryptionsInv DEF GetPartialDecryptions, Becomes
  <1>12. ASSUME NEW t \in Trustees, PostPartialDecryption(t)
         PROVE  Inv'
    BY <1>3, <1>12, PostPartialDecryptionInv DEF PostPartialDecryption, Becomes
  <1>13. CASE ReleaseTally
    BY <1>1, <1>3, <1>13, ReleaseInv DEF ReleaseTally, Becomes
  <1>14. CASE Delete
    BY <1>3, <1>14, NoElectionInv DEF Delete, Becomes
  <1>15. CASE \/ SetAutomaticDates
              \/ \E seal \in BOOLEAN : Seal(seal)
              \/ \E t \in Shufflers : SkipShuffler(t)
              \/ \E t \in Shufflers : SelectShuffler(t)
              \/ GetAuditCache
              \/ Archive
    <2>1. ElectionInv(el')
      BY <1>15, OtherInv
    <2>2. UNCHANGED <<now, hasNH>>
      BY <1>15 DEF SetAutomaticDates, Seal, SkipShuffler, SelectShuffler,
                   GetAuditCache, Archive, Becomes
    <2> QED
      BY <1>3, <2>1, <2>2
  <1>16. CASE UNCHANGED vars
    BY <1>1, <1>16 DEF vars, Inv
  <1> QED
    BY <1>2, <1>4, <1>5, <1>6, <1>7, <1>8, <1>9, <1>10, <1>11, <1>12, <1>13,
       <1>14, <1>15, <1>16 DEF Next

(* The inductive invariant holds of every execution.                       *)
THEOREM Invariant == Spec => []Inv
  BY InitInv, NextInv, PTL DEF Spec

(* The directory always has the contents the code's types allow.           *)
THEOREM TypeCorrect == Spec => []TypeOK
  <1>1. Inv => TypeOK
    BY DEF Inv, ElectionInv, TypeOK
  <1> QED
    BY <1>1, Invariant, PTL

(* The events of the archive follow the phases of an election: in no       *)
(* interleaving is a ballot accepted after the tally, a shuffle after the  *)
(* end of shuffles, or a share after the result.                           *)
THEOREM PhasesInOrder == Spec => []PhaseOrder
  <1>1. Inv => PhaseOrder
    BY DEF Inv, ElectionInv, LogInv, PhaseOrder
  <1> QED
    BY <1>1, Invariant, PTL

(* Every tally and every result counts the last ballot of each voter among *)
(* all the accepted ballots, and nothing else.                             *)
THEOREM TallyIsComplete == Spec => []TallyComplete
  <1>1. Inv => TallyComplete
    BY DEF Inv, ElectionInv, LogInv, TallyComplete
  <1> QED
    BY <1>1, Invariant, PTL

(* No trustee has two shares in the archive, even when a result is         *)
(* released twice.                                                         *)
THEOREM SharesAreUnique == Spec => []OneDecryptionPerTrustee
  <1>1. Inv => OneDecryptionPerTrustee
    BY DEF Inv, ElectionInv, LogInv, OneDecryptionPerTrustee
  <1> QED
    BY <1>1, Invariant, PTL

-----------------------------------------------------------------------------
(* The archive verifies, and the state file and the audit cache agree with *)
(* it.                                                                     *)

Has(log, typ) == Indices(log, typ) # {}

PreviousShuffles(log, i) == {j \in Indices(log, "Shuffle") : j < i}

(* Each shuffle permutes the one before it, and the first one the tally.   *)
ShufflesLinked(log) ==
    \A i \in Indices(log, "Shuffle") :
        LET previous == PreviousShuffles(log, i)
        IN  log[i].payload.input =
                IF previous = {} THEN Root(log, "EncryptedTally")
                ELSE {j \in previous : \A k \in previous : k <= j}

(* What a result must have behind it.                                      *)
Supported(log) ==
    /\ HasTally(log)
    /\ Server \in Decrypted(log)
    /\ Cardinality(Decrypted(log) \ {Server}) >= Threshold

Verified(log) ==
    /\ ShufflesLinked(log)
    /\ Has(log, "Result") => Supported(log)

(* What each state promises of the log, the server's key and the kind of   *)
(* the questions.                                                          *)
Agrees(e, nh) ==
    /\ e.state \in {"Open", "Closed"} => Has(e.log, "Setup") /\ e.keys
    /\ e.state = "Shuffling" => Has(e.log, "Shuffle") /\ e.keys /\ nh
    /\ e.state = "EncryptedTally" =>
           /\ e.keys
           /\ nh => Has(e.log, "Shuffle") /\ Has(e.log, "EndShuffles")
    /\ e.state = "Tallied" => Has(e.log, "Result")

CacheFresh(e) == e.audit \subseteq {AuditCache(e)}

ArchiveInv(e, nh) ==
    /\ ElectionInv(e)
    /\ Verified(e.log)
    /\ Agrees(e, nh)
    /\ CacheFresh(e)

FullInv ==
    /\ now \in Nat
    /\ hasNH \in BOOLEAN
    /\ ArchiveInv(el, hasNH)

(* What is not in a log that has not gone that far.                        *)
LEMMA NotYet ==
    ASSUME NEW log
    PROVE  /\ AtMost(log, 1) => ~Has(log, "EndBallots")
           /\ AtMost(log, 3) => ~Has(log, "Shuffle")
           /\ AtMost(log, 4) => ~Has(log, "EndShuffles")
           /\ \A n \in {1, 3, 4, 6} : AtMost(log, n) => ~Has(log, "Result")
  BY RankValues DEF AtMost, Has, Indices

LEMMA AppendHas ==
    ASSUME NEW log \in Seq(Event), NEW ev \in Event
    PROVE  /\ Has(Append(log, ev), ev.typ)
           /\ \A typ : Has(log, typ) => Has(Append(log, ev), typ)
           /\ \A typ : typ # ev.typ /\ ~Has(log, typ) => ~Has(Append(log, ev), typ)
  BY AppendIndices DEF Has

LEMMA IndicesInLog ==
    ASSUME NEW log \in Seq(Event), NEW typ, NEW i \in Indices(log, typ)
    PROVE  /\ i \in DOMAIN log /\ i \in Int /\ log[i].typ = typ
           /\ \A ev \in Event : Append(log, ev)[i] = log[i] /\ i < Len(log) + 1
  <1>1. i \in DOMAIN log /\ log[i].typ = typ
    BY DEF Indices
  <1> QED
    BY <1>1, AppendFields

(* A type that is in the log has a latest event.                           *)
LEMMA LatestExists ==
    ASSUME NEW log \in Seq(Event), NEW typ, Has(log, typ)
    PROVE  Root(log, typ) # {}
  <1> DEFINE depths == {Len(log) - i : i \in Indices(log, typ)}
  <1>1. Len(log) \in Nat /\ \A i \in Indices(log, typ) : i \in 1 .. Len(log)
    BY DEF Indices
  <1>2. depths \in SUBSET Nat /\ depths # {}
    BY <1>1 DEF Has
  <1>3. PICK d \in depths : \A n \in depths : d <= n
    <2> DEFINE R == OpToRel(<, Nat)
    <2> HIDE DEF depths
    <2>1. \A m, n \in Nat : m < n => <<m, n>> \in R
      BY DEF OpToRel
    <2>2. IsWellFoundedOn(R, Nat)
      BY NatLessThanWellFounded
    <2> HIDE DEF R
    <2>3. \E d \in depths : \A n \in depths : <<n, d>> \notin R
      BY <1>2, <2>2, WFMin
    <2>4. \A m, n \in depths : m < n \/ n <= m
      BY <1>2
    <2> QED
      BY <1>2, <2>1, <2>3, <2>4
  <1>4. PICK i \in Indices(log, typ) : d = Len(log) - i
    BY <1>3
  <1>5. \A j \in Indices(log, typ) : j <= i
    <2> SUFFICES ASSUME NEW j \in Indices(log, typ) PROVE j <= i
      OBVIOUS
    <2>1. Len(log) - j \in depths
      OBVIOUS
    <2>2. d <= Len(log) - j
      BY <1>3, <2>1
    <2> QED
      BY <1>1, <1>4, <2>2
  <1> QED
    BY <1>4, <1>5 DEF Root

(* An event of another type moves no root and no run.                      *)
LEMMA AppendRoot ==
    ASSUME NEW log \in Seq(Event), NEW ev \in Event, NEW typ
    PROVE  /\ ev.typ # typ => Root(Append(log, ev), typ) = Root(log, typ)
           /\ ev.typ = typ => Root(Append(log, ev), typ) = {Len(log) + 1}
  <1>1. CASE ev.typ # typ
    BY <1>1, AppendIndices DEF Root
  <1>2. CASE ev.typ = typ
    <2>1. Indices(Append(log, ev), typ) = Indices(log, typ) \cup {Len(log) + 1}
      BY <1>2, AppendIndices
    <2>2. \A i \in Indices(log, typ) : i \in Int /\ i < Len(log) + 1
      BY IndicesInLog
    <2>3. Len(log) + 1 \in Int
      OBVIOUS
    <2> DEFINE app == Indices(Append(log, ev), typ)
    <2>4. Len(log) + 1 \in app /\ \A i \in app : i <= Len(log) + 1 /\ i \in Int
      BY <2>1, <2>2, <2>3
    <2> QED
      BY <1>2, <2>3, <2>4 DEF Root
  <1> QED
    BY <1>1, <1>2

(* Only a share changes what has been decrypted.                           *)
LEMMA AppendDecrypted ==
    ASSUME NEW log \in Seq(Event), NEW ev \in Event,
           InPhaseOrder(log), InPhaseOrder(Append(log, ev))
    PROVE  Decrypted(Append(log, ev)) =
               IF ev.typ = "PartialDecryption" THEN Decrypted(log) \cup {ev.payload}
               ELSE Decrypted(log)
  <1> DEFINE app == Append(log, ev)
             shares == Indices(log, "PartialDecryption")
  <1>1. log \in Seq(Event) /\ InPhaseOrder(log) /\ ev \in Event
    OBVIOUS
  <1>2. app \in Seq(Event) /\ InPhaseOrder(app)
    BY AppendFields
  <1>3. Decrypted(log) = {log[i].payload : i \in shares}
    BY <1>1, DecryptedAreAll
  <1>4. Decrypted(app) = {app[i].payload : i \in Indices(app, "PartialDecryption")}
    <2> HIDE DEF app
    <2> QED
      BY <1>2, DecryptedAreAll
  <1>5. \A i \in shares : app[i] = log[i]
    BY <1>1, IndicesInLog
  <1>6. app[Len(log) + 1] = ev
    BY <1>1, AppendFields
  <1>7. CASE ev.typ = "PartialDecryption"
    <2>1. Indices(app, "PartialDecryption") = shares \cup {Len(log) + 1}
      BY <1>1, <1>7, AppendIndices
    <2> HIDE DEF app, shares
    <2>2. ASSUME NEW t
          PROVE  t \in Decrypted(app) <=> t \in Decrypted(log) \cup {ev.payload}
      BY <1>3, <1>4, <1>5, <1>6, <2>1
    <2> QED
      BY <1>7, <2>2 DEF app
  <1>8. CASE ev.typ # "PartialDecryption"
    <2>1. Indices(app, "PartialDecryption") = shares
      BY <1>1, <1>8, AppendIndices
    <2> HIDE DEF app, shares
    <2>2. ASSUME NEW t
          PROVE  t \in Decrypted(app) <=> t \in Decrypted(log)
      BY <1>3, <1>4, <1>5, <2>1
    <2> QED
      BY <1>8, <2>2 DEF app
  <1> QED
    BY <1>7, <1>8

(* Nothing to verify before the first shuffle.                             *)
LEMMA EarlyVerified ==
    ASSUME NEW log, AtMost(log, 3)
    PROVE  Verified(log)
  <1>1. ~Has(log, "Shuffle") /\ ~Has(log, "Result")
    BY NotYet
  <1> QED
    BY <1>1 DEF Verified, ShufflesLinked, Has

(* A shuffle permutes what the log holds when it is posted.                *)
LEMMA ShuffleLinks ==
    ASSUME NEW log \in Seq(Event), ShufflesLinked(log), NEW t \in Trustees
    PROVE  ShufflesLinked(Append(log, Shuffle(t, NhCiphertexts(log))))
  <1> DEFINE ev == Shuffle(t, NhCiphertexts(log))
             app == Append(log, ev)
  <1>1. log \in Seq(Event)
    OBVIOUS
  <1>2. ev \in Event /\ ev.typ = "Shuffle" /\ ev.payload.input = NhCiphertexts(log)
    BY <1>1, FoldTypes, EventConstructors DEF Shuffle
  <1> HIDE DEF ev
  <1>3. Indices(app, "Shuffle") = Indices(log, "Shuffle") \cup {Len(log) + 1}
    BY <1>1, <1>2, AppendIndices
  <1>4. Root(app, "EncryptedTally") = Root(log, "EncryptedTally")
    BY <1>1, <1>2, AppendRoot
  <1>5. \A i \in Indices(log, "Shuffle") :
            i \in Int /\ i < Len(log) + 1 /\ app[i] = log[i]
    BY <1>1, <1>2, IndicesInLog
  <1>6. \A i \in Indices(log, "Shuffle") :
            PreviousShuffles(app, i) = PreviousShuffles(log, i)
    BY <1>1, <1>3, <1>5 DEF PreviousShuffles
  <1>7. PreviousShuffles(app, Len(log) + 1) = Indices(log, "Shuffle")
    BY <1>1, <1>3, <1>5 DEF PreviousShuffles
  <1>8. app[Len(log) + 1] = ev
    BY <1>1, <1>2, AppendFields
  <1>9. ShufflesLinked(app)
    <2> SUFFICES ASSUME NEW i \in Indices(app, "Shuffle")
                 PROVE  LET previous == PreviousShuffles(app, i)
                        IN  app[i].payload.input =
                                IF previous = {} THEN Root(app, "EncryptedTally")
                                ELSE {j \in previous : \A k \in previous : k <= j}
      BY DEF ShufflesLinked
    <2>1. CASE i \in Indices(log, "Shuffle")
      BY <1>4, <1>5, <1>6, <2>1 DEF ShufflesLinked
    <2>2. CASE i = Len(log) + 1
      <3>1. Root(log, "Shuffle") = {} => Indices(log, "Shuffle") = {}
        BY <1>1, LatestExists DEF Has
      <3> QED
        BY <1>2, <1>4, <1>7, <1>8, <2>2, <3>1 DEF NhCiphertexts, Root
    <2> QED
      BY <1>3, <2>1, <2>2
  <1> QED
    BY <1>9 DEF ev

LEMMA ShuffleVerified ==
    ASSUME NEW log, LogInv(log), AtMost(log, 4), ShufflesLinked(log),
           NEW t \in Trustees
    PROVE  Verified(Append(log, Shuffle(t, NhCiphertexts(log))))
  <1> DEFINE ev == Shuffle(t, NhCiphertexts(log))
  <1>1. log \in Seq(Event)
    BY DEF LogInv
  <1>2. ev \in Event /\ ev.typ = "Shuffle"
    BY <1>1, FoldTypes, EventConstructors DEF Shuffle
  <1>3. ShufflesLinked(Append(log, ev))
    BY <1>1, ShuffleLinks
  <1> HIDE DEF ev
  <1>4. ~Has(Append(log, ev), "Result")
    BY <1>1, <1>2, NotYet, AppendHas
  <1> QED
    BY <1>3, <1>4 DEF Verified, ev

(* An event that is no tally, shuffle or result.                           *)
Quiet(ev) == ev.typ \notin {"EncryptedTally", "Shuffle", "Result"}

LEMMA QuietShuffles ==
    ASSUME NEW log \in Seq(Event), NEW ev \in Event, ShufflesLinked(log),
           ev.typ \notin {"EncryptedTally", "Shuffle"}
    PROVE  ShufflesLinked(Append(log, ev))
  <1> DEFINE app == Append(log, ev)
  <1>1. Indices(app, "Shuffle") = Indices(log, "Shuffle")
    BY AppendIndices
  <1>2. Root(app, "EncryptedTally") = Root(log, "EncryptedTally")
    BY AppendRoot
  <1>3. \A i \in Indices(log, "Shuffle") : app[i] = log[i]
    BY IndicesInLog
  <1>4. \A i : PreviousShuffles(app, i) = PreviousShuffles(log, i)
    BY <1>1 DEF PreviousShuffles
  <1> QED
    BY <1>1, <1>2, <1>3, <1>4 DEF ShufflesLinked

LEMMA QuietVerified ==
    ASSUME NEW log, LogInv(log), AtMost(log, 6), ShufflesLinked(log),
           NEW ev \in Event, Quiet(ev)
    PROVE  Verified(Append(log, ev))
  <1>1. log \in Seq(Event)
    BY DEF LogInv
  <1>2. ~Has(Append(log, ev), "Result")
    BY <1>1, NotYet, AppendHas DEF Quiet
  <1> QED
    BY <1>1, <1>2, QuietShuffles DEF Verified, Quiet

(* Nothing that the audit cache was computed from changes.                 *)
LEMMA QuietCache ==
    ASSUME NEW e, LogInv(e.log), NEW f, LogInv(f.log), NEW ev \in Event, Quiet(ev),
           AtMost(e.log, 6), f.log = Append(e.log, ev), f.seals = e.seals
    PROVE  AuditCache(f) = AuditCache(e)
  <1> DEFINE log == e.log
             app == Append(log, ev)
  <1>1. log \in Seq(Event) /\ InPhaseOrder(log)
    BY DEF LogInv
  <1>2. app \in Seq(Event) /\ InPhaseOrder(app)
    BY DEF LogInv
  <1>3. Root(app, "EncryptedTally") = Root(log, "EncryptedTally")
    BY <1>1, AppendRoot DEF Quiet
  <1>4. Run(app, "Shuffle") = Run(log, "Shuffle")
    <2>1. Run(app, "Shuffle") = Indices(app, "Shuffle")
      <3> HIDE DEF app
      <3> QED
        BY <1>2, RunIsAll
    <2>2. Run(log, "Shuffle") = Indices(log, "Shuffle")
      BY <1>1, RunIsAll
    <2> QED
      BY <1>1, <2>1, <2>2, AppendIndices DEF Quiet
  <1>5. Root(app, "Result") = {} /\ Root(log, "Result") = {}
    <2>1. ~Has(app, "Result") /\ ~Has(log, "Result")
      BY <1>1, NotYet, AppendHas DEF Quiet
    <2> QED
      BY <2>1 DEF Has, Root
  <1> QED
    BY <1>3, <1>4, <1>5 DEF AuditCache

-----------------------------------------------------------------------------
(* Releases.                                                               *)

(* The server adds its own share if it is missing, and nothing else.       *)
LEMMA ServerShareInv ==
    ASSUME NEW log, LogInv(log), HasTally(log), AtMost(log, 6), ShufflesLinked(log)
    PROVE  LET shared == WithServerShare(log)
           IN  /\ LogInv(shared)
               /\ HasTally(shared)
               /\ ShufflesLinked(shared)
               /\ LatestTally(shared) = LatestTally(log)
               /\ Server \in Decrypted(shared)
               /\ Decrypted(shared) \ {Server} = Decrypted(log) \ {Server}
  <1>1. CASE Server \in Decrypted(log)
    BY <1>1 DEF WithServerShare
  <1>2. CASE Server \notin Decrypted(log)
    <2> DEFINE ev == PartialDecryption(Server)
               shared == Append(log, ev)
    <2>1. WithServerShare(log) = shared
      BY <1>2 DEF WithServerShare
    <2>2. ev \in Event /\ ev.typ = "PartialDecryption" /\ ev.payload = Server
      BY EventConstructors, TrusteesAssumption DEF PartialDecryption
    <2> HIDE DEF ev
    <2>3. MayAppend(log, ev)
      BY <1>2, <2>2, RankValues DEF MayAppend
    <2>4. LogInv(shared) /\ HasTally(shared)
      BY <2>3, AppendInv
    <2>5. Decrypted(shared) = Decrypted(log) \cup {Server}
      BY <2>2, <2>4, AppendDecrypted DEF LogInv
    <2>6. log \in Seq(Event)
      BY DEF LogInv
    <2>7. ShufflesLinked(shared)
      BY <2>2, <2>6, QuietShuffles
    <2>8. LastBallots(shared) = LastBallots(log)
      BY <2>2, <2>6, AppendLastBallots
    <2>9. LatestTally(shared) = LatestTally(log)
      <3> HIDE DEF shared
      <3> QED
        BY <2>4, <2>8, LatestTallyCounts
    <2> QED
      BY <2>1, <2>4, <2>5, <2>7, <2>9
  <1> QED
    BY <1>1, <1>2

LEMMA ResultVerified ==
    ASSUME NEW log, LogInv(log), Supported(log), ShufflesLinked(log)
    PROVE  LET next == Append(log, Result(LatestTally(log)))
           IN  /\ LogInv(next)
               /\ Supported(next)
               /\ ShufflesLinked(next)
               /\ Has(next, "Result")
  <1> DEFINE ev == Result(LatestTally(log))
             next == Append(log, ev)
  <1>1. log \in Seq(Event) /\ HasTally(log)
    BY DEF LogInv, Supported
  <1>2. ev \in Event /\ ev.typ = "Result"
    BY <1>1, LatestTallyCounts, FoldTypes, EventConstructors DEF Result
  <1>3. LogInv(next) /\ HasTally(next) /\ Decrypted(next) = Decrypted(log)
    BY <1>1, ResultInv
  <1> HIDE DEF ev
  <1>4. ShufflesLinked(next) /\ Has(next, "Result")
    BY <1>1, <1>2, QuietShuffles, AppendHas
  <1> QED
    BY <1>3, <1>4 DEF Supported, ev

LEMMA ReleasedVerified ==
    ASSUME NEW log, LogInv(log), HasTally(log), AtMost(log, 6), ShufflesLinked(log),
           Cardinality(Decrypted(log) \ {Server}) >= Threshold
    PROVE  /\ Verified(Released(log)) /\ Has(Released(log), "Result")
           /\ Verified(Released(Released(log))) /\ Has(Released(Released(log)), "Result")
  <1> DEFINE shared == WithServerShare(log)
             once == Released(log)
  <1>1. /\ LogInv(shared) /\ ShufflesLinked(shared) /\ Supported(shared)
        /\ LatestTally(shared) = LatestTally(log)
    BY ServerShareInv DEF Supported
  <1>2. once = Append(shared, Result(LatestTally(shared)))
    BY <1>1 DEF Released
  <1> HIDE DEF shared, once
  <1>3. LogInv(once) /\ Supported(once) /\ ShufflesLinked(once) /\ Has(once, "Result")
    BY <1>1, <1>2, ResultVerified
  <1>4. Released(once) = Append(once, Result(LatestTally(once)))
    BY <1>3 DEF Supported, WithServerShare, Released
  <1>5. /\ Supported(Released(once)) /\ ShufflesLinked(Released(once))
        /\ Has(Released(once), "Result")
    BY <1>3, <1>4, ResultVerified
  <1> QED
    BY <1>3, <1>5 DEF Verified, once

LEMMA ReleaseArchive ==
    ASSUME NEW e, NEW nh, ArchiveInv(e, nh), e.state = "EncryptedTally", CanRelease(e)
    PROVE  ArchiveInv(Release(e), nh) /\ ArchiveInv(Release(Release(e)), nh)
  <1>1. /\ ElectionInv(e) /\ e \in Election /\ LogInv(e.log) /\ HasTally(e.log)
        /\ AtMost(e.log, 6) /\ ShufflesLinked(e.log)
        /\ Cardinality(Decrypted(e.log) \ {Server}) >= Threshold
    BY DEF ArchiveInv, ElectionInv, Verified, CanRelease
  <1>2. /\ Verified(Released(e.log)) /\ Has(Released(e.log), "Result")
        /\ Verified(Released(Released(e.log)))
        /\ Has(Released(Released(e.log)), "Result")
    BY <1>1, ReleasedVerified
  <1>3. ElectionInv(Release(e)) /\ ElectionInv(Release(Release(e)))
    BY <1>1, ReleaseInv
  <1>4. /\ Release(e).state = "Tallied" /\ Release(e).log = Released(e.log)
        /\ Release(e).audit = {} /\ Release(e) \in Election
    BY <1>1, <1>3 DEF Release, Election, ElectionInv
  <1>5. /\ Release(Release(e)).state = "Tallied"
        /\ Release(Release(e)).log = Released(Released(e.log))
        /\ Release(Release(e)).audit = {}
    <2> DEFINE f == Release(e)
    <2> HIDE DEF f
    <2>1. Release(f).state = "Tallied" /\ Release(f).log = Released(f.log)
          /\ Release(f).audit = {}
      BY <1>4 DEF Release, Election, f
    <2> QED
      BY <1>4, <2>1 DEF f
  <1> QED
    BY <1>2, <1>3, <1>4, <1>5 DEF ArchiveInv, Agrees, CacheFresh

-----------------------------------------------------------------------------
(* A handler either leaves the log alone or appends to it.                 *)

LEMMA SameLogArchive ==
    ASSUME NEW e, NEW nh, ArchiveInv(e, nh),
           NEW f, ElectionInv(f), f.log = e.log,
           \/ f.state = "none"
           \/ /\ f.keys = e.keys
              /\ \/ f.state = e.state
                 \/ {e.state, f.state} \subseteq {"Open", "Closed"},
           f.audit = {} \/ (f.audit = e.audit /\ f.seals = e.seals)
    PROVE  ArchiveInv(f, nh)
  <1>1. Verified(f.log)
    BY DEF ArchiveInv
  <1>2. Agrees(f, nh)
    BY DEF ArchiveInv, Agrees
  <1>3. CacheFresh(f)
    BY DEF ArchiveInv, CacheFresh, AuditCache
  <1> QED
    BY <1>1, <1>2, <1>3 DEF ArchiveInv

LEMMA QuietArchive ==
    ASSUME NEW e, NEW nh, ArchiveInv(e, nh), AtMost(e.log, 6),
           NEW ev \in Event, Quiet(ev),
           NEW f, ElectionInv(f), f.log = Append(e.log, ev), f.seals = e.seals,
           f.audit = e.audit, Agrees(f, nh)
    PROVE  ArchiveInv(f, nh)
  <1>1. LogInv(e.log) /\ LogInv(f.log) /\ ShufflesLinked(e.log)
    BY DEF ArchiveInv, ElectionInv, Verified
  <1>2. Verified(f.log)
    BY <1>1, QuietVerified
  <1>3. CacheFresh(f)
    BY <1>1, QuietCache DEF ArchiveInv, CacheFresh
  <1> QED
    BY <1>2, <1>3 DEF ArchiveInv

LEMMA RefreshArchive ==
    ASSUME NEW e, NEW nh, ArchiveInv(e, nh), NEW t
    PROVE  ArchiveInv(Refresh(e, t), nh)
  <1>1. CASE AutoRelease(e, t)
    BY <1>1, ReleaseArchive DEF AutoRelease, Refresh
  <1>2. CASE ~AutoRelease(e, t)
    <2> DEFINE f == [e EXCEPT !.state = AutoClose(e, t)]
    <2>1. e \in Election /\ ElectionInv(e)
      BY DEF ArchiveInv, ElectionInv
    <2>2. \/ AutoClose(e, t) = e.state
          \/ {e.state, AutoClose(e, t)} \subseteq {"Open", "Closed"}
      BY DEF AutoClose, AutoOpen
    <2>3. Refresh(e, t) = f
      BY <1>2 DEF Refresh
    <2>4. ElectionInv(f)
      BY <2>1, <2>3, RefreshInv
    <2>5. /\ f.state = AutoClose(e, t) /\ f.log = e.log /\ f.keys = e.keys
          /\ f.audit = e.audit /\ f.seals = e.seals
      BY <2>1 DEF Election
    <2> HIDE DEF f
    <2> QED
      BY <2>2, <2>3, <2>4, <2>5, SameLogArchive
  <1> QED
    BY <1>1, <1>2

-----------------------------------------------------------------------------
(* One lemma per action that appends, one for the others.                  *)

LEMMA FullImpliesInv == FullInv => Inv
  BY DEF FullInv, ArchiveInv, Inv

LEMMA CurrentArchive ==
    ASSUME FullInv
    PROVE  /\ ArchiveInv(Current, hasNH) /\ ElectionInv(Current)
           /\ Current \in Election /\ LogInv(Current.log)
           /\ Current.log \in Seq(Event)
           /\ ShufflesLinked(Current.log)
           /\ CacheFresh(Current)
  BY RefreshArchive DEF FullInv, Current, ArchiveInv, ElectionInv, LogInv, Verified

LEMMA ValidateArchive ==
    ASSUME FullInv, Validate
    PROVE  ArchiveInv(el', hasNH)
  <1>1. ElectionInv(el')
    BY FullImpliesInv, ValidateInv
  <1>2. el \in Election /\ ArchiveInv(el, hasNH) /\ el.log = <<>>
    BY DEF FullInv, ArchiveInv, ElectionInv, Validate
  <1>3. Setup \in Event /\ Setup.typ = "Setup" /\ <<>> \in Seq(Event)
    BY EventConstructors DEF Setup
  <1>4. /\ el'.state = "Closed" /\ el'.log = Append(el.log, Setup) /\ el'.keys
        /\ el'.seals = el.seals /\ el'.audit = el.audit
    BY <1>2 DEF Validate, Becomes, Election
  <1>5. AtMost(el.log, 6)
    BY <1>2 DEF AtMost
  <1>6. Agrees(el', hasNH)
    <2>1. Has(Append(<<>>, Setup), "Setup")
      BY <1>3, AppendHas
    <2> QED
      BY <1>2, <1>4, <2>1 DEF Agrees
  <1> QED
    BY <1>1, <1>2, <1>3, <1>4, <1>5, <1>6, QuietArchive DEF Quiet

LEMMA SetStateArchive ==
    ASSUME FullInv, NEW state \in {"Open", "Closed"}, SetState(state)
    PROVE  ArchiveInv(el', hasNH)
  <1>1. ElectionInv(el')
    BY FullImpliesInv, SetStateInv
  <1>2. ArchiveInv(Current, hasNH) /\ Current \in Election
    BY CurrentArchive
  <1>3. Current.state \in {"Open", "Closed"}
    BY DEF SetState
  <1>4. el' = [Current EXCEPT !.state = state, !.open = NoDate, !.close = NoDate]
    BY DEF SetState, Becomes
  <1> HIDE DEF Current
  <1>5. /\ el'.state = state /\ el'.log = Current.log /\ el'.keys = Current.keys
        /\ el'.seals = Current.seals /\ el'.audit = Current.audit
    BY <1>2, <1>4 DEF Election
  <1> QED
    BY <1>1, <1>2, <1>3, <1>5, SameLogArchive

LEMMA CastBallotArchive ==
    ASSUME FullInv, NEW c \in Credentials, NEW login, CastBallot(c, login)
    PROVE  ArchiveInv(el', hasNH)
  <1>1. ElectionInv(el')
    BY FullImpliesInv, CastBallotInv
  <1>2. /\ ArchiveInv(Current, hasNH) /\ ElectionInv(Current)
        /\ Current \in Election /\ Current.log \in Seq(Event)
    BY CurrentArchive
  <1>3. Current.state \in {"Open", "Closed"}
    BY DEF CastBallot, InGrace
  <1>4. el' = [Current EXCEPT !.log = Append(Current.log, Ballot(c))]
    BY DEF CastBallot, Becomes
  <1> HIDE DEF Current
  <1>5. Ballot(c) \in Event /\ Ballot(c).typ = "Ballot"
    BY EventConstructors DEF Ballot
  <1>6. /\ el'.state = Current.state /\ el'.log = Append(Current.log, Ballot(c))
        /\ el'.keys = Current.keys
        /\ el'.seals = Current.seals /\ el'.audit = Current.audit
    BY <1>2, <1>4 DEF Election
  <1>7. Agrees(el', hasNH)
    BY <1>2, <1>3, <1>5, <1>6, AppendHas DEF ArchiveInv, Agrees
  <1>8. AtMost(Current.log, 6)
    BY <1>2, <1>3, AtMostWeaker DEF ElectionInv
  <1> QED
    BY <1>1, <1>2, <1>5, <1>6, <1>7, <1>8, QuietArchive DEF Quiet

LEMMA ComputeEncryptedTallyArchive ==
    ASSUME FullInv, ComputeEncryptedTally
    PROVE  ArchiveInv(el', hasNH)
  <1>1. ElectionInv(el') /\ hasNH \in BOOLEAN
    BY FullImpliesInv, ComputeEncryptedTallyInv DEF FullInv
  <1>2. /\ ArchiveInv(Current, hasNH) /\ ElectionInv(Current)
        /\ Current \in Election /\ Current.log \in Seq(Event)
    BY CurrentArchive
  <1>3. Current.state = "Closed"
    BY DEF ComputeEncryptedTally
  <1> DEFINE log == Tallied(Current.log)
             ev == Shuffle(Server, NhCiphertexts(log))
  <1>4. LogInv(log) /\ AtMost(log, 3) /\ log \in Seq(Event)
    BY <1>2, <1>3, TalliedInv DEF ElectionInv, LogInv
  <1>5. Verified(log) /\ AtMost(log, 4)
    <2> HIDE DEF log
    <2> QED
      BY <1>4, EarlyVerified, AtMostWeaker
  <1>6. Current.keys
    BY <1>2, <1>3 DEF ArchiveInv, Agrees
  <1>7. CASE hasNH
    <2>1. el' = [Current EXCEPT !.log = Append(log, ev), !.audit = {},
                                !.state = "Shuffling"]
      BY <1>7 DEF ComputeEncryptedTally, Becomes, ServerShuffled
    <2> HIDE DEF log, Current
    <2>2. Verified(Append(log, ev))
      BY <1>4, <1>5, TrusteesAssumption, ShuffleVerified DEF Verified
    <2>3. ev \in Event /\ ev.typ = "Shuffle"
      BY <1>4, FoldTypes, EventConstructors, TrusteesAssumption DEF Shuffle
    <2> HIDE DEF ev
    <2>4. Has(Append(log, ev), "Shuffle")
      BY <1>4, <2>3, AppendHas
    <2>5. /\ el'.state = "Shuffling" /\ el'.log = Append(log, ev)
          /\ el'.keys = Current.keys /\ el'.audit = {}
      BY <1>2, <2>1 DEF Election
    <2> QED
      BY <1>1, <1>6, <1>7, <2>2, <2>4, <2>5 DEF ArchiveInv, Agrees, CacheFresh
  <1>8. CASE ~hasNH
    <2>1. el' = [Current EXCEPT !.log = log, !.audit = {},
                                !.state = "EncryptedTally"]
      BY <1>8 DEF ComputeEncryptedTally, Becomes
    <2> HIDE DEF log, Current
    <2>2. /\ el'.state = "EncryptedTally" /\ el'.log = log
          /\ el'.keys = Current.keys /\ el'.audit = {}
      BY <1>2, <2>1 DEF Election
    <2> QED
      BY <1>1, <1>5, <1>6, <1>8, <2>2 DEF ArchiveInv, Agrees, CacheFresh
  <1> QED
    BY <1>1, <1>7, <1>8

LEMMA PostShuffleArchive ==
    ASSUME FullInv, PostShuffle
    PROVE  ArchiveInv(el', hasNH)
  <1>1. ElectionInv(el')
    BY FullImpliesInv, PostShuffleInv
  <1>2. /\ ArchiveInv(Current, hasNH) /\ ElectionInv(Current)
        /\ Current \in Election /\ Current.log \in Seq(Event)
        /\ LogInv(Current.log) /\ ShufflesLinked(Current.log)
    BY CurrentArchive
  <1>3. Current.state = "Shuffling"
    BY DEF PostShuffle
  <1>4. PICK k \in el.token :
            el' = [Current EXCEPT
                      !.log = Append(Current.log,
                                     Shuffle(k.owner, NhCiphertexts(Current.log))),
                      !.token = {}, !.audit = {}]
    BY DEF PostShuffle, Becomes
  <1>5. k.owner \in Trustees
    BY DEF FullInv, ArchiveInv, ElectionInv, Election, Token
  <1> HIDE DEF Current
  <1> DEFINE ev == Shuffle(k.owner, NhCiphertexts(Current.log))
             log == Append(Current.log, ev)
  <1>6. Verified(log)
    BY <1>2, <1>3, <1>5, ShuffleVerified DEF ElectionInv
  <1>7. ev \in Event /\ ev.typ = "Shuffle"
    BY <1>2, <1>5, FoldTypes, EventConstructors DEF Shuffle
  <1>8. Has(log, "Shuffle")
    <2> HIDE DEF ev
    <2> QED
      BY <1>2, <1>7, AppendHas
  <1>9. el' = [Current EXCEPT !.log = log, !.token = {}, !.audit = {}]
    BY <1>4
  <1> HIDE DEF log
  <1>10. /\ el'.state = Current.state /\ el'.log = log
         /\ el'.keys = Current.keys /\ el'.audit = {}
    BY <1>2, <1>9 DEF Election
  <1>11. Current.keys /\ hasNH
    BY <1>2, <1>3 DEF ArchiveInv, Agrees
  <1> QED
    BY <1>1, <1>3, <1>6, <1>8, <1>10, <1>11 DEF ArchiveInv, Agrees, CacheFresh

LEMMA FinishShufflingArchive ==
    ASSUME FullInv, FinishShuffling
    PROVE  ArchiveInv(el', hasNH)
  <1>1. ElectionInv(el')
    BY FullImpliesInv, FinishShufflingInv
  <1>2. /\ ArchiveInv(Current, hasNH) /\ ElectionInv(Current)
        /\ Current \in Election /\ Current.log \in Seq(Event)
    BY CurrentArchive
  <1>3. Current.state = "Shuffling"
    BY DEF FinishShuffling
  <1>4. el' = [Current EXCEPT !.log = Append(Current.log, EndShuffles),
                              !.state = "EncryptedTally",
                              !.tokens = FALSE, !.skipped = {}, !.token = {}]
    BY DEF FinishShuffling, Becomes
  <1> HIDE DEF Current
  <1>5. EndShuffles \in Event /\ EndShuffles.typ = "EndShuffles"
    BY EventConstructors DEF EndShuffles
  <1>6. /\ el'.state = "EncryptedTally"
        /\ el'.log = Append(Current.log, EndShuffles)
        /\ el'.keys = Current.keys
        /\ el'.seals = Current.seals /\ el'.audit = Current.audit
    BY <1>2, <1>4 DEF Election
  <1>7. Agrees(el', hasNH)
    <2>1. Has(Current.log, "Shuffle") /\ Current.keys
      BY <1>2, <1>3 DEF ArchiveInv, Agrees
    <2>2. /\ Has(Append(Current.log, EndShuffles), "Shuffle")
          /\ Has(Append(Current.log, EndShuffles), "EndShuffles")
      BY <1>2, <1>5, <2>1, AppendHas
    <2> QED
      BY <1>6, <2>1, <2>2 DEF Agrees
  <1>8. AtMost(Current.log, 6)
    BY <1>2, <1>3, AtMostWeaker DEF ElectionInv
  <1> QED
    BY <1>1, <1>2, <1>5, <1>6, <1>7, <1>8, QuietArchive DEF Quiet

LEMMA PostPartialDecryptionArchive ==
    ASSUME FullInv, NEW t \in Trustees, PostPartialDecryption(t)
    PROVE  ArchiveInv(el', hasNH)
  <1>1. ElectionInv(el')
    BY FullImpliesInv, PostPartialDecryptionInv
  <1>2. /\ ArchiveInv(Current, hasNH) /\ ElectionInv(Current)
        /\ Current \in Election /\ Current.log \in Seq(Event)
    BY CurrentArchive
  <1>3. Current.state = "EncryptedTally"
    BY DEF PostPartialDecryption
  <1>4. el' = [Current EXCEPT !.log = Append(Current.log, PartialDecryption(t))]
    BY DEF PostPartialDecryption, Becomes
  <1> HIDE DEF Current
  <1> DEFINE ev == PartialDecryption(t)
  <1>5. ev \in Event /\ ev.typ = "PartialDecryption"
    BY EventConstructors DEF PartialDecryption
  <1> HIDE DEF ev
  <1>6. /\ el'.state = "EncryptedTally" /\ el'.log = Append(Current.log, ev)
        /\ el'.keys = Current.keys
        /\ el'.seals = Current.seals /\ el'.audit = Current.audit
    BY <1>2, <1>3, <1>4 DEF Election, ev
  <1>7. Agrees(el', hasNH)
    BY <1>2, <1>3, <1>5, <1>6, AppendHas DEF ArchiveInv, Agrees
  <1>8. AtMost(Current.log, 6)
    BY <1>2, <1>3 DEF ElectionInv
  <1> QED
    BY <1>1, <1>2, <1>5, <1>6, <1>7, <1>8, QuietArchive DEF Quiet

LEMMA GetPartialDecryptionsArchive ==
    ASSUME FullInv, GetPartialDecryptions
    PROVE  ArchiveInv(el', hasNH)
  <1>1. ElectionInv(el')
    BY FullImpliesInv, GetPartialDecryptionsInv
  <1>2. ArchiveInv(Current, hasNH) /\ Current \in Election
    BY CurrentArchive
  <1>3. \/ el' = Current
        \/ el' = [Current EXCEPT !.tokens = TRUE, !.skipped = {}, !.token = {}]
    BY DEF GetPartialDecryptions, Becomes
  <1> HIDE DEF Current
  <1>4. /\ el'.state = Current.state /\ el'.log = Current.log
        /\ el'.keys = Current.keys
        /\ el'.seals = Current.seals /\ el'.audit = Current.audit
    BY <1>2, <1>3 DEF Election
  <1> QED
    BY <1>1, <1>2, <1>4, SameLogArchive

LEMMA OtherArchive ==
    ASSUME FullInv,
           \/ SetAutomaticDates
           \/ \E seal \in BOOLEAN : Seal(seal)
           \/ \E t \in Shufflers : SkipShuffler(t)
           \/ \E t \in Shufflers : SelectShuffler(t)
           \/ Archive
    PROVE  ArchiveInv(el', hasNH)
  <1>1. ElectionInv(el')
    BY FullImpliesInv, OtherInv
  <1>2. ArchiveInv(el, hasNH) /\ el \in Election
    BY DEF FullInv, ArchiveInv, ElectionInv
  <1> DEFINE Kept ==
          /\ el'.log = el.log
          /\ \/ el'.state = "none"
             \/ el'.keys = el.keys /\ el'.state = el.state
          /\ el'.audit = {} \/ (el'.audit = el.audit /\ el'.seals = el.seals)
  <1>3. Kept
    <2>1. CASE SetAutomaticDates
      BY <1>2, <2>1 DEF SetAutomaticDates, Becomes, Election
    <2>2. ASSUME NEW seal \in BOOLEAN, Seal(seal)
          PROVE  Kept
      BY <1>2, <2>2 DEF Seal, Becomes, Election
    <2>3. CASE \E t \in Shufflers : SkipShuffler(t)
      BY <1>2, <2>3 DEF SkipShuffler, Becomes, Election
    <2>4. CASE \E t \in Shufflers : SelectShuffler(t)
      BY <1>2, <2>4 DEF SelectShuffler, Becomes, Election
    <2>5. CASE Archive
      BY <1>2, <2>5 DEF Archive, Becomes, Election
    <2> HIDE DEF Kept
    <2> QED
      BY <2>1, <2>2, <2>3, <2>4, <2>5
  <1> QED
    BY <1>1, <1>2, <1>3, SameLogArchive

(* The cache is filled with what it is computed from.                      *)
LEMMA GetAuditCacheArchive ==
    ASSUME FullInv, GetAuditCache
    PROVE  ArchiveInv(el', hasNH)
  <1>1. ElectionInv(el')
    BY FullImpliesInv, OtherInv
  <1>2. ArchiveInv(el, hasNH) /\ el \in Election
    BY DEF FullInv, ArchiveInv, ElectionInv
  <1> DEFINE cache == AuditCache(el)
  <1>3. el' = [el EXCEPT !.audit = {cache}]
    BY DEF GetAuditCache, Becomes
  <1> HIDE DEF cache
  <1>4. /\ el'.log = el.log /\ el'.state = el.state /\ el'.keys = el.keys
        /\ el'.seals = el.seals /\ el'.audit = {cache}
    BY <1>2, <1>3 DEF Election
  <1>5. CacheFresh(el')
    BY <1>4 DEF CacheFresh, AuditCache, cache
  <1> QED
    BY <1>1, <1>2, <1>4, <1>5 DEF ArchiveInv, Agrees

LEMMA InitArchive == Init => FullInv
  <1> SUFFICES ASSUME Init PROVE FullInv
    OBVIOUS
  <1>1. Inv
    BY InitInv
  <1>2. PICK open, close, publish \in DateValues :
            el = ReadyDraft(open, close, publish)
    BY DEF Init
  <1>3. el.log = <<>> /\ el.state = "none" /\ el.audit = {}
    BY <1>2 DEF ReadyDraft
  <1>4. AtMost(el.log, 3)
    BY <1>3 DEF AtMost
  <1> QED
    BY <1>1, <1>3, <1>4, EarlyVerified DEF Inv, FullInv, ArchiveInv, Agrees, CacheFresh

LEMMA DeleteArchive == ArchiveInv(NoElection, hasNH)
  <1>1. NoElection.log = <<>> /\ NoElection.state = "none" /\ NoElection.audit = {}
    BY DEF NoElection, ReadyDraft
  <1>2. AtMost(NoElection.log, 3)
    BY <1>1 DEF AtMost
  <1> QED
    BY <1>1, <1>2, NoElectionInv, EarlyVerified DEF ArchiveInv, Agrees, CacheFresh

LEMMA NextFull == FullInv /\ [Next]_vars => FullInv'
  <1> SUFFICES ASSUME FullInv, [Next]_vars PROVE FullInv'
    OBVIOUS
  <1>1. ArchiveInv(el, hasNH) /\ now \in Nat /\ hasNH \in BOOLEAN
    BY DEF FullInv
  <1>2. CASE Tick
    BY <1>1, <1>2 DEF Tick, FullInv
  <1>3. ASSUME NEW e, Becomes(e), ArchiveInv(el', hasNH)
        PROVE  FullInv'
    BY <1>1, <1>3 DEF FullInv, Becomes
  <1>4. CASE Visit
    BY <1>3, <1>4, CurrentArchive DEF Visit, Becomes
  <1>5. CASE Validate
    BY <1>3, <1>5, ValidateArchive DEF Validate
  <1>6. CASE Open \/ Close
    BY <1>3, <1>6, SetStateArchive DEF Open, Close, SetState
  <1>7. ASSUME NEW c \in Credentials, NEW login, CastBallot(c, login)
        PROVE  FullInv'
    BY <1>3, <1>7, CastBallotArchive DEF CastBallot
  <1>8. CASE ComputeEncryptedTally
    BY <1>3, <1>8, ComputeEncryptedTallyArchive DEF ComputeEncryptedTally
  <1>9. CASE PostShuffle
    BY <1>3, <1>9, PostShuffleArchive DEF PostShuffle
  <1>10. CASE FinishShuffling
    BY <1>3, <1>10, FinishShufflingArchive DEF FinishShuffling
  <1>11. CASE GetPartialDecryptions
    BY <1>3, <1>11, GetPartialDecryptionsArchive DEF GetPartialDecryptions
  <1>12. ASSUME NEW t \in Trustees, PostPartialDecryption(t)
         PROVE  FullInv'
    BY <1>3, <1>12, PostPartialDecryptionArchive DEF PostPartialDecryption
  <1>13. CASE ReleaseTally
    BY <1>1, <1>3, <1>13, ReleaseArchive DEF ReleaseTally, Becomes
  <1>14. CASE Delete
    BY <1>3, <1>14, DeleteArchive DEF Delete, Becomes
  <1>15. CASE GetAuditCache
    BY <1>3, <1>15, GetAuditCacheArchive DEF GetAuditCache
  <1>16. CASE \/ SetAutomaticDates
              \/ \E seal \in BOOLEAN : Seal(seal)
              \/ \E t \in Shufflers : SkipShuffler(t)
              \/ \E t \in Shufflers : SelectShuffler(t)
              \/ Archive
    BY <1>3, <1>16, OtherArchive
       DEF SetAutomaticDates, Seal, SkipShuffler, SelectShuffler, Archive
  <1>17. CASE UNCHANGED vars
    BY <1>1, <1>17 DEF vars, FullInv
  <1> QED
    BY <1>2, <1>4, <1>5, <1>6, <1>7, <1>8, <1>9, <1>10, <1>11, <1>12, <1>13,
       <1>14, <1>15, <1>16, <1>17 DEF Next

(* The strengthened invariant holds of every execution.                    *)
THEOREM FullInvariant == Spec => []FullInv
  BY InitArchive, NextFull, PTL DEF Spec

(* In every reachable state an election can go on: it has the key, the     *)
(* shuffles and the tally that the next step of its state needs.           *)
THEOREM StateAgrees == Spec => []StateAgreesWithLog
  <1>1. FullInv => StateAgreesWithLog
    <2> SUFFICES ASSUME FullInv PROVE StateAgreesWithLog
      OBVIOUS
    <2>1. ElectionInv(el) /\ Agrees(el, hasNH) /\ el.log \in Seq(Event)
      BY DEF FullInv, ArchiveInv, ElectionInv, LogInv
    <2>2. \A typ : Has(el.log, typ) <=> \E i \in DOMAIN el.log : el.log[i].typ = typ
      BY DEF Has, Indices
    <2>3. /\ el.state \in {"Open", "Closed"} => ~Has(el.log, "EndBallots")
          /\ el.state = "Shuffling" => ~Has(el.log, "EndShuffles")
          /\ el.state = "EncryptedTally" =>
                 Has(el.log, "EncryptedTally") /\ ~Has(el.log, "Result")
      BY <2>1, NotYet DEF ElectionInv, HasTally, Has
    <2> QED
      BY <2>1, <2>2, <2>3 DEF StateAgreesWithLog, Agrees
  <1> QED
    BY <1>1, FullInvariant, PTL

(* The verifier recomputes by folds what Verified says of all the events.  *)
LEMMA VerifiedPasses ==
    ASSUME NEW log, LogInv(log), Verified(log)
    PROVE  VerifyArchive(log)
  <1>1. log \in Seq(Event) /\ InPhaseOrder(log) /\ CountsLastBallots(log)
    BY DEF LogInv
  <1>2. ASSUME Root(log, "EncryptedTally") # {}
        PROVE  LatestTally(log) = TalliedBallots(log)
    <2>1. HasTally(log)
      BY <1>2 DEF Root, HasTally
    <2> QED
      BY <1>1, <2>1, LatestTallyCounts, TalliedAreLast
  <1>3. ShufflesCheck(log)
    BY <1>1, RunIsAll DEF Verified, ShufflesLinked, PreviousShuffles, ShufflesCheck
  <1>4. ResultCheck(log)
    <2> SUFFICES ASSUME Root(log, "Result") # {}
                 PROVE  /\ Supported(log)
                        /\ \A i \in Root(log, "Result") :
                               log[i].payload = LatestTally(log)
      BY DEF ResultCheck, Supported
    <2>1. Has(log, "Result")
      BY DEF Root, Has
    <2>2. Supported(log)
      BY <2>1 DEF Verified
    <2>3. LatestTally(log) = LastBallots(log)
      BY <2>2, LatestTallyCounts DEF Supported
    <2>4. \A i \in Root(log, "Result") : log[i].payload = LastBallots(log)
      BY <1>1 DEF Root, Indices, CountsLastBallots
    <2> QED
      BY <2>2, <2>3, <2>4
  <1> QED
    BY <1>2, <1>3, <1>4 DEF VerifyArchive

(* The archive passes the verifier's checks in every reachable state.      *)
THEOREM ArchiveAlwaysVerifies == Spec => []ArchiveVerifies
  <1>1. FullInv => ArchiveVerifies
    BY VerifiedPasses DEF FullInv, ArchiveInv, ElectionInv, ArchiveVerifies
  <1> QED
    BY <1>1, FullInvariant, PTL

(* The audit cache is never stale.                                         *)
THEOREM CacheIsFresh == Spec => []AuditCacheFresh
  <1>1. FullInv => AuditCacheFresh
    BY DEF FullInv, ArchiveInv, CacheFresh, AuditCacheFresh
  <1> QED
    BY <1>1, FullInvariant, PTL
-----------------------------------------------------------------------------
(* What a step may not do.                                                 *)

(* A refresh keeps the dates, and changes Open and Closed by them only.    *)
LEMMA RefreshKeeps ==
    ASSUME NEW e \in Election, NEW t
    PROVE  LET f == Refresh(e, t)
           IN  /\ <<f.open, f.close, f.publish>> = <<e.open, e.close, e.publish>>
               /\ f.sealed = e.sealed
               /\ e.state = "Closed" /\ f.state = "Open" => Past(e.open, t)
               /\ e.state = "Open" /\ f.state = "Closed" => Past(e.close, t)
               /\ AutoRelease(e, t) \/ f.log = e.log
  <1>1. CASE AutoRelease(e, t)
    BY <1>1 DEF Refresh, Release, AutoRelease, Election
  <1>2. CASE ~AutoRelease(e, t)
    <2> DEFINE state == AutoClose(e, t)
    <2>1. Refresh(e, t) = [e EXCEPT !.state = state]
      BY <1>2 DEF Refresh
    <2>2. /\ e.state = "Closed" /\ state = "Open" => Past(e.open, t)
          /\ e.state = "Open" /\ state = "Closed" => Past(e.close, t)
      BY DEF AutoClose, AutoOpen
    <2> HIDE DEF state
    <2> QED
      BY <2>1, <2>2 DEF Election
  <1> QED
    BY <1>1, <1>2

(* While an election is sealed its dates do not move, and only they open   *)
(* or close it: no sequence of handlers gets round the seal.               *)
THEOREM SealIsFirm == Spec => SealedMeansFrozen
  <1> DEFINE Frozen ==
          el.sealed /\ el'.sealed =>
              /\ <<el.open, el.close, el.publish>> = <<el'.open, el'.close, el'.publish>>
              /\ el.state = "Closed" /\ el'.state = "Open" => Past(el.open, now)
              /\ el.state = "Open" /\ el'.state = "Closed" => Past(el.close, now)
  <1>1. Inv /\ [Next]_vars => [Frozen]_vars
    <2> SUFFICES ASSUME Inv, [Next]_vars PROVE Frozen
      OBVIOUS
    <2>1. el \in Election /\ Current \in Election /\ ElectionInv(el)
      BY CurrentInv DEF Inv, ElectionInv
    <2>2. /\ <<Current.open, Current.close, Current.publish>>
                 = <<el.open, el.close, el.publish>>
          /\ el.state = "Closed" /\ Current.state = "Open" => Past(el.open, now)
          /\ el.state = "Open" /\ Current.state = "Closed" => Past(el.close, now)
      BY <2>1, RefreshKeeps DEF Current
    <2>3. ASSUME <<el'.open, el'.close, el'.publish>>
                     = <<Current.open, Current.close, Current.publish>>,
                 el'.state \in {Current.state, "Shuffling", "EncryptedTally"}
          PROVE  Frozen
      BY <2>2, <2>3
    <2>4. ASSUME <<el'.open, el'.close, el'.publish>> = <<el.open, el.close, el.publish>>,
                 el'.state \in {el.state, "none", "Tallied"}
          PROVE  Frozen
      BY <2>4
    <2> HIDE DEF Current, Frozen
    <2>5. CASE Visit
      BY <2>3, <2>5 DEF Visit, Becomes
    <2>6. CASE \E c \in Credentials, login \in {NoDate} \cup 0 .. now :
                   CastBallot(c, login)
      BY <2>1, <2>3, <2>6 DEF CastBallot, Becomes, Election
    <2>7. CASE ComputeEncryptedTally \/ PostShuffle \/ FinishShuffling
      <3>1. CASE ComputeEncryptedTally
        BY <2>1, <2>3, <3>1 DEF ComputeEncryptedTally, Becomes, Election
      <3>2. CASE PostShuffle
        BY <2>1, <2>3, <3>2 DEF PostShuffle, Becomes, Election
      <3>3. CASE FinishShuffling
        BY <2>1, <2>3, <3>3 DEF FinishShuffling, Becomes, Election
      <3> QED
        BY <2>7, <3>1, <3>2, <3>3
    <2>8. CASE GetPartialDecryptions
      BY <2>1, <2>3, <2>8 DEF GetPartialDecryptions, Becomes, Election
    <2>9. ASSUME NEW t, PostPartialDecryption(t)
          PROVE  Frozen
      BY <2>1, <2>3, <2>9 DEF PostPartialDecryption, Becomes, Election
    <2>10. CASE ReleaseTally
      <3>1. /\ Release(el).state = "Tallied"
            /\ <<Release(el).open, Release(el).close, Release(el).publish>>
                   = <<el.open, el.close, el.publish>>
        BY <2>1 DEF Release, Election
      <3>2. /\ Release(Release(el)).state = "Tallied"
            /\ <<Release(Release(el)).open, Release(Release(el)).close,
                 Release(Release(el)).publish>> = <<el.open, el.close, el.publish>>
        BY <2>1 DEF Release, Election
      <3> QED
        BY <2>4, <2>10, <3>1, <3>2 DEF ReleaseTally, Becomes
    <2>11. CASE Open \/ Close \/ SetAutomaticDates
      BY <2>11 DEF Open, Close, SetState, SetAutomaticDates, Frozen
    <2>12. CASE Validate
      <3>1. el.state = "none"
        BY <2>1, <2>12 DEF Validate, ElectionInv
      <3> QED
        BY <2>1, <2>12, <3>1 DEF Validate, Becomes, Election, Frozen
    <2>13. CASE Tick \/ UNCHANGED vars
      BY <2>4, <2>13 DEF Tick, vars
    <2>14. ASSUME NEW seal \in BOOLEAN, Seal(seal)
           PROVE  Frozen
      BY <2>1, <2>4, <2>14 DEF Seal, Becomes, Election
    <2>15. ASSUME NEW t \in Shufflers, SkipShuffler(t) \/ SelectShuffler(t)
           PROVE  Frozen
      BY <2>1, <2>4, <2>15 DEF SkipShuffler, SelectShuffler, Becomes, Election
    <2>16. CASE GetAuditCache \/ Archive
      BY <2>1, <2>4, <2>16 DEF GetAuditCache, Archive, Becomes, Election
    <2>17. CASE Delete
      BY <2>17 DEF Delete, Becomes, NoElection, ReadyDraft, Frozen
    <2> QED
      BY <2>5, <2>6, <2>7, <2>8, <2>9, <2>10, <2>11, <2>12, <2>13, <2>14, <2>15,
         <2>16, <2>17 DEF Next
  <1> QED
    BY <1>1, Invariant, PTL DEF Spec, SealedMeansFrozen

(* No result appears before the publication date, whatever the trustees    *)
(* and the visitors do, unless the administrator releases it.              *)
THEOREM ResultsWait == Spec => NoResultBeforePublication
  <1> DEFINE Due == el'.deleted \/ el.publish = NoDate \/ Past(el.publish, now)
             Early == Indices(el.log, "Result") # Indices(el'.log, "Result")
             Waits == Early /\ ~ReleaseTally => Due
  <1>1. Inv /\ [Next]_vars => [Waits]_vars
    <2> SUFFICES ASSUME Inv, [Next]_vars, ~ReleaseTally, ~Due PROVE ~Early
      OBVIOUS
    <2>1. /\ el \in Election /\ Current \in Election
          /\ el.log \in Seq(Event) /\ Current.log \in Seq(Event)
      BY CurrentInv DEF Inv, ElectionInv, LogInv
    <2>2. Current.log = el.log
      BY <2>1, RefreshKeeps DEF Current, AutoRelease
    <2>3. ASSUME NEW ev \in Event, ev.typ # "Result"
          PROVE  \A log \in Seq(Event) :
                     Indices(Append(log, ev), "Result") = Indices(log, "Result")
      BY <2>3, AppendIndices
    <2> HIDE DEF Current
    <2>4. ASSUME el'.log = el.log PROVE ~Early
      BY <2>4
    <2>5. ASSUME NEW ev \in Event, ev.typ # "Result", el'.log = Append(el.log, ev)
          PROVE  ~Early
      BY <2>1, <2>3, <2>5
    <2> HIDE DEF Early
    <2>6. CASE Visit \/ Tick \/ UNCHANGED vars
      BY <2>2, <2>4, <2>6 DEF Visit, Becomes, Tick, vars
    <2>7. CASE Validate
      <3>1. Setup \in Event /\ Setup.typ # "Result"
        BY EventConstructors DEF Setup
      <3>2. el'.log = Append(el.log, Setup)
        BY <2>1, <2>7 DEF Validate, Becomes, Election
      <3> QED
        BY <2>5, <3>1, <3>2
    <2>8. ASSUME NEW c \in Credentials, NEW login, CastBallot(c, login)
          PROVE  ~Early
      <3>1. Ballot(c) \in Event /\ Ballot(c).typ # "Result"
        BY EventConstructors DEF Ballot
      <3>2. el'.log = Append(el.log, Ballot(c))
        BY <2>1, <2>2, <2>8 DEF CastBallot, Becomes, Election
      <3> QED
        BY <2>5, <3>1, <3>2
    <2>9. CASE ComputeEncryptedTally
      <3> DEFINE log1 == Append(el.log, EndBallots)
                 ev2 == EncryptedTally(TalliedBallots(el.log))
                 log2 == Append(log1, ev2)
                 ev3 == Shuffle(Server, NhCiphertexts(log2))
      <3>1. EndBallots \in Event /\ EndBallots.typ # "Result"
        BY EventConstructors DEF EndBallots
      <3>2. ev2 \in Event /\ ev2.typ # "Result"
        BY <2>1, FoldTypes, EventConstructors DEF EncryptedTally
      <3>3. log1 \in Seq(Event)
        BY <2>1, <3>1
      <3> HIDE DEF log1, ev2
      <3>4. log2 \in Seq(Event)
        BY <3>2, <3>3
      <3>5. ev3 \in Event /\ ev3.typ # "Result"
        BY <3>4, FoldTypes, EventConstructors, TrusteesAssumption DEF Shuffle
      <3> HIDE DEF log2, ev3
      <3>6. /\ Indices(log1, "Result") = Indices(el.log, "Result")
            /\ Indices(log2, "Result") = Indices(log1, "Result")
            /\ Indices(Append(log2, ev3), "Result") = Indices(log2, "Result")
        BY <2>1, <2>3, <3>1, <3>2, <3>3, <3>4, <3>5 DEF log1, log2
      <3>7. el'.log \in {log2, Append(log2, ev3)}
        BY <2>1, <2>2, <2>9 DEF ComputeEncryptedTally, Becomes, Election,
           Tallied, ServerShuffled, log1, ev2, log2, ev3
      <3> QED
        BY <3>6, <3>7 DEF Early
    <2>10. CASE PostShuffle
      <3>1. PICK k \in el.token :
                el'.log = Append(el.log, Shuffle(k.owner, NhCiphertexts(el.log)))
        BY <2>1, <2>2, <2>10 DEF PostShuffle, Becomes, Election
      <3> DEFINE ev == Shuffle(k.owner, NhCiphertexts(el.log))
      <3>2. k.owner \in Trustees
        BY <2>1 DEF Election, Token
      <3>3. ev \in Event /\ ev.typ # "Result"
        BY <2>1, <3>2, FoldTypes, EventConstructors DEF Shuffle
      <3> QED
        BY <2>5, <3>1, <3>3
    <2>11. CASE FinishShuffling
      <3>1. EndShuffles \in Event /\ EndShuffles.typ # "Result"
        BY EventConstructors DEF EndShuffles
      <3>2. el'.log = Append(el.log, EndShuffles)
        BY <2>1, <2>2, <2>11 DEF FinishShuffling, Becomes, Election
      <3> QED
        BY <2>5, <3>1, <3>2
    <2>12. ASSUME NEW t \in Trustees, PostPartialDecryption(t)
           PROVE  ~Early
      <3>1. PartialDecryption(t) \in Event /\ PartialDecryption(t).typ # "Result"
        BY EventConstructors DEF PartialDecryption
      <3>2. el'.log = Append(el.log, PartialDecryption(t))
        BY <2>1, <2>2, <2>12 DEF PostPartialDecryption, Becomes, Election
      <3> QED
        BY <2>5, <3>1, <3>2
    <2>13. CASE Open \/ Close \/ GetPartialDecryptions
      BY <2>1, <2>2, <2>4, <2>13
         DEF Open, Close, SetState, GetPartialDecryptions, Becomes, Election
    <2>14. CASE SetAutomaticDates \/ GetAuditCache \/ Archive
      BY <2>1, <2>4, <2>14
         DEF SetAutomaticDates, GetAuditCache, Archive, Becomes, Election
    <2>15. ASSUME NEW t \in Shufflers, SkipShuffler(t) \/ SelectShuffler(t)
           PROVE  ~Early
      BY <2>1, <2>4, <2>15 DEF SkipShuffler, SelectShuffler, Becomes, Election
    <2>16. ASSUME NEW seal \in BOOLEAN, Seal(seal)
           PROVE  ~Early
      BY <2>1, <2>4, <2>16 DEF Seal, Becomes, Election
    <2>17. CASE Delete
      BY <2>17 DEF Delete, Becomes, NoElection, ReadyDraft
    <2> QED
      BY <2>6, <2>7, <2>8, <2>9, <2>10, <2>11, <2>12, <2>13, <2>14, <2>15, <2>16,
         <2>17 DEF Next
  <1> QED
    BY <1>1, Invariant, PTL DEF Spec, NoResultBeforePublication
=============================================================================
