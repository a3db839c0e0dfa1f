------------------------ MODULE ElectionCrashProofs ------------------------
(***************************************************************************)
(* Theorems about ElectionCrash, for every value of its constants.         *)
(*                                                                         *)
(* A kill may leave the state file behind the archive, so a handler can    *)
(* append what is already there and the events need not follow the phases: *)
(* the invariant of ElectionLifecycleProofs does not hold.  What does is   *)
(* said of the log alone (LogOK): the latest tally counts what a new tally *)
(* would count as long as no ballot follows it, and a log whose events do  *)
(* follow the phases has linked shuffles and a result that the shares      *)
(* before it support.                                                      *)
(***************************************************************************)
EXTENDS ElectionCrash, ElectionLifecycleProofs

TallyMatches(log) ==
    Has(log, "EncryptedTally") /\ NoBallotSinceTally(log) =>
        LatestTally(log) = TalliedBallots(log)

CanCount(log) == Cardinality(Decrypted(log) \ {Server}) >= Threshold

ResultStands(log) ==
    Has(log, "Result") =>
        /\ Server \in Decrypted(log)
        /\ CanCount(log)
        /\ \A i \in Root(log, "Result") : log[i].payload = LatestTally(log)

LogOK(log) ==
    /\ log \in Seq(Event)
    /\ TallyMatches(log)
    /\ InPhaseOrder(log) => ShufflesLinked(log) /\ ResultStands(log)

Grows(log, next) == \A typ : Has(log, typ) => Has(next, typ)

(* What a log without a new ballot keeps of the one before it.             *)
Keeps(log, next) ==
    /\ LogOK(next)
    /\ Grows(log, next)
    /\ TalliedBallots(next) = TalliedBallots(log)

(* The state file says less than the archive.                              *)
NotAhead(e, nh) ==
    /\ e.state \in {"Open", "Closed"} => Has(e.log, "Setup")
    /\ e.state = "Shuffling" => Has(e.log, "EncryptedTally")
    /\ e.state = "EncryptedTally" =>
           /\ Has(e.log, "EncryptedTally")
           /\ nh => Has(e.log, "EndShuffles")
    /\ e.state = "Tallied" => Has(e.log, "Result")

DirOK(e, nh) ==
    /\ e \in Election
    /\ LogOK(e.log)
    /\ NotAhead(e, nh)

CrashInv ==
    /\ now \in Nat
    /\ hasNH \in BOOLEAN
    /\ kills \in Nat
    /\ DirOK(el, hasNH)

(* What a step may make of the directory: it grows the archive, it changes *)
(* what a tally would count only by a ballot after the latest tally, and   *)
(* it deletes the draft only once the archive, the key and the credentials *)
(* are there.                                                              *)
Follows(e, f) ==
    /\ Grows(e.log, f.log)
    /\ \/ TalliedBallots(f.log) = TalliedBallots(e.log)
       \/ Has(e.log, "EncryptedTally") => ~NoBallotSinceTally(f.log)
    /\ e.draft /\ ~f.draft => Has(f.log, "Setup") /\ f.keys /\ f.creds

Legal(f) == DirOK(f, hasNH) /\ (f.deleted \/ Follows(el, f))

-----------------------------------------------------------------------------
(* Appending one event, whatever the order of the log.                     *)

LEMMA AppendRun ==
    ASSUME NEW log \in Seq(Event), NEW ev \in Event, NEW typ, ev.typ # typ
    PROVE  Run(Append(log, ev), typ) = Run(log, typ)
  <1> DEFINE app == Append(log, ev)
  <1>1. Indices(app, typ) = Indices(log, typ)
    BY AppendIndices
  <1>2. /\ DOMAIN app = DOMAIN log \cup {Len(log) + 1}
        /\ \A k \in DOMAIN log : app[k] = log[k] /\ k \in Int /\ k < Len(log) + 1
        /\ app[Len(log) + 1] = ev /\ Len(log) + 1 \in Int
    BY AppendFields
  <1> HIDE DEF app
  <1>3. \A j, k \in DOMAIN app :
            j <= k /\ app[k].typ = typ => j \in DOMAIN log /\ k \in DOMAIN log
    BY <1>2
  <1> QED
    BY <1>1, <1>2, <1>3 DEF Run, app

LEMMA AppendTallied ==
    ASSUME NEW log \in Seq(Event), NEW ev \in Event, ev.typ # "Ballot"
    PROVE  TalliedBallots(Append(log, ev)) = TalliedBallots(log)
  <1>1. Run(Append(log, ev), "Ballot") = Run(log, "Ballot")
    BY AppendRun
  <1>2. \A i \in Run(log, "Ballot") : Append(log, ev)[i] = log[i]
    BY IndicesInLog DEF Run
  <1> QED
    BY <1>1, <1>2 DEF TalliedBallots

LEMMA AppendLatestTally ==
    ASSUME NEW log \in Seq(Event), NEW ev \in Event
    PROVE  LatestTally(Append(log, ev)) =
               IF ev.typ = "EncryptedTally" THEN ev.payload ELSE LatestTally(log)
  <1> DEFINE app == Append(log, ev)
  <1>1. CASE ev.typ = "EncryptedTally"
    <2>1. Root(app, "EncryptedTally") = {Len(log) + 1} /\ app[Len(log) + 1] = ev
      BY <1>1, AppendRoot, AppendFields
    <2> HIDE DEF app
    <2>2. LatestTally(app) = UNION {ev.payload}
      BY <2>1 DEF LatestTally
    <2> QED
      BY <1>1, <2>2 DEF app
  <1>2. CASE ev.typ # "EncryptedTally"
    <2>1. Root(app, "EncryptedTally") = Root(log, "EncryptedTally")
      BY <1>2, AppendRoot
    <2>2. \A i \in Root(log, "EncryptedTally") : app[i] = log[i]
      BY IndicesInLog DEF Root
    <2> QED
      BY <1>2, <2>1, <2>2 DEF LatestTally
  <1> QED
    BY <1>1, <1>2

LEMMA LatestTallyType ==
    ASSUME NEW log \in Seq(Event)
    PROVE  LatestTally(log) \in SUBSET Nat
  <1>1. \A i \in Root(log, "EncryptedTally") : log[i].payload \in SUBSET Nat
    BY EventFields DEF Root, Indices
  <1> QED
    BY <1>1 DEF LatestTally

LEMMA AppendSince ==
    ASSUME NEW log \in Seq(Event), NEW ev \in Event
    PROVE  /\ ev.typ \notin {"Ballot", "EncryptedTally"} =>
                  (NoBallotSinceTally(Append(log, ev)) <=> NoBallotSinceTally(log))
           /\ ev.typ = "Ballot" /\ Has(log, "EncryptedTally") =>
                  ~NoBallotSinceTally(Append(log, ev))
  <1> DEFINE app == Append(log, ev)
  <1>1. CASE ev.typ \notin {"Ballot", "EncryptedTally"}
    <2>1. /\ Indices(app, "Ballot") = Indices(log, "Ballot")
          /\ Root(app, "EncryptedTally") = Root(log, "EncryptedTally")
      BY <1>1, AppendIndices, AppendRoot
    <2> QED
      BY <1>1, <2>1 DEF NoBallotSinceTally
  <1>2. CASE ev.typ = "Ballot"
    <2> SUFFICES ASSUME Has(log, "EncryptedTally") PROVE ~NoBallotSinceTally(app)
      BY <1>2
    <2>1. PICK j \in Root(log, "EncryptedTally") : TRUE
      BY LatestExists
    <2>2. j \in Int /\ j < Len(log) + 1
      BY <2>1, IndicesInLog DEF Root
    <2>3. Root(app, "EncryptedTally") = Root(log, "EncryptedTally")
      BY <1>2, AppendRoot
    <2>4. Indices(app, "Ballot") = Indices(log, "Ballot") \cup {Len(log) + 1}
      BY <1>2, AppendIndices
    <2>5. ~(Len(log) + 1 < j)
      BY <2>2
    <2> HIDE DEF app
    <2>6. j \in Root(app, "EncryptedTally") /\ Len(log) + 1 \in Indices(app, "Ballot")
      BY <2>1, <2>3, <2>4
    <2> QED
      BY <2>5, <2>6 DEF NoBallotSinceTally
  <1> QED
    BY <1>1, <1>2

(* The prefix of an ordered log is ordered, and not ahead of its end.      *)
LEMMA PrefixOrder ==
    ASSUME NEW log \in Seq(Event), NEW ev \in Event, InPhaseOrder(Append(log, ev))
    PROVE  InPhaseOrder(log) /\ AtMost(log, Rank(ev.typ))
  BY AppendFields DEF InPhaseOrder, AtMost

(* What an event must be for the log to stay sound after it.               *)
Fits(log, ev) ==
    /\ ev \in Event
    /\ ev.typ = "EncryptedTally" => ev.payload = TalliedBallots(log)
    /\ ev.typ = "Shuffle" => \E t \in Trustees : ev = Shuffle(t, NhCiphertexts(log))
    /\ ev.typ = "Result" =>
           /\ ev.payload = LatestTally(log)
           /\ InPhaseOrder(log) => Server \in Decrypted(log) /\ CanCount(log)

LEMMA AppendLogOK ==
    ASSUME NEW log, LogOK(log), NEW ev, Fits(log, ev)
    PROVE  /\ LogOK(Append(log, ev))
           /\ Has(Append(log, ev), ev.typ)
           /\ Grows(log, Append(log, ev))
           /\ ev.typ # "Ballot" => Keeps(log, Append(log, ev))
           /\ ev.typ = "Ballot" /\ Has(log, "EncryptedTally") =>
                  ~NoBallotSinceTally(Append(log, ev))
  <1> DEFINE app == Append(log, ev)
  <1>1. log \in Seq(Event) /\ ev \in Event /\ app \in Seq(Event)
    BY AppendFields DEF LogOK, Fits
  <1>2. Has(app, ev.typ) /\ Grows(log, app)
    BY <1>1, AppendHas DEF Grows
  <1>3. ev.typ # "Ballot" => TalliedBallots(app) = TalliedBallots(log)
    BY <1>1, AppendTallied
  <1>4. TallyMatches(app)
    <2> SUFFICES ASSUME Has(app, "EncryptedTally"), NoBallotSinceTally(app)
                 PROVE  LatestTally(app) = TalliedBallots(app)
      BY DEF TallyMatches
    <2>1. CASE ev.typ = "EncryptedTally"
      BY <1>1, <1>3, <2>1, AppendLatestTally DEF Fits
    <2>2. CASE ev.typ # "EncryptedTally"
      <3>1. Has(log, "EncryptedTally")
        BY <1>1, <2>2, AppendHas
      <3>2. ev.typ # "Ballot" /\ NoBallotSinceTally(log)
        BY <1>1, <2>2, <3>1, AppendSince
      <3> QED
        BY <1>1, <1>3, <2>2, <3>1, <3>2, AppendLatestTally DEF LogOK, TallyMatches
    <2> QED
      BY <2>1, <2>2
  <1>5. ASSUME InPhaseOrder(app)
        PROVE  ShufflesLinked(app) /\ ResultStands(app)
    <2>1. InPhaseOrder(log) /\ AtMost(log, Rank(ev.typ))
      BY <1>1, <1>5, PrefixOrder
    <2>2. ShufflesLinked(log)
      BY <2>1 DEF LogOK
    <2>3. ShufflesLinked(app)
      <3>1. CASE ev.typ = "Shuffle"
        BY <1>1, <2>2, <3>1, ShuffleLinks DEF Fits
      <3>2. CASE ev.typ = "EncryptedTally"
        <4>1. ~Has(log, "Shuffle")
          BY <2>1, <3>2, NotYet, RankValues
        <4>2. ~Has(app, "Shuffle")
          BY <1>1, <3>2, <4>1, AppendHas
        <4> QED
          BY <4>2 DEF ShufflesLinked, Has
      <3>3. CASE ev.typ \notin {"Shuffle", "EncryptedTally"}
        BY <1>1, <2>2, <3>3, QuietShuffles
      <3> QED
        BY <3>1, <3>2, <3>3
    <2>4. ResultStands(app)
      <3>1. CASE ev.typ = "Result"
        <4>1. Decrypted(app) = Decrypted(log)
          BY <1>1, <1>5, <2>1, <3>1, AppendDecrypted
        <4>2. LatestTally(app) = LatestTally(log)
          BY <1>1, <3>1, AppendLatestTally
        <4>3. Root(app, "Result") = {Len(log) + 1} /\ app[Len(log) + 1] = ev
          BY <1>1, <3>1, AppendRoot, AppendFields
        <4> QED
          BY <2>1, <3>1, <4>1, <4>2, <4>3 DEF ResultStands, Fits, CanCount
      <3>2. CASE ev.typ # "Result"
        <4>1. Rank(ev.typ) \in 0 .. 7 /\ Rank(ev.typ) # 7
          BY <1>1, <3>2, EventFields, RankInjective, RankValues DEF EventType
        <4>2. \A i \in DOMAIN log : Rank(log[i].typ) # 7
          <5>1. \A i \in DOMAIN log : Rank(log[i].typ) \in 0 .. 7
            BY <1>1, EventFields, RankInjective
          <5> QED
            BY <2>1, <4>1, <5>1 DEF AtMost
        <4>3. ~Has(log, "Result")
          BY <4>2, RankValues DEF Has, Indices
        <4>4. ~Has(app, "Result")
          BY <1>1, <3>2, <4>3, AppendHas
        <4> QED
          BY <4>4 DEF ResultStands
      <3> QED
        BY <3>1, <3>2
    <2> QED
      BY <2>3, <2>4
  <1>6. LogOK(app)
    BY <1>1, <1>4, <1>5 DEF LogOK
  <1>7. ev.typ = "Ballot" /\ Has(log, "EncryptedTally") => ~NoBallotSinceTally(app)
    BY <1>1, AppendSince
  <1> QED
    BY <1>2, <1>3, <1>6, <1>7 DEF Keeps

LEMMA KeepsTransitive ==
    ASSUME NEW log1, NEW log2, NEW log3, Keeps(log1, log2), Keeps(log2, log3)
    PROVE  Keeps(log1, log3)
  BY DEF Keeps, Grows

LEMMA KeepsSame ==
    ASSUME NEW log, LogOK(log)
    PROVE  Keeps(log, log)
  BY DEF Keeps, Grows

-----------------------------------------------------------------------------
(* What the handlers append.                                               *)

LEMMA PlainKeeps ==
    ASSUME NEW log, LogOK(log), NEW ev \in Event,
           ev.typ \in {"Setup", "EndBallots", "EndShuffles", "PartialDecryption"}
    PROVE  Keeps(log, Append(log, ev)) /\ Has(Append(log, ev), ev.typ)
  <1>1. Fits(log, ev)
    BY DEF Fits
  <1> QED
    BY <1>1, AppendLogOK

LEMMA TalliedKeeps ==
    ASSUME NEW log, LogOK(log)
    PROVE  Keeps(log, Tallied(log)) /\ Has(Tallied(log), "EncryptedTally")
  <1> DEFINE ended == Append(log, EndBallots)
             ev == EncryptedTally(TalliedBallots(log))
  <1>1. log \in Seq(Event)
    BY DEF LogOK
  <1>2. EndBallots \in Event /\ EndBallots.typ = "EndBallots"
    BY EventConstructors DEF EndBallots
  <1>3. Keeps(log, ended)
    BY <1>2, PlainKeeps
  <1>4. ev \in Event /\ ev.typ = "EncryptedTally" /\ ev.payload = TalliedBallots(log)
    BY <1>1, FoldTypes, EventConstructors DEF EncryptedTally
  <1> HIDE DEF ended, ev
  <1>5. LogOK(ended) /\ Fits(ended, ev)
    BY <1>3, <1>4 DEF Keeps, Fits
  <1>6. Keeps(ended, Append(ended, ev)) /\ Has(Append(ended, ev), "EncryptedTally")
    BY <1>4, <1>5, AppendLogOK
  <1> QED
    BY <1>3, <1>6, KeepsTransitive DEF Tallied, ended, ev

LEMMA ShuffleKeeps ==
    ASSUME NEW log, LogOK(log), NEW t \in Trustees
    PROVE  Keeps(log, Append(log, Shuffle(t, NhCiphertexts(log))))
  <1> DEFINE ev == Shuffle(t, NhCiphertexts(log))
  <1>1. ev \in Event /\ ev.typ = "Shuffle"
    BY FoldTypes, EventConstructors DEF Shuffle, LogOK
  <1>2. Fits(log, ev)
    BY <1>1 DEF Fits
  <1> HIDE DEF ev
  <1>3. Keeps(log, Append(log, ev))
    BY <1>1, <1>2, AppendLogOK
  <1> QED
    BY <1>3 DEF ev

LEMMA ReleasedKeeps ==
    ASSUME NEW log, LogOK(log), InPhaseOrder(log) => CanCount(log)
    PROVE  /\ Keeps(log, Released(log))
           /\ Has(Released(log), "Result")
           /\ InPhaseOrder(Released(log)) => CanCount(Released(log))
  <1> DEFINE shared == WithServerShare(log)
  <1>1. log \in Seq(Event)
    BY DEF LogOK
  <1>2. /\ Keeps(log, shared)
        /\ LatestTally(shared) = LatestTally(log)
        /\ InPhaseOrder(shared) => Server \in Decrypted(shared) /\ CanCount(shared)
    <2>1. CASE Server \in Decrypted(log)
      BY <2>1, KeepsSame DEF WithServerShare
    <2>2. CASE Server \notin Decrypted(log)
      <3> DEFINE ev == PartialDecryption(Server)
      <3>1. shared = Append(log, ev)
        BY <2>2 DEF WithServerShare
      <3>2. ev \in Event /\ ev.typ = "PartialDecryption" /\ ev.payload = Server
        BY EventConstructors, TrusteesAssumption DEF PartialDecryption
      <3> HIDE DEF ev, shared
      <3>3. Keeps(log, shared)
        BY <3>1, <3>2, PlainKeeps
      <3>4. LatestTally(shared) = LatestTally(log)
        BY <1>1, <3>1, <3>2, AppendLatestTally
      <3>5. ASSUME InPhaseOrder(shared)
            PROVE  Server \in Decrypted(shared) /\ CanCount(shared)
        <4>1. InPhaseOrder(log)
          BY <1>1, <3>1, <3>2, <3>5, PrefixOrder
        <4>2. Decrypted(shared) = Decrypted(log) \cup {Server}
          BY <1>1, <3>1, <3>2, <3>5, <4>1, AppendDecrypted
        <4>3. Decrypted(shared) \ {Server} = Decrypted(log) \ {Server}
          BY <4>2
        <4> QED
          BY <4>1, <4>2, <4>3 DEF CanCount
      <3> QED
        BY <3>3, <3>4, <3>5
    <2> QED
      BY <2>1, <2>2
  <1> DEFINE ev == Result(LatestTally(shared))
             next == Append(shared, ev)
  <1>3. Released(log) = next
    BY <1>2 DEF Released
  <1> HIDE DEF shared
  <1>4. LogOK(shared) /\ shared \in Seq(Event)
    BY <1>2 DEF Keeps, LogOK
  <1>5. ev \in Event /\ ev.typ = "Result" /\ ev.payload = LatestTally(shared)
    BY <1>4, LatestTallyType, EventConstructors DEF Result
  <1> HIDE DEF ev
  <1>6. Fits(shared, ev)
    BY <1>2, <1>5 DEF Fits
  <1>7. Keeps(shared, next) /\ Has(next, "Result")
    BY <1>4, <1>5, <1>6, AppendLogOK
  <1>8. ASSUME InPhaseOrder(next) PROVE CanCount(next)
    <2>1. InPhaseOrder(shared)
      BY <1>4, <1>5, <1>8, PrefixOrder
    <2>2. Decrypted(next) = Decrypted(shared)
      BY <1>4, <1>5, <1>8, <2>1, AppendDecrypted
    <2> QED
      BY <1>2, <2>1, <2>2 DEF CanCount
  <1> HIDE DEF next
  <1> QED
    BY <1>2, <1>3, <1>7, <1>8, KeepsTransitive

-----------------------------------------------------------------------------
(* What the handlers make of the directory.                                *)

LEMMA NotAheadGrows ==
    ASSUME NEW e, NEW f, NEW nh, NotAhead(e, nh), Grows(e.log, f.log),
           f.state \in {e.state, "none"}
    PROVE  NotAhead(f, nh)
  BY DEF NotAhead, Grows

LEMMA ReleaseKeeps ==
    ASSUME NEW e \in Election, NEW nh, LogOK(e.log),
           InPhaseOrder(e.log) => CanCount(e.log)
    PROVE  /\ Release(e) \in Election
           /\ Release(e).state = "Tallied"
           /\ Release(e).draft = e.draft
           /\ Keeps(e.log, Release(e).log)
           /\ InPhaseOrder(Release(e).log) => CanCount(Release(e).log)
           /\ NotAhead(Release(e), nh)
  <1>1. /\ Keeps(e.log, Released(e.log))
        /\ Has(Released(e.log), "Result")
        /\ InPhaseOrder(Released(e.log)) => CanCount(Released(e.log))
    BY ReleasedKeeps
  <1>2. Released(e.log) \in Seq(Event)
    BY <1>1 DEF Keeps, LogOK
  <1>3. /\ Release(e) \in Election
        /\ Release(e).state = "Tallied"
        /\ Release(e).draft = e.draft
        /\ Release(e).log = Released(e.log)
    BY <1>2 DEF Release, Election, States
  <1> QED
    BY <1>1, <1>3 DEF NotAhead

(* A directory that a handler may leave without having taken a ballot.     *)
LEMMA KeptIsLegal ==
    ASSUME CrashInv, NEW f \in Election, f.draft = el.draft,
           Keeps(el.log, f.log), NotAhead(f, hasNH)
    PROVE  Legal(f)
  BY DEF Legal, DirOK, Follows, Keeps, CrashInv

(* After update_election_state.                                            *)
LEMMA CurrentKeeps ==
    ASSUME CrashInv
    PROVE  /\ Current \in Election
           /\ Current.draft = el.draft
           /\ Keeps(el.log, Current.log)
           /\ NotAhead(Current, hasNH)
           /\ Legal(Current)
           /\ Current.state # "Tallied" => Current.log = el.log
  <1>1. el \in Election /\ LogOK(el.log) /\ NotAhead(el, hasNH)
    BY DEF CrashInv, DirOK
  <1>2. CASE AutoRelease(el, now)
    <2>1. InPhaseOrder(el.log) => CanCount(el.log)
      BY <1>2 DEF AutoRelease, CanRelease, CanCount
    <2>2. Current = Release(el)
      BY <1>2 DEF Current, Refresh
    <2> QED
      BY <1>1, <2>1, <2>2, ReleaseKeeps, KeptIsLegal
  <1>3. CASE ~AutoRelease(el, now)
    <2>1. Current = [el EXCEPT !.state = AutoClose(el, now)]
      BY <1>3 DEF Current, Refresh
    <2>2. \/ AutoClose(el, now) = el.state
          \/ {AutoClose(el, now), el.state} \subseteq {"Open", "Closed"}
      BY DEF AutoClose, AutoOpen
    <2> HIDE DEF Current
    <2>3. /\ Current \in Election /\ Current.draft = el.draft
          /\ Current.log = el.log /\ Current.state = AutoClose(el, now)
      BY <1>1, <2>1, <2>2 DEF Election, States
    <2>4. NotAhead(Current, hasNH)
      BY <1>1, <2>2, <2>3 DEF NotAhead
    <2> QED
      BY <1>1, <2>3, <2>4, KeepsSame, KeptIsLegal
  <1> QED
    BY <1>2, <1>3

LEMMA ValidateLegal ==
    ASSUME CrashInv, Validate
    PROVE  Legal(el')
  <1>1. el \in Election /\ LogOK(el.log)
    BY DEF CrashInv, DirOK
  <1>2. Setup \in Event /\ Setup.typ = "Setup"
    BY EventConstructors DEF Setup
  <1>3. Keeps(el.log, Append(el.log, Setup)) /\ Has(Append(el.log, Setup), "Setup")
    BY <1>1, <1>2, PlainKeeps
  <1>4. Append(el.log, Setup) \in Seq(Event)
    BY <1>3 DEF Keeps, LogOK
  <1>5. /\ el' \in Election /\ el'.state = "Closed" /\ el'.keys /\ el'.creds
        /\ el'.log = Append(el.log, Setup)
    BY <1>1, <1>4 DEF Validate, Becomes, Election, States
  <1>6. NotAhead(el', hasNH)
    BY <1>3, <1>5 DEF NotAhead
  <1> QED
    BY <1>3, <1>5, <1>6 DEF Legal, DirOK, Follows, Keeps

LEMMA ValidateCutLegal ==
    ASSUME CrashInv, NEW f \in ValidateCut
    PROVE  Legal(f)
  <1>1. el \in Election /\ LogOK(el.log) /\ NotAhead(el, hasNH)
    BY DEF CrashInv, DirOK
  <1>2. Setup \in Event /\ Setup.typ = "Setup"
    BY EventConstructors DEF Setup
  <1>3. Keeps(el.log, Append(el.log, Setup)) /\ Has(Append(el.log, Setup), "Setup")
    BY <1>1, <1>2, PlainKeeps
  <1>4. Append(el.log, Setup) \in Seq(Event)
    BY <1>3 DEF Keeps, LogOK
  <1>5. /\ f \in Election /\ f.state = el.state /\ f.log = Append(el.log, Setup)
        /\ ~f.draft => f.keys /\ f.creds
    BY <1>1, <1>4 DEF ValidateCut, Election
  <1>6. NotAhead(f, hasNH)
    BY <1>1, <1>3, <1>5, NotAheadGrows DEF Keeps
  <1> QED
    BY <1>3, <1>5, <1>6 DEF Legal, DirOK, Follows, Keeps

(* A handler that opens or closes, or is killed before it forgets the      *)
(* dates.                                                                  *)
LEMMA SetStateLegal ==
    ASSUME CrashInv, Current.state \in {"Open", "Closed"},
           NEW f \in Election, f.state \in {"Open", "Closed"},
           f.draft = Current.draft, f.log = Current.log
    PROVE  Legal(f)
  <1>1. /\ f.draft = el.draft /\ Keeps(el.log, f.log)
        /\ NotAhead(Current, hasNH)
    BY CurrentKeeps
  <1>2. NotAhead(f, hasNH)
    BY <1>1 DEF NotAhead
  <1> QED
    BY <1>1, <1>2, KeptIsLegal

LEMMA CastBallotLegal ==
    ASSUME CrashInv, NEW c \in Credentials, NEW login, CastBallot(c, login)
    PROVE  Legal(el')
  <1>1. /\ Current \in Election /\ Current.draft = el.draft
        /\ NotAhead(Current, hasNH) /\ LogOK(el.log)
    BY CurrentKeeps DEF CrashInv, DirOK
  <1>2. Current.state \in {"Open", "Closed"} /\ Current.log = el.log
    BY CurrentKeeps DEF CastBallot, InGrace
  <1> DEFINE ev == Ballot(c)
             app == Append(el.log, ev)
  <1>3. ev \in Event /\ ev.typ = "Ballot"
    BY EventConstructors DEF Ballot
  <1>4. el' = [Current EXCEPT !.log = app]
    BY <1>2 DEF CastBallot, Becomes
  <1> HIDE DEF ev, Current
  <1>5. Fits(el.log, ev)
    BY <1>3 DEF Fits
  <1>6. /\ LogOK(app) /\ Grows(el.log, app)
        /\ Has(el.log, "EncryptedTally") => ~NoBallotSinceTally(app)
    BY <1>1, <1>3, <1>5, AppendLogOK
  <1>7. app \in Seq(Event)
    BY <1>6 DEF LogOK
  <1> HIDE DEF app
  <1>8. /\ el' \in Election /\ el'.log = app /\ el'.draft = el.draft
        /\ el'.state = Current.state
    BY <1>1, <1>4, <1>7 DEF Election
  <1>9. NotAhead(el', hasNH)
    BY <1>1, <1>2, <1>6, <1>8, NotAheadGrows
  <1> QED
    BY <1>6, <1>8, <1>9 DEF Legal, DirOK, Follows

(* A handler that changes some files, appends what Keeps allows, and       *)
(* leaves the state file as it was or writes what the archive supports.    *)
LEMMA AfterCurrent ==
    ASSUME CrashInv, NEW f \in Election, f.draft = Current.draft,
           Keeps(Current.log, f.log),
           \/ f.state \in {Current.state, "none"}
           \/ NotAhead(f, hasNH)
    PROVE  Legal(f)
  <1>1. /\ Current.draft = el.draft /\ NotAhead(Current, hasNH)
        /\ Keeps(el.log, Current.log)
    BY CurrentKeeps
  <1> HIDE DEF Current
  <1>2. Keeps(el.log, f.log)
    BY <1>1, KeepsTransitive
  <1>3. NotAhead(f, hasNH)
    BY <1>1, NotAheadGrows DEF Keeps
  <1> QED
    BY <1>1, <1>2, <1>3, KeptIsLegal

LEMMA CurrentOK ==
    ASSUME CrashInv
    PROVE  Current \in Election /\ LogOK(Current.log) /\ NotAhead(Current, hasNH)
  BY CurrentKeeps DEF Keeps

LEMMA ComputeEncryptedTallyLegal ==
    ASSUME CrashInv, ComputeEncryptedTally
    PROVE  Legal(el')
  <1>1. Current \in Election /\ LogOK(Current.log)
    BY CurrentOK
  <1>2. /\ Keeps(Current.log, Tallied(Current.log))
        /\ Has(Tallied(Current.log), "EncryptedTally")
    BY <1>1, TalliedKeeps
  <1> DEFINE log == IF hasNH THEN ServerShuffled(Tallied(Current.log))
                             ELSE Tallied(Current.log)
             state == IF hasNH THEN "Shuffling" ELSE "EncryptedTally"
  <1>3. el' = [Current EXCEPT !.log = log, !.audit = {}, !.state = state]
    BY DEF ComputeEncryptedTally, Becomes
  <1>4. Keeps(Current.log, log) /\ Has(log, "EncryptedTally")
    <2>1. CASE hasNH
      <3>1. Keeps(Tallied(Current.log), ServerShuffled(Tallied(Current.log)))
        BY <1>2, ShuffleKeeps, TrusteesAssumption DEF Keeps, ServerShuffled
      <3> QED
        BY <1>2, <2>1, <3>1, KeepsTransitive DEF Keeps, Grows
    <2>2. CASE ~hasNH
      BY <1>2, <2>2
    <2> QED
      BY <2>1, <2>2
  <1>5. hasNH \in BOOLEAN
    BY DEF CrashInv
  <1> HIDE DEF log, Current
  <1>6. log \in Seq(Event)
    BY <1>4 DEF Keeps, LogOK
  <1>7. /\ el' \in Election /\ el'.log = log /\ el'.draft = Current.draft
        /\ el'.state = state
    BY <1>1, <1>3, <1>6 DEF Election, States
  <1>8. NotAhead(el', hasNH)
    BY <1>4, <1>5, <1>7 DEF NotAhead
  <1> QED
    BY <1>4, <1>7, <1>8, AfterCurrent

LEMMA ComputeEncryptedTallyCutLegal ==
    ASSUME CrashInv, NEW f \in ComputeEncryptedTallyCut
    PROVE  Legal(f)
  <1>1. Current \in Election /\ LogOK(Current.log)
    BY CurrentOK
  <1>2. /\ Keeps(Current.log, Tallied(Current.log))
        /\ Has(Tallied(Current.log), "EncryptedTally")
    BY <1>1, TalliedKeeps
  <1>3. Tallied(Current.log) \in Seq(Event)
    BY <1>2 DEF Keeps, LogOK
  <1>4. \/ f = [Current EXCEPT !.log = Tallied(@)]
        \/ f = [[Current EXCEPT !.log = Tallied(@)] EXCEPT !.audit = {}]
        \/ f = [[[Current EXCEPT !.log = Tallied(@)] EXCEPT !.audit = {}]
                    EXCEPT !.state = "Shuffling"]
    BY DEF ComputeEncryptedTallyCut
  <1> HIDE DEF Current
  <1>5. /\ f \in Election /\ f.log = Tallied(Current.log)
        /\ f.draft = Current.draft /\ f.state \in {Current.state, "Shuffling"}
    BY <1>1, <1>3, <1>4 DEF Election, States
  <1>6. f.state = "Shuffling" => NotAhead(f, hasNH)
    BY <1>2, <1>5 DEF NotAhead
  <1> QED
    BY <1>2, <1>5, <1>6, AfterCurrent

LEMMA PostShuffleLegal ==
    ASSUME CrashInv, NEW k \in el.token, NEW f,
           LET log == Append(Current.log, Shuffle(k.owner, NhCiphertexts(Current.log)))
           IN  \/ f = [Current EXCEPT !.log = log]
               \/ f = [Current EXCEPT !.log = log, !.token = {}]
               \/ f = [Current EXCEPT !.log = log, !.token = {}, !.audit = {}]
    PROVE  Legal(f)
  <1> DEFINE log == Append(Current.log, Shuffle(k.owner, NhCiphertexts(Current.log)))
  <1>1. Current \in Election /\ LogOK(Current.log)
    BY CurrentOK
  <1>2. k.owner \in Trustees
    BY DEF CrashInv, DirOK, Election, Token
  <1>3. Keeps(Current.log, log)
    BY <1>1, <1>2, ShuffleKeeps
  <1>4. log \in Seq(Event)
    BY <1>3 DEF Keeps, LogOK
  <1>5. \/ f = [Current EXCEPT !.log = log]
        \/ f = [Current EXCEPT !.log = log, !.token = {}]
        \/ f = [Current EXCEPT !.log = log, !.token = {}, !.audit = {}]
    OBVIOUS
  <1> HIDE DEF log, Current
  <1>6. /\ f \in Election /\ f.log = log /\ f.draft = Current.draft
        /\ f.state = Current.state
    BY <1>1, <1>4, <1>5 DEF Election
  <1> QED
    BY <1>3, <1>6, AfterCurrent

LEMMA FinishShufflingLegal ==
    ASSUME CrashInv, NEW f, Current.state = "Shuffling",
           LET log == Append(Current.log, EndShuffles)
           IN  \/ f = [Current EXCEPT !.log = log]
               \/ f = [Current EXCEPT !.log = log, !.tokens = FALSE,
                                      !.skipped = {}, !.token = {}]
               \/ f = [Current EXCEPT !.log = log, !.state = "EncryptedTally",
                                      !.tokens = FALSE, !.skipped = {}, !.token = {}]
    PROVE  Legal(f)
  <1> DEFINE log == Append(Current.log, EndShuffles)
  <1>1. /\ Current \in Election /\ LogOK(Current.log)
        /\ Has(Current.log, "EncryptedTally")
    BY CurrentOK DEF NotAhead
  <1>2. EndShuffles \in Event /\ EndShuffles.typ = "EndShuffles"
    BY EventConstructors DEF EndShuffles
  <1>3. Keeps(Current.log, log) /\ Has(log, "EndShuffles")
    BY <1>1, <1>2, PlainKeeps
  <1>4. log \in Seq(Event) /\ Has(log, "EncryptedTally")
    BY <1>1, <1>3 DEF Keeps, LogOK, Grows
  <1>5. \/ f = [Current EXCEPT !.log = log]
        \/ f = [Current EXCEPT !.log = log, !.tokens = FALSE,
                               !.skipped = {}, !.token = {}]
        \/ f = [Current EXCEPT !.log = log, !.state = "EncryptedTally",
                               !.tokens = FALSE, !.skipped = {}, !.token = {}]
    OBVIOUS
  <1> HIDE DEF log, Current
  <1>6. /\ f \in Election /\ f.log = log /\ f.draft = Current.draft
        /\ f.state \in {Current.state, "EncryptedTally"}
    <2>1. CASE f = [Current EXCEPT !.log = log]
      BY <1>1, <1>4, <2>1 DEF Election
    <2>2. CASE f = [Current EXCEPT !.log = log, !.tokens = FALSE,
                                   !.skipped = {}, !.token = {}]
      BY <1>1, <1>4, <2>2 DEF Election
    <2>3. CASE f = [Current EXCEPT !.log = log, !.state = "EncryptedTally",
                                   !.tokens = FALSE, !.skipped = {}, !.token = {}]
      BY <1>1, <1>4, <2>3 DEF Election, States
    <2> QED
      BY <1>5, <2>1, <2>2, <2>3
  <1>7. f.state = "EncryptedTally" => NotAhead(f, hasNH)
    BY <1>3, <1>4, <1>6 DEF NotAhead
  <1> QED
    BY <1>3, <1>6, <1>7, AfterCurrent

LEMMA GetPartialDecryptionsLegal ==
    ASSUME CrashInv, GetPartialDecryptions
    PROVE  Legal(el')
  <1>1. Current \in Election /\ LogOK(Current.log)
    BY CurrentOK
  <1>2. \/ el' = Current
        \/ el' = [Current EXCEPT !.tokens = TRUE, !.skipped = {}, !.token = {}]
    BY DEF GetPartialDecryptions, Becomes
  <1> HIDE DEF Current
  <1>3. /\ el' \in Election /\ el'.log = Current.log
        /\ el'.draft = Current.draft /\ el'.state = Current.state
    BY <1>1, <1>2 DEF Election
  <1> QED
    BY <1>1, <1>3, AfterCurrent, KeepsSame

LEMMA PostPartialDecryptionLegal ==
    ASSUME CrashInv, NEW t \in Trustees, PostPartialDecryption(t)
    PROVE  Legal(el')
  <1> DEFINE ev == PartialDecryption(t)
             log == Append(Current.log, ev)
  <1>1. Current \in Election /\ LogOK(Current.log)
    BY CurrentOK
  <1>2. ev \in Event /\ ev.typ = "PartialDecryption"
    BY EventConstructors DEF PartialDecryption
  <1>3. el' = [Current EXCEPT !.log = log]
    BY DEF PostPartialDecryption, Becomes
  <1> HIDE DEF ev, Current
  <1>4. Keeps(Current.log, log)
    BY <1>1, <1>2, PlainKeeps
  <1>5. log \in Seq(Event)
    BY <1>4 DEF Keeps, LogOK
  <1> HIDE DEF log
  <1>6. /\ el' \in Election /\ el'.log = log /\ el'.draft = Current.draft
        /\ el'.state = Current.state
    BY <1>1, <1>3, <1>5 DEF Election
  <1> QED
    BY <1>4, <1>6, AfterCurrent

LEMMA ReleaseTallyLegal ==
    ASSUME CrashInv, ReleaseTally
    PROVE  Legal(el')
  <1>1. /\ el \in Election /\ LogOK(el.log)
        /\ InPhaseOrder(el.log) => CanCount(el.log)
    BY DEF CrashInv, DirOK, ReleaseTally, CanRelease, CanCount
  <1> DEFINE e == Release(el)
  <1>2. /\ e \in Election /\ e.draft = el.draft /\ Keeps(el.log, e.log)
        /\ InPhaseOrder(e.log) => CanCount(e.log)
        /\ NotAhead(e, hasNH)
    BY <1>1, ReleaseKeeps
  <1>3. el' = e \/ el' = Release(e)
    BY DEF ReleaseTally, Becomes
  <1> HIDE DEF e
  <1>4. LogOK(e.log)
    BY <1>2 DEF Keeps
  <1>5. /\ Release(e) \in Election /\ Release(e).draft = e.draft
        /\ Keeps(e.log, Release(e).log)
        /\ NotAhead(Release(e), hasNH)
    BY <1>2, <1>4, ReleaseKeeps
  <1>6. Keeps(el.log, Release(e).log)
    BY <1>2, <1>5, KeepsTransitive
  <1> QED
    BY <1>2, <1>3, <1>5, <1>6, KeptIsLegal

LEMMA ReleaseCutLegal ==
    ASSUME CrashInv, NEW f \in ReleaseCut
    PROVE  Legal(f)
  <1>1. /\ el \in Election /\ LogOK(el.log) /\ NotAhead(el, hasNH)
        /\ InPhaseOrder(el.log) => CanCount(el.log)
    BY DEF CrashInv, DirOK, ReleaseCut, CanRelease, CanCount
  <1>2. Keeps(el.log, Released(el.log)) /\ Has(Released(el.log), "Result")
    BY <1>1, ReleasedKeeps
  <1>3. Released(el.log) \in Seq(Event)
    BY <1>2 DEF Keeps, LogOK
  <1> DEFINE log == Released(el.log)
  <1>4. /\ f \in Election /\ f.log = log /\ f.draft = el.draft
        /\ f.state \in {el.state, "Tallied"}
    <2>1. \/ f = [el EXCEPT !.log = log]
          \/ f = [[el EXCEPT !.log = log] EXCEPT !.audit = {}]
          \/ f = [[[el EXCEPT !.log = log] EXCEPT !.audit = {}]
                      EXCEPT !.state = "Tallied"]
      BY DEF ReleaseCut
    <2> HIDE DEF log
    <2>2. CASE f = [el EXCEPT !.log = log]
      BY <1>1, <1>3, <2>2 DEF Election, log
    <2>3. CASE f = [[el EXCEPT !.log = log] EXCEPT !.audit = {}]
      BY <1>1, <1>3, <2>3 DEF Election, log
    <2>4. CASE f = [[[el EXCEPT !.log = log] EXCEPT !.audit = {}]
                        EXCEPT !.state = "Tallied"]
      BY <1>1, <1>3, <2>4 DEF Election, States, log
    <2> QED
      BY <2>1, <2>2, <2>3, <2>4
  <1>5. f.state = "Tallied" => NotAhead(f, hasNH)
    BY <1>2, <1>4 DEF NotAhead
  <1>6. NotAhead(f, hasNH)
    BY <1>1, <1>2, <1>4, <1>5, NotAheadGrows DEF Keeps
  <1> QED
    BY <1>2, <1>4, <1>6, KeptIsLegal

(* A handler, or a part of one, that writes neither the archive nor the    *)
(* draft, and at most removes the state file.                              *)
LEMMA SameLogLegal ==
    ASSUME CrashInv, NEW f \in Election, f.log = el.log, f.draft = el.draft,
           f.state \in {el.state, "none"}
    PROVE  Legal(f)
  <1>1. LogOK(el.log) /\ NotAhead(el, hasNH)
    BY DEF CrashInv, DirOK
  <1>2. Keeps(el.log, f.log)
    BY <1>1, KeepsSame
  <1> QED
    BY <1>1, <1>2, NotAheadGrows, KeptIsLegal DEF Keeps

LEMMA SealCutLegal ==
    ASSUME CrashInv, NEW f \in SealCut
    PROVE  Legal(f)
  <1>1. el \in Election /\ el.seals + 1 \in Nat
    BY DEF CrashInv, DirOK, Election
  <1>2. f \in Election /\ f.log = el.log /\ f.draft = el.draft /\ f.state = el.state
    BY <1>1 DEF SealCut, Election
  <1> QED
    BY <1>2, SameLogLegal

LEMMA ArchiveCutLegal ==
    ASSUME CrashInv, NEW f \in ArchiveCut
    PROVE  Legal(f)
  <1>1. el \in Election
    BY DEF CrashInv, DirOK
  <1>2. PICK gone \in SUBSET {"state", "keys", "creds"} :
            f = [el EXCEPT !.tokens = FALSE,
                           !.state = IF "state" \in gone THEN "none" ELSE @,
                           !.keys = @ /\ "keys" \notin gone,
                           !.creds = @ /\ "creds" \notin gone]
    BY Zenon DEF ArchiveCut
  <1>3. /\ (el.keys /\ "keys" \notin gone) \in BOOLEAN
        /\ (el.creds /\ "creds" \notin gone) \in BOOLEAN
    OBVIOUS
  <1>4. /\ f \in Election /\ f.log = el.log /\ f.draft = el.draft
        /\ f.state \in {el.state, "none"}
    BY <1>1, <1>2, <1>3 DEF Election, States
  <1> QED
    BY <1>4, SameLogLegal

LEMMA SetStateCutLegal ==
    ASSUME CrashInv, NEW f \in SetStateCut
    PROVE  Legal(f)
  <1>1. Current \in Election
    BY CurrentOK
  <1>2. /\ Current.state \in {"Open", "Closed"}
        /\ \E state \in {"Open", "Closed"} : f = [Current EXCEPT !.state = state]
    BY DEF SetStateCut
  <1> HIDE DEF Current
  <1>3. /\ f \in Election /\ f.state \in {"Open", "Closed"}
        /\ f.draft = Current.draft /\ f.log = Current.log
    BY <1>1, <1>2 DEF Election, States
  <1> QED
    BY <1>2, <1>3, SetStateLegal

LEMMA EmptyLogOK == LogOK(<<>>)
  BY DEF LogOK, TallyMatches, ShufflesLinked, ResultStands, Has, Indices, Run

LEMMA DeleteLegal == Legal(NoElection)
  <1>1. NoElection \in Election
    <2>1. <<>> \in Seq(Event) /\ NoDate \in DateValues
      BY TimeAssumption
    <2> QED
      BY <2>1 DEF NoElection, ReadyDraft, Election, States
  <1>2. /\ NoElection.log = <<>> /\ NoElection.state = "none" /\ NoElection.deleted
    BY DEF NoElection, ReadyDraft
  <1> QED
    BY <1>1, <1>2, EmptyLogOK DEF Legal, DirOK, NotAhead

-----------------------------------------------------------------------------
(* The invariant, and what follows from it.                                *)

LEMMA NextLegal ==
    ASSUME CrashInv, Next
    PROVE  Legal(el') \/ UNCHANGED el
  <1>1. el \in Election
    BY DEF CrashInv, DirOK
  <1>2. CASE Tick
    BY <1>2 DEF Tick
  <1>3. CASE Visit
    BY <1>3, CurrentKeeps DEF Visit, Becomes
  <1>4. CASE Validate
    BY <1>4, ValidateLegal
  <1>5. ASSUME NEW state \in {"Open", "Closed"}, SetState(state)
        PROVE  Legal(el')
    <2>1. Current \in Election
      BY CurrentOK
    <2>2. /\ Current.state \in {"Open", "Closed"}
          /\ el' = [Current EXCEPT !.state = state, !.open = NoDate, !.close = NoDate]
      BY <1>5 DEF SetState, Becomes
    <2> HIDE DEF Current
    <2>3. /\ el' \in Election /\ el'.state \in {"Open", "Closed"}
          /\ el'.draft = Current.draft /\ el'.log = Current.log
      BY <2>1, <2>2, TimeAssumption DEF Election, States
    <2> QED
      BY <2>2, <2>3, SetStateLegal
  <1>6. CASE \E c \in Credentials, login \in {NoDate} \cup 0 .. now :
                 CastBallot(c, login)
    BY <1>6, CastBallotLegal
  <1>7. CASE ComputeEncryptedTally
    BY <1>7, ComputeEncryptedTallyLegal
  <1>8. CASE PostShuffle
    <2>1. PICK k \in el.token :
              el' = [Current EXCEPT
                  !.log = Append(@, Shuffle(k.owner, NhCiphertexts(@))),
                  !.token = {}, !.audit = {}]
      BY <1>8 DEF PostShuffle, Becomes
    <2> QED
      BY <2>1, PostShuffleLegal
  <1>9. CASE FinishShuffling
    BY <1>9, FinishShufflingLegal DEF FinishShuffling, Becomes
  <1>10. CASE GetPartialDecryptions
    BY <1>10, GetPartialDecryptionsLegal
  <1>11. CASE \E t \in Trustees \ {Server} : PostPartialDecryption(t)
    BY <1>11, PostPartialDecryptionLegal
  <1>12. CASE ReleaseTally
    BY <1>12, ReleaseTallyLegal
  <1>13. CASE Delete
    BY <1>13, DeleteLegal DEF Delete, Becomes
  <1>14. CASE \/ SetAutomaticDates
              \/ \E seal \in BOOLEAN : Seal(seal)
              \/ \E t \in Shufflers : SkipShuffler(t)
              \/ \E t \in Shufflers : SelectShuffler(t)
              \/ GetAuditCache
              \/ Archive
    <2>1. /\ el' \in Election /\ el'.log = el.log /\ el'.draft = el.draft
          /\ el'.state \in {el.state, "none"}
      BY <1>1, <1>14, OtherFields
    <2> QED
      BY <2>1, SameLogLegal
  <1> QED
    BY <1>2, <1>3, <1>4, <1>5, <1>6, <1>7, <1>8, <1>9, <1>10, <1>11, <1>12,
       <1>13, <1>14 DEF Next, Open, Close

LEMMA CrashLegal ==
    ASSUME CrashInv,
           \/ Crash(ValidateCut)
           \/ Crash(SetStateCut)
           \/ Crash(SealCut)
           \/ Crash(ComputeEncryptedTallyCut)
           \/ Crash(PostShuffleCut)
           \/ Crash(FinishShufflingCut)
           \/ Crash(ReleaseCut)
           \/ Crash(ArchiveCut)
    PROVE  Legal(el')
  <1>1. CASE Crash(ValidateCut)
    BY <1>1, ValidateCutLegal DEF Crash, Becomes
  <1>2. CASE Crash(SetStateCut)
    BY <1>2, SetStateCutLegal DEF Crash, Becomes
  <1>3. CASE Crash(SealCut)
    BY <1>3, SealCutLegal DEF Crash, Becomes
  <1>4. CASE Crash(ComputeEncryptedTallyCut)
    BY <1>4, ComputeEncryptedTallyCutLegal DEF Crash, Becomes
  <1>5. CASE Crash(PostShuffleCut)
    <2>1. el' \in PostShuffleCut
      BY <1>5 DEF Crash, Becomes
    <2>2. PICK k \in el.token :
              LET written == [Current EXCEPT
                                 !.log = Append(@, Shuffle(k.owner, NhCiphertexts(@)))]
              IN  el' \in {written, [written EXCEPT !.token = {}]}
      BY <2>1 DEF PostShuffleCut
    <2> QED
      BY <2>2, PostShuffleLegal
  <1>6. CASE Crash(FinishShufflingCut)
    <2>1. el' \in FinishShufflingCut
      BY <1>6 DEF Crash, Becomes
    <2>2. /\ Current.state = "Shuffling"
          /\ LET log == Append(Current.log, EndShuffles)
             IN  \/ el' = [Current EXCEPT !.log = log]
                 \/ el' = [Current EXCEPT !.log = log, !.tokens = FALSE,
                                          !.skipped = {}, !.token = {}]
      BY <2>1 DEF FinishShufflingCut
    <2> QED
      BY <2>2, FinishShufflingLegal
  <1>7. CASE Crash(ReleaseCut)
    BY <1>7, ReleaseCutLegal DEF Crash, Becomes
  <1>8. CASE Crash(ArchiveCut)
    BY <1>8, ArchiveCutLegal DEF Crash, Becomes
  <1> QED
    BY <1>1, <1>2, <1>3, <1>4, <1>5, <1>6, <1>7, <1>8

LEMMA StepLegal ==
    ASSUME CrashInv, [CrashNext /\ Len(el'.log) <= MaxLog]_crashVars
    PROVE  /\ Legal(el') \/ UNCHANGED el
           /\ now' \in Nat /\ UNCHANGED hasNH
  <1>1. Legal(el') \/ UNCHANGED el
    BY NextLegal, CrashLegal DEF CrashNext, crashVars
  <1>2. now' \in Nat /\ UNCHANGED hasNH
    <2>1. CASE UNCHANGED crashVars
      BY <2>1 DEF crashVars, CrashInv
    <2>2. CASE Tick
      BY <2>2 DEF Tick, CrashInv
    <2>3. ASSUME UNCHANGED <<now, hasNH>>
          PROVE  now' \in Nat /\ UNCHANGED hasNH
      BY <2>3 DEF CrashInv
    <2>4. CASE CrashNext /\ ~Tick
      <3>1. CASE Next
        BY <2>3, <2>4, <3>1
           DEF Next, Visit, Validate, Open, Close, SetState, SetAutomaticDates, Seal,
               CastBallot, ComputeEncryptedTally, SkipShuffler, SelectShuffler,
               PostShuffle, FinishShuffling, GetPartialDecryptions,
               PostPartialDecryption, ReleaseTally, GetAuditCache, Archive, Delete,
               Becomes
      <3>2. CASE ~Next
        BY <2>3, <2>4, <3>2 DEF CrashNext, Crash, Becomes
      <3> QED
        BY <3>1, <3>2
    <2> QED
      BY <2>1, <2>2, <2>4
  <1> QED
    BY <1>1, <1>2

LEMMA CrashInitInv == CrashInit => CrashInv
  <1> SUFFICES ASSUME Init, kills = 0 PROVE CrashInv
    BY DEF CrashInit
  <1>1. el \in Election /\ now \in Nat /\ hasNH \in BOOLEAN
    BY InitInv DEF Inv, ElectionInv
  <1>2. el.log = <<>> /\ el.state = "none"
    BY DEF Init, ReadyDraft
  <1> QED
    BY <1>1, <1>2, EmptyLogOK DEF CrashInv, DirOK, NotAhead

LEMMA CrashNextInv ==
    CrashInv /\ [CrashNext /\ Len(el'.log) <= MaxLog]_crashVars => CrashInv'
  <1> SUFFICES ASSUME CrashInv, [CrashNext /\ Len(el'.log) <= MaxLog]_crashVars
               PROVE  CrashInv'
    OBVIOUS
  <1>1. /\ Legal(el') \/ UNCHANGED el
        /\ now' \in Nat /\ UNCHANGED hasNH
    BY StepLegal
  <1>2. kills' \in Nat
    BY DEF CrashInv, CrashNext, Crash, crashVars
  <1> QED
    BY <1>1, <1>2 DEF Legal, CrashInv

(* Whatever is killed, the archive stays sound and the state file says no  *)
(* more than it.                                                           *)
THEOREM CrashInvariant == CrashSpec => []CrashInv
  BY CrashInitInv, CrashNextInv, PTL DEF CrashSpec

(* The directory has the contents the code's types allow after any kill,   *)
(* so the next handler reads files that it can parse.                      *)
THEOREM CrashTypeCorrect == CrashSpec => []TypeOK
  <1>1. CrashInv => TypeOK
    BY DEF CrashInv, DirOK, TypeOK
  <1> QED
    BY <1>1, CrashInvariant, PTL

(* The state file never announces what the archive does not hold: every    *)
(* handler appends to the archive before it writes the state.              *)
THEOREM StateNeverAhead == CrashSpec => []StateNeverAheadOfLog
  <1>1. CrashInv => StateNeverAheadOfLog
    BY DEF CrashInv, DirOK, NotAhead, StateNeverAheadOfLog, Contains, Has
  <1> QED
    BY <1>1, CrashInvariant, PTL

LEMMA OrderedPasses ==
    ASSUME NEW log, LogOK(log), InPhaseOrder(log)
    PROVE  VerifyArchive(log)
  <1>1. log \in Seq(Event) /\ ShufflesLinked(log) /\ ResultStands(log)
    BY DEF LogOK
  <1>2. ASSUME Root(log, "EncryptedTally") # {}
        PROVE  LatestTally(log) = TalliedBallots(log)
    <2>1. Has(log, "EncryptedTally")
      BY <1>2 DEF Root, Has
    <2>2. ASSUME NEW i \in Indices(log, "Ballot"), NEW j \in Root(log, "EncryptedTally")
          PROVE  i < j
      <3>1. /\ i \in DOMAIN log /\ i \in Int /\ log[i].typ = "Ballot"
            /\ j \in DOMAIN log /\ j \in Int /\ log[j].typ = "EncryptedTally"
        BY <1>1, <2>2, IndicesInLog DEF Root
      <3>2. ~(j < i)
        BY <3>1, RankValues DEF InPhaseOrder
      <3> QED
        BY <3>1, <3>2
    <2> QED
      BY <2>1, <2>2 DEF LogOK, TallyMatches, NoBallotSinceTally
  <1>3. ShufflesCheck(log)
    BY <1>1, RunIsAll DEF ShufflesLinked, PreviousShuffles, ShufflesCheck
  <1>4. ResultCheck(log)
    <2>1. Root(log, "Result") # {} => Has(log, "Result")
      BY DEF Root, Has
    <2> QED
      BY <1>1, <2>1 DEF ResultStands, CanCount, ResultCheck
  <1> QED
    BY <1>2, <1>3, <1>4 DEF VerifyArchive

(* Kills alone cannot make an archive that the verifier rejects: if the    *)
(* events follow the phases, tally, shuffles and result check.             *)
THEOREM OrderedArchivePasses == CrashSpec => []OrderedArchiveVerifies
  <1>1. CrashInv => OrderedArchiveVerifies
    BY OrderedPasses
       DEF CrashInv, DirOK, OrderedArchiveVerifies, PhaseOrder, ArchiveVerifies
  <1> QED
    BY <1>1, CrashInvariant, PTL

-----------------------------------------------------------------------------
(* Which elections can be used.                                            *)

(* The draft is still there, or not; a state file that was missing is.     *)
Remains(e, f) == f.draft = e.draft /\ (e.state = "none" => f.state = "none")

(* The automatic dates leave the draft alone and make no state.            *)
LEMMA CurrentRemains ==
    ASSUME el \in Election
    PROVE  Remains(el, Current)
  <1>1. CASE AutoRelease(el, now)
    BY <1>1 DEF AutoRelease, Current, Refresh, Release, Remains, Election
  <1>2. CASE ~AutoRelease(el, now)
    <2>1. Current = [el EXCEPT !.state = AutoClose(el, now)]
      BY <1>2 DEF Current, Refresh
    <2>2. el.state = "none" => AutoClose(el, now) = "none"
      BY DEF AutoClose, AutoOpen
    <2> QED
      BY <2>1, <2>2 DEF Remains, Election
  <1> QED
    BY <1>1, <1>2

(* So do all handlers but validation and deletion.                         *)
LEMMA NextRemains ==
    ASSUME CrashInv, Next
    PROVE  \/ Validate
           \/ el'.deleted /\ ~Usable(el')
           \/ Remains(el, el')
  <1>1. /\ el \in Election /\ Current \in Election
        /\ Remains(el, Current)
    BY CurrentOK, CurrentRemains DEF CrashInv, DirOK
  <1>2. CASE Tick
    BY <1>2 DEF Tick, Remains
  <1>3. CASE Visit
    BY <1>1, <1>3 DEF Visit, Becomes
  <1>4. ASSUME NEW state, SetState(state)
        PROVE  Remains(el, el')
    <2> HIDE DEF Current
    <2> QED
      BY <1>1, <1>4 DEF SetState, Becomes, Remains, Election
  <1>5. ASSUME NEW c \in Credentials, NEW login, CastBallot(c, login)
        PROVE  Remains(el, el')
    <2> HIDE DEF Current
    <2> QED
      BY <1>1, <1>5 DEF CastBallot, InGrace, Becomes, Remains, Election
  <1>6. CASE \/ ComputeEncryptedTally
             \/ PostShuffle
             \/ FinishShuffling
             \/ GetPartialDecryptions
             \/ \E t \in Trustees \ {Server} : PostPartialDecryption(t)
    <2> HIDE DEF Current
    <2> QED
      BY <1>1, <1>6 DEF ComputeEncryptedTally, PostShuffle, FinishShuffling,
         GetPartialDecryptions, PostPartialDecryption, Becomes, Remains, Election
  <1>7. CASE ReleaseTally
    BY <1>1, <1>7 DEF ReleaseTally, Release, Becomes, Remains, Election
  <1>8. CASE Delete
    BY <1>8 DEF Delete, Becomes, NoElection, ReadyDraft, Usable
  <1>9. CASE \/ SetAutomaticDates
             \/ \E seal \in BOOLEAN : Seal(seal)
             \/ \E t \in Shufflers : SkipShuffler(t)
             \/ \E t \in Shufflers : SelectShuffler(t)
             \/ GetAuditCache
             \/ Archive
    BY <1>1, <1>9, OtherFields DEF Remains
  <1> QED
    BY <1>2, <1>3, <1>4, <1>5, <1>6, <1>7, <1>8, <1>9 DEF Next, Open, Close

(* So does whatever a kill leaves of the handlers but validation.          *)
LEMMA CutRemains ==
    ASSUME CrashInv,
           NEW f \in SetStateCut \cup SealCut \cup ComputeEncryptedTallyCut
                        \cup PostShuffleCut \cup FinishShufflingCut
                        \cup ReleaseCut \cup ArchiveCut
    PROVE  Remains(el, f)
  <1>1. /\ el \in Election /\ Current \in Election
        /\ Remains(el, Current)
    BY CurrentOK, CurrentRemains DEF CrashInv, DirOK
  <1> HIDE DEF Current
  <1>2. CASE f \in SetStateCut
    BY <1>1, <1>2 DEF SetStateCut, Remains, Election
  <1>3. CASE f \in SealCut
    BY <1>1, <1>3 DEF SealCut, Remains, Election
  <1>4. CASE f \in ComputeEncryptedTallyCut
    BY <1>1, <1>4 DEF ComputeEncryptedTallyCut, Remains, Election
  <1>5. CASE f \in PostShuffleCut
    <2>1. PICK k \in el.token :
              LET written == [Current EXCEPT
                                 !.log = Append(@, Shuffle(k.owner, NhCiphertexts(@)))]
              IN  f \in {written, [written EXCEPT !.token = {}]}
      BY <1>5 DEF PostShuffleCut
    <2> QED
      BY <1>1, <2>1 DEF Remains, Election
  <1>6. CASE f \in FinishShufflingCut
    BY <1>1, <1>6 DEF FinishShufflingCut, Remains, Election
  <1>7. CASE f \in ReleaseCut
    BY <1>1, <1>7 DEF ReleaseCut, Remains, Election
  <1>8. CASE f \in ArchiveCut
    BY <1>1, <1>8 DEF ArchiveCut, Remains, Election
  <1> QED
    BY <1>2, <1>3, <1>4, <1>5, <1>6, <1>7, <1>8

(* A draft is given up only once the archive, the key and the credentials  *)
(* are there, and for an election that can be used unless the server was   *)
(* killed; what cannot be used, archived or lost in this way, stays so.    *)
THEOREM DraftEnds == CrashSpec => DraftGivenUp
  <1>1. ASSUME CrashInv, [CrashNext /\ Len(el'.log) <= MaxLog]_crashVars
        PROVE  /\ el.draft /\ ~el'.draft /\ ~el'.deleted =>
                      /\ Indices(el'.log, "Setup") # {} /\ el'.keys /\ el'.creds
                      /\ Usable(el') \/ kills' # kills
               /\ ~Usable(el) => ~Usable(el')
    <2>1. el.draft /\ ~el'.draft /\ ~el'.deleted =>
              Indices(el'.log, "Setup") # {} /\ el'.keys /\ el'.creds
      BY <1>1, StepLegal DEF Legal, Follows, Has
    <2>2. CASE UNCHANGED el
      BY <2>2
    <2>3. CASE Next
      <3>1. Validate => el.draft /\ Usable(el')
        BY <1>1 DEF Validate, Becomes, Usable, CrashInv, DirOK, Election
      <3> QED
        BY <1>1, <2>1, <2>3, <3>1, NextRemains DEF Remains, Usable
    <2>4. CASE \/ Crash(SetStateCut) \/ Crash(SealCut)
               \/ Crash(ComputeEncryptedTallyCut) \/ Crash(PostShuffleCut)
               \/ Crash(FinishShufflingCut) \/ Crash(ReleaseCut)
               \/ Crash(ArchiveCut)
      <3>1. el' \in SetStateCut \cup SealCut \cup ComputeEncryptedTallyCut
                        \cup PostShuffleCut \cup FinishShufflingCut
                        \cup ReleaseCut \cup ArchiveCut
        BY <2>4 DEF Crash, Becomes
      <3> QED
        BY <1>1, <3>1, CutRemains DEF Remains, Usable
    <2>5. CASE Crash(ValidateCut)
      <3>1. el.draft
        BY <2>5 DEF Crash, ValidateCut
      <3>2. kills' # kills
        BY <1>1, <2>5 DEF Crash, CrashInv
      <3> QED
        BY <2>1, <3>1, <3>2 DEF Usable
    <2> QED
      BY <1>1, <2>2, <2>3, <2>4, <2>5 DEF CrashNext, crashVars
  <1> QED
    BY <1>1, CrashInvariant, PTL DEF CrashSpec, DraftGivenUp

(* A tally that a kill makes the server compute again counts the same      *)
(* ballots, unless one was accepted in between.                            *)
THEOREM RepeatedTallyIsSame == CrashSpec => RepeatedTallyAgrees
  <1>1. ASSUME CrashInv, [CrashNext /\ Len(el'.log) <= MaxLog]_crashVars,
               Root(el.log, "EncryptedTally") # {},
               NoBallotSinceTally(el.log), NoBallotSinceTally(el'.log),
               ~el'.deleted
        PROVE  LatestTally(el'.log) = LatestTally(el.log)
    <2>1. Has(el.log, "EncryptedTally")
      BY <1>1 DEF Root, Has
    <2>2. CASE UNCHANGED el
      BY <2>2
    <2>3. CASE ~UNCHANGED el
      <3>1. Follows(el, el') /\ LogOK(el'.log) /\ LogOK(el.log)
        BY <1>1, <2>3, StepLegal DEF Legal, DirOK, CrashInv
      <3>2. TalliedBallots(el'.log) = TalliedBallots(el.log)
        BY <1>1, <2>1, <3>1 DEF Follows
      <3>3. Has(el'.log, "EncryptedTally")
        BY <2>1, <3>1 DEF Follows, Grows
      <3> QED
        BY <1>1, <2>1, <3>1, <3>2, <3>3 DEF LogOK, TallyMatches
    <2> QED
      BY <2>2, <2>3
  <1> QED
    BY <1>1, CrashInvariant, PTL DEF CrashSpec, RepeatedTallyAgrees
=============================================================================
