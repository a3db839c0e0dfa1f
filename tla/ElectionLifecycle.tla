------------------------- MODULE ElectionLifecycle -------------------------
(***************************************************************************)
(* One election of a Belenios server, from draft to deletion.              *)
(*                                                                         *)
(* The server keeps an election in a directory of files: the draft, the    *)
(* state, the dates, the metadata, the private key, the credentials, the   *)
(* audit cache, and the public archive, whose events form the log of the   *)
(* election (src/src/web/server/filesystem/main.ml).  A handler holds the  *)
(* election's lock until its transaction ends (see StorageLocks), so here  *)
(* a handler is one atomic action; ElectionCrash cuts them.                *)
(*                                                                         *)
(* A handler that needs the state calls update_election_state, which first *)
(* writes the transitions that the dates have made due (Refresh).  A       *)
(* handler that is then refused has only refreshed: that step is Visit.    *)
(***************************************************************************)
EXTENDS Integers, Sequences, FiniteSets

CONSTANTS
    Credentials,    \* the public credentials of the voters
    Trustees,       \* the names in e_trustees, the server among them
    Server,         \* "server", the trustee whose key is on the server
    Threshold,      \* partial decryptions needed from the other trustees
    Pedersen,       \* is the key shared among the other trustees?
    Shufflers,      \* trustees the administrator skips or selects
    NoDate,         \* an absent date
    DateValues,     \* the dates an administrator may set
    Grace,          \* e_date_grace_period
    MaxTime, MaxBallots, MaxShuffles, MaxSeals      \* bounds on counters

ASSUME TrusteesAssumption ==
    /\ Server \in Trustees
    /\ Shufflers \subseteq Trustees
    /\ IsFiniteSet(Trustees)
    /\ Threshold \in 0 .. Cardinality(Trustees \ {Server})
    /\ Pedersen \in BOOLEAN
    /\ ~Pedersen => Threshold = Cardinality(Trustees \ {Server})

ASSUME TimeAssumption ==
    /\ NoDate \notin Nat
    /\ NoDate \in DateValues
    /\ DateValues \subseteq Nat \cup {NoDate}
    /\ Grace \in Nat

ASSUME BoundsAssumption ==
    {MaxTime, MaxBallots, MaxShuffles, MaxSeals} \subseteq Nat

VARIABLES
    now,            \* the server's clock
    hasNH,          \* has the election non-homomorphic questions?
    el              \* the election's directory

vars == <<now, hasNH, el>>

-----------------------------------------------------------------------------
(* Events of the public archive.                                           *)

NoPayload == {}

(* A payload is what the properties need to know of the data it hashes:    *)
(* the credential of a ballot; the log positions of the ballots that a     *)
(* tally or a result counts; who shuffled or decrypted, and which position *)
(* holds the ciphertexts that a shuffle permutes.                          *)
Event ==
    [typ : {"Setup", "EndBallots", "EndShuffles"}, payload : {NoPayload}]
        \cup [typ : {"Ballot"}, payload : Credentials]
        \cup [typ : {"EncryptedTally", "Result"}, payload : SUBSET Nat]
        \cup [typ : {"Shuffle"}, payload : [owner : Trustees, input : SUBSET Nat]]
        \cup [typ : {"PartialDecryption"}, payload : Trustees]

Setup == [typ |-> "Setup", payload |-> NoPayload]
EndBallots == [typ |-> "EndBallots", payload |-> NoPayload]
EndShuffles == [typ |-> "EndShuffles", payload |-> NoPayload]
Ballot(c) == [typ |-> "Ballot", payload |-> c]
EncryptedTally(ballots) == [typ |-> "EncryptedTally", payload |-> ballots]
Shuffle(t, i) == [typ |-> "Shuffle", payload |-> [owner |-> t, input |-> i]]
PartialDecryption(t) == [typ |-> "PartialDecryption", payload |-> t]
Result(ballots) == [typ |-> "Result", payload |-> ballots]

Indices(log, typ) == {i \in DOMAIN log : log[i].typ = typ}

(* The root that the index keeps for an event type: its latest event, if   *)
(* any.  Here and below an option is a set with at most one element.       *)
Root(log, typ) ==
    {i \in Indices(log, typ) : \A j \in Indices(log, typ) : j <= i}

(* Mutant of Run: the fold starts at the last event, whatever its type.    *)
RunFromTheEnd(log, typ) ==
    {i \in Indices(log, typ) : \A k \in i .. Len(log) : log[k].typ = typ}

(* What a fold from that root visits: it follows the parents and stops at  *)
(* the first event of another type.                                        *)
Run(log, typ) ==
    {i \in Indices(log, typ) :
        \A j, k \in DOMAIN log :
            i < j /\ j <= k /\ log[k].typ = typ => log[j].typ = typ}

(* Mutant of TalliedBallots: the first ballot of a credential wins.        *)
FirstBallots(log) ==
    {i \in Run(log, "Ballot") :
        \A j \in Run(log, "Ballot") :
            j < i => log[j].payload # log[i].payload}

(* The ballots a tally counts: the latest of each credential in the run.   *)
TalliedBallots(log) ==
    {i \in Run(log, "Ballot") :
        \A j \in Run(log, "Ballot") :
            j > i => log[j].payload # log[i].payload}

(* Mutant of NhCiphertexts: every shuffle permutes the encrypted tally.    *)
UnmixedCiphertexts(log) == Root(log, "EncryptedTally")

(* Where the ciphertexts that the next shuffle permutes are found.         *)
NhCiphertexts(log) ==
    IF Root(log, "Shuffle") # {} THEN Root(log, "Shuffle")
                                 ELSE Root(log, "EncryptedTally")

(* The ballots that the latest encrypted tally counts.                     *)
LatestTally(log) == UNION {log[i].payload : i \in Root(log, "EncryptedTally")}

(* Mutant of Decrypted: only the latest partial decryption is looked at.   *)
LatestDecrypted(log) == {log[i].payload : i \in Root(log, "PartialDecryption")}

(* The trustees whose partial decryptions the server finds.                *)
Decrypted(log) == {log[i].payload : i \in Run(log, "PartialDecryption")}

-----------------------------------------------------------------------------
(* The election's directory.  "none" is the absence of the state file,     *)
(* which the server reads as Draft while the draft exists and as Archived  *)
(* when it does not.                                                       *)

States == {"none", "Open", "Closed", "Shuffling", "EncryptedTally", "Tallied"}

(* The secret link sent to a shuffler, and who its shuffle is recorded for. *)
Token == [trustee : Shufflers, owner : Trustees]

(* What the audit cache was computed from: log positions, and the length   *)
(* of the sealing log.                                                     *)
Audit == [tally : SUBSET Nat, shuffles : SUBSET Nat, final : SUBSET Nat,
          seals : Nat]

Election ==
    [draft : BOOLEAN, state : States, log : Seq(Event), deleted : BOOLEAN,
     open : DateValues, close : DateValues, publish : DateValues,
     sealed : BOOLEAN, seals : Nat, keys : BOOLEAN, creds : BOOLEAN,
     tokens : BOOLEAN, skipped : SUBSET Shufflers, token : SUBSET Token,
     audit : SUBSET Audit]

(* A draft whose voters, credentials and trustees are ready.               *)
ReadyDraft(open, close, publish) ==
    [draft |-> TRUE, state |-> "none", log |-> <<>>, deleted |-> FALSE,
     open |-> open, close |-> close, publish |-> publish,
     sealed |-> FALSE, seals |-> 0, keys |-> FALSE, creds |-> TRUE,
     tokens |-> FALSE, skipped |-> {}, token |-> {}, audit |-> {}]

(* The directory after the election is deleted.                            *)
NoElection ==
    [ReadyDraft(NoDate, NoDate, NoDate)
        EXCEPT !.draft = FALSE, !.creds = FALSE, !.deleted = TRUE]

Past(date, t) == date # NoDate /\ date < t

-----------------------------------------------------------------------------
(* internal_release_tally.                                                 *)

(* Every trustee but the server has posted a partial decryption.           *)
AllDecrypted(e) == Trustees \ {Server} \subseteq Decrypted(e.log)

(* Mutant of CanRelease: one partial decryption too few is enough.         *)
CanReleaseEarly(e) ==
    /\ e.keys \/ Server \in Decrypted(e.log)
    /\ Cardinality(Decrypted(e.log) \ {Server}) >= Threshold - 1

(* compute_result finds what it needs; the server adds its own share.      *)
CanRelease(e) ==
    /\ e.keys \/ Server \in Decrypted(e.log)
    /\ Cardinality(Decrypted(e.log) \ {Server}) >= Threshold

(* The log after a release: the server's share if it is not there yet, and *)
(* the result of the latest encrypted tally.                               *)
WithServerShare(log) ==
    IF Server \in Decrypted(log) THEN log
                                 ELSE Append(log, PartialDecryption(Server))

Released(log) == Append(WithServerShare(log), Result(LatestTally(log)))

(* Mutant of Release: the audit cache survives the release.                *)
ReleaseKeepingCache(e) ==
    [e EXCEPT !.log = Released(@), !.state = "Tallied",
              !.tokens = FALSE, !.skipped = {}, !.token = {}]

Release(e) ==
    [e EXCEPT !.log = Released(@), !.audit = {},
              !.state = "Tallied",
              !.tokens = FALSE, !.skipped = {}, !.token = {}]

(* Mutants of AutoRelease: it does not wait for the publication date, or   *)
(* it waits for one even if there is none.                                 *)
AutoReleaseAtOnce(e, t) ==
    /\ e.state = "EncryptedTally"
    /\ AllDecrypted(e)
    /\ CanRelease(e)

AutoReleaseDated(e, t) ==
    /\ e.state = "EncryptedTally"
    /\ Past(e.publish, t)
    /\ AllDecrypted(e)
    /\ CanRelease(e)

(* raw_get_election_state: a due release, then a due opening, then a due   *)
(* closing.  A release that fails is ignored and retried at the next call. *)
AutoRelease(e, t) ==
    /\ e.state = "EncryptedTally"
    /\ e.publish = NoDate \/ Past(e.publish, t)
    /\ AllDecrypted(e)
    /\ CanRelease(e)

(* Mutant of AutoOpen: the opening date opens in any state.                *)
AutoReopen(e, t) == IF Past(e.open, t) THEN "Open" ELSE e.state

AutoOpen(e, t) ==
    IF e.state = "Closed" /\ Past(e.open, t) THEN "Open" ELSE e.state

AutoClose(e, t) ==
    IF AutoOpen(e, t) = "Open" /\ Past(e.close, t)
    THEN "Closed" ELSE AutoOpen(e, t)

Refresh(e, t) ==
    IF AutoRelease(e, t) THEN Release(e)
                         ELSE [e EXCEPT !.state = AutoClose(e, t)]

-----------------------------------------------------------------------------
(* What each handler does to the directory, once it is allowed to.         *)

Init ==
    /\ now = 0
    /\ hasNH \in BOOLEAN
    /\ \E open, close, publish \in DateValues :
           el = ReadyDraft(open, close, publish)

(* The clock.                                                              *)
Tick ==
    /\ now < MaxTime
    /\ now' = now + 1
    /\ UNCHANGED <<hasNH, el>>

(* Every other action leaves the clock alone, and an election keeps its    *)
(* questions.                                                              *)
Becomes(e) == el' = e /\ UNCHANGED <<now, hasNH>>

(* The directory that a handler finds after update_election_state.         *)
Current == Refresh(el, now)

(* GET of the election's status, and every request refused for its state.  *)
Visit ==
    /\ ~el.deleted
    /\ Becomes(Current)

(* validate_election: the draft becomes a closed election, whose archive   *)
(* starts with a Setup event.                                              *)
Validate ==
    /\ el.draft
    /\ el.creds
    /\ Becomes([el EXCEPT !.draft = FALSE, !.state = "Closed",
                          !.log = Append(@, Setup), !.keys = TRUE])

(* Mutant of SetState: a sealed election is opened and closed as well.     *)
SetStateSealed(state) ==
    /\ Current.state \in {"Open", "Closed"}
    /\ Becomes([Current EXCEPT !.state = state,
                               !.open = NoDate, !.close = NoDate])

(* set_election_state: an unsealed election is opened or closed by hand,   *)
(* and both automatic dates are forgotten.                                 *)
SetState(state) ==
    /\ ~el.sealed
    /\ Current.state \in {"Open", "Closed"}
    /\ Becomes([Current EXCEPT !.state = state,
                               !.open = NoDate, !.close = NoDate])

Open == SetState("Open")
Close == SetState("Closed")

(* PUT of the automatic dates, of a draft too; the state is not read.      *)
SetAutomaticDates ==
    /\ ~el.deleted
    /\ ~el.sealed
    /\ \E open, close, publish \in DateValues :
           Becomes([el EXCEPT !.open = open, !.close = close,
                              !.publish = publish])

(* Mutant of Seal: unsealing takes the line of the sealing away.           *)
SealTakenBack(seal) ==
    /\ el.log # <<>>
    /\ el.seals < MaxSeals
    /\ Becomes([el EXCEPT !.sealed = seal, !.audit = {},
                          !.seals = IF seal THEN @ + 1 ELSE @ - 1])

(* seal_election: one more line in the sealing log, and the audit cache,   *)
(* which holds the hash of this log, is dropped.                           *)
Seal(seal) ==
    /\ el.log # <<>>
    /\ el.seals < MaxSeals
    /\ Becomes([el EXCEPT !.sealed = seal, !.seals = @ + 1, !.audit = {}])

(* Mutant of InGrace: the grace period runs in any state.                  *)
InGraceAnyState(e, login) ==
    /\ e.close # NoDate
    /\ login # NoDate
    /\ login <= e.close
    /\ now - login <= Grace

(* cast_ballot: a ballot is taken while the election is open, or within    *)
(* the grace period from a voter who logged in before the closing date.    *)
(* Only a login made after the ballot was sent has a timestamp.            *)
InGrace(e, login) ==
    /\ e.state = "Closed"
    /\ e.close # NoDate
    /\ login # NoDate
    /\ login <= e.close
    /\ now - login <= Grace

CastBallot(c, login) ==
    /\ Current.state = "Open" \/ InGrace(Current, login)
    /\ Cardinality(Indices(el.log, "Ballot")) < MaxBallots
    /\ Becomes([Current EXCEPT !.log = Append(@, Ballot(c))])

(* compute_encrypted_tally; with non-homomorphic questions the server then *)
(* shuffles at once.                                                       *)
Tallied(log) ==
    Append(Append(log, EndBallots), EncryptedTally(TalliedBallots(log)))

(* Mutant of ServerShuffled: the server leaves the ciphertexts unmixed.    *)
NotShuffled(log) == log

ServerShuffled(log) == Append(log, Shuffle(Server, NhCiphertexts(log)))

ComputeEncryptedTally ==
    /\ Current.state = "Closed"
    /\ Becomes(IF hasNH
               THEN [Current EXCEPT !.log = ServerShuffled(Tallied(@)),
                                    !.audit = {}, !.state = "Shuffling"]
               ELSE [Current EXCEPT !.log = Tallied(@),
                                    !.audit = {}, !.state = "EncryptedTally"])

(* The shuffler's files as State_state shows them: only while shuffling,   *)
(* whatever was written before.                                            *)
SkippedNow == IF el.state = "Shuffling" THEN el.skipped ELSE {}

(* skip_shuffler.  The election's state is not checked: outside shuffling  *)
(* it succeeds unless decryption tokens are there to be seen.              *)
SkipShuffler(t) ==
    /\ ~el.deleted
    /\ el.state = "EncryptedTally" => ~el.tokens
    /\ el.state = "Shuffling" => \A k \in el.token : k.trustee = t
    /\ t \notin SkippedNow
    /\ Becomes([el EXCEPT !.skipped = SkippedNow \cup {t}, !.token = {},
                          !.tokens = FALSE])

(* select_shuffler, which does not check the state either: it revokes the  *)
(* decryption tokens if there are any.  Before validation the trustees are *)
(* not in the metadata and the token is recorded for trustee 1.            *)
SelectShuffler(t) ==
    /\ ~el.deleted
    /\ LET owner == IF el.log = <<>> THEN Server ELSE t
       IN  Becomes([el EXCEPT !.skipped = SkippedNow, !.tokens = FALSE,
                              !.token = {[trustee |-> t, owner |-> owner]}])

(* post_shuffle, by the holder of the current token.                       *)
PostShuffle ==
    /\ Current.state = "Shuffling"
    /\ Cardinality(Indices(el.log, "Shuffle")) < MaxShuffles
    /\ \E k \in el.token :
           Becomes([Current EXCEPT
               !.log = Append(@, Shuffle(k.owner, NhCiphertexts(@))),
               !.token = {}, !.audit = {}])

FinishShuffling ==
    /\ Current.state = "Shuffling"
    /\ Becomes([Current EXCEPT !.log = Append(@, EndShuffles),
                               !.state = "EncryptedTally",
                               !.tokens = FALSE, !.skipped = {}, !.token = {}])

(* get_partial_decryptions: with a shared key, the links of the trustees   *)
(* carry tokens, made at the first request.                                *)
GetPartialDecryptions ==
    /\ Current.state = "EncryptedTally"
    /\ Becomes(IF Pedersen /\ ~el.tokens
               THEN [Current EXCEPT !.tokens = TRUE, !.skipped = {}, !.token = {}]
               ELSE Current)

(* post_partial_decryption, by the holder of trustee t's private key.      *)
PostPartialDecryption(t) ==
    /\ Current.state = "EncryptedTally"
    /\ t \notin Decrypted(Current.log)
    /\ Becomes([Current EXCEPT !.log = Append(@, PartialDecryption(t))])

(* release_tally.  When the release was due anyway, update_election_state  *)
(* performs it and then runs the handler's own code inside the same        *)
(* exception handler: the code refuses the new state, its exception is     *)
(* taken for a failure of the automatic release, and it runs again with    *)
(* the state read before, which forces a second release.                   *)
ReleaseTally ==
    /\ el.state = "EncryptedTally"
    /\ CanRelease(el)
    /\ Becomes(IF AutoRelease(el, now) THEN Release(Release(el))
                                       ELSE Release(el))

(* get_audit_cache.                                                        *)
AuditCache(e) ==
    [tally |-> Root(e.log, "EncryptedTally"),
     shuffles |-> Run(e.log, "Shuffle"),
     final |-> IF Root(e.log, "Result") = {} THEN {} ELSE {Len(e.log)},
     seals |-> e.seals]

GetAuditCache ==
    /\ el.log # <<>>
    /\ el.audit = {}
    /\ Becomes([el EXCEPT !.audit = {AuditCache(el)}])

(* archive_election, of a draft too: the sensitive files go, in any state. *)
Archive ==
    /\ ~el.deleted
    /\ Becomes([el EXCEPT !.state = "none", !.keys = FALSE, !.creds = FALSE,
                          !.tokens = FALSE])

(* delete_election.                                                        *)
Delete ==
    /\ ~el.deleted
    /\ Becomes(NoElection)

Next ==
    \/ Tick
    \/ Visit
    \/ Validate
    \/ Open
    \/ Close
    \/ SetAutomaticDates
    \/ \E seal \in BOOLEAN : Seal(seal)
    \/ \E c \in Credentials, login \in {NoDate} \cup 0 .. now : CastBallot(c, login)
    \/ ComputeEncryptedTally
    \/ \E t \in Shufflers : SkipShuffler(t)
    \/ \E t \in Shufflers : SelectShuffler(t)
    \/ PostShuffle
    \/ FinishShuffling
    \/ GetPartialDecryptions
    \/ \E t \in Trustees \ {Server} : PostPartialDecryption(t)
    \/ ReleaseTally
    \/ GetAuditCache
    \/ Archive
    \/ Delete

(* Time passes; and the page of an election that is there is visited again *)
(* and again, which is what the server relies on to apply its dates.       *)
Fairness == WF_vars(Tick) /\ WF_vars(Visit)

Spec == Init /\ [][Next]_vars

FairSpec == Spec /\ Fairness

-----------------------------------------------------------------------------
(* Type correctness of the directory.                                      *)
TypeOK ==
    /\ now \in Nat
    /\ hasNH \in BOOLEAN
    /\ el \in Election

(* The order of the phases in the table of doc/specification.tex.          *)
Rank(typ) ==
    CASE typ = "Setup" -> 0
      [] typ = "Ballot" -> 1
      [] typ = "EndBallots" -> 2
      [] typ = "EncryptedTally" -> 3
      [] typ = "Shuffle" -> 4
      [] typ = "EndShuffles" -> 5
      [] typ = "PartialDecryption" -> 6
      [] typ = "Result" -> 7

(* The events follow the phases: no ballot comes after the end of ballots, *)
(* no shuffle after the end of shuffles, no share after the result, in any *)
(* interleaving of handlers with automatic openings, closings, releases.   *)
InPhaseOrder(log) ==
    \A i, j \in DOMAIN log : i < j => Rank(log[i].typ) <= Rank(log[j].typ)

PhaseOrder == InPhaseOrder(el.log)

(* The ballots that a voter may expect to be counted: the last of each     *)
(* credential among all the accepted ones.                                 *)
LastBallots(log) ==
    {i \in Indices(log, "Ballot") :
        \A j \in Indices(log, "Ballot") :
            j > i => log[j].payload # log[i].payload}

(* Every tally and every result counts exactly the last ballot of each     *)
(* voter: the fold that stops at the first event that is not a ballot has  *)
(* missed none, and none was accepted after the tally was computed.        *)
CountsLastBallots(log) ==
    \A i \in DOMAIN log :
        log[i].typ \in {"EncryptedTally", "Result"} =>
            log[i].payload = LastBallots(log)

TallyComplete == CountsLastBallots(el.log)

(* No trustee, the server included, has two shares in the log: the release *)
(* takes the shares found by a fold, and post_partial_decryption looks for *)
(* an earlier share with the same fold.                                    *)
OneShareEach(log) ==
    \A i, j \in Indices(log, "PartialDecryption") :
        log[i].payload = log[j].payload => i = j

OneDecryptionPerTrustee == OneShareEach(el.log)

(* The server never writes what leaves the election unable to go on: an    *)
(* election waiting for its result has a tally, the server's key and, with *)
(* non-homomorphic questions, ciphertexts mixed at least once; a tallied   *)
(* one has a result; one that takes ballots has none of these.             *)
StateAgreesWithLog ==
    LET typ(i) == el.log[i].typ
        has(t) == \E i \in DOMAIN el.log : typ(i) = t
    IN  /\ el.state \in {"Open", "Closed"} =>
               has("Setup") /\ ~has("EndBallots")
        /\ el.state = "Shuffling" => has("Shuffle") /\ ~has("EndShuffles")
        /\ el.state = "EncryptedTally" =>
               /\ has("EncryptedTally")
               /\ ~has("Result")
               /\ el.keys
               /\ hasNH => has("Shuffle") /\ has("EndShuffles")
        /\ el.state = "Tallied" => has("Result")

(* The archive passes the checks of the verifier (the command verify of    *)
(* belenios-tool), which recomputes tally, shuffles and result from the    *)
(* events by the same folds.                                               *)
ShufflesCheck(log) ==
    \A i \in Run(log, "Shuffle") :
        LET previous == {j \in Run(log, "Shuffle") : j < i}
        IN  log[i].payload.input =
                IF previous = {} THEN Root(log, "EncryptedTally")
                ELSE {j \in previous : \A k \in previous : k <= j}

ResultCheck(log) ==
    Root(log, "Result") # {} =>
        /\ Server \in Decrypted(log)
        /\ Cardinality(Decrypted(log) \ {Server}) >= Threshold
        /\ \A i \in Root(log, "Result") : log[i].payload = LatestTally(log)

VerifyArchive(log) ==
    /\ Root(log, "EncryptedTally") # {} => LatestTally(log) = TalliedBallots(log)
    /\ ShufflesCheck(log)
    /\ ResultCheck(log)

ArchiveVerifies == VerifyArchive(el.log)

(* The audit cache that the server serves is what it would compute now:    *)
(* every handler that changes what it is computed from drops it.           *)
AuditCacheFresh == el.audit \subseteq {AuditCache(el)}

(* No result is published before the publication date, whoever visits the  *)
(* page and whatever the trustees have done, unless the administrator asks *)
(* for the release.                                                        *)
NoResultBeforePublication ==
    [][ /\ Indices(el.log, "Result") # Indices(el'.log, "Result")
        /\ ~ReleaseTally
        => \/ el'.deleted
           \/ el.publish = NoDate
           \/ Past(el.publish, now) ]_vars

(* While an election is sealed its dates stay, and it opens or closes only *)
(* because one of these dates has passed.                                  *)
SealedMeansFrozen ==
    [][ el.sealed /\ el'.sealed =>
        /\ <<el.open, el.close, el.publish>> = <<el'.open, el'.close, el'.publish>>
        /\ el.state = "Closed" /\ el'.state = "Open" => Past(el.open, now)
        /\ el.state = "Open" /\ el'.state = "Closed" => Past(el.close, now) ]_vars

(* Once all the trustees have done their part, the result comes out, or    *)
(* the election is archived: it cannot wait for ever.                      *)
ResultComesOut ==
    el.state = "EncryptedTally" /\ AllDecrypted(el)
        ~> el.state # "EncryptedTally"

(* Said of the archive by doc/specification.tex: it stops evolving when    *)
(* the election is tallied.  The code may write a second result.           *)
ResultIsLast ==
    \A i \in Indices(el.log, "Result") : i = Len(el.log)
=============================================================================
