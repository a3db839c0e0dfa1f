--------------------------- MODULE ElectionCrash ---------------------------
(***************************************************************************)
(* ElectionLifecycle with a server that may be killed inside a handler.    *)
(*                                                                         *)
(* A transaction only holds locks: nothing is rolled back, so the files a  *)
(* handler has written before the kill stay, and those it had still to     *)
(* write keep their old contents.  One write is atomic (write to a         *)
(* temporary file and rename; an append counts once Last_event is written, *)
(* see main.ml raw_append).  An operator named after a handler is here the *)
(* set of directories that a kill inside that handler can leave; a kill    *)
(* after update_election_state alone leaves what Visit leaves.             *)
(***************************************************************************)
EXTENDS ElectionLifecycle

CONSTANTS MaxKills, MaxLog      \* bounds: kills, and length of the log

ASSUME CrashAssumption == {MaxKills, MaxLog} \subseteq Nat

VARIABLE kills      \* how many times the server has been killed

crashVars == <<now, hasNH, el, kills>>

(* Mutant of ValidateCut: the draft is deleted first.                      *)
ValidateCutDraftFirst ==
    LET gone == [el EXCEPT !.draft = FALSE]
    IN  IF el.draft /\ el.creds
        THEN {gone, [gone EXCEPT !.log = Append(@, Setup)]}
        ELSE {}

(* validate_election_exn: the archive, the key, the draft, the state.      *)
ValidateCut ==
    LET written == [el EXCEPT !.log = Append(@, Setup)]
        keyed == [written EXCEPT !.keys = TRUE]
    IN  IF el.draft /\ el.creds
        THEN {written, keyed, [keyed EXCEPT !.draft = FALSE]}
        ELSE {}

(* set_election_state: the state, then the dates.                          *)
SetStateCut ==
    {[Current EXCEPT !.state = state] :
        state \in IF ~el.sealed /\ Current.state \in {"Open", "Closed"}
                  THEN {"Open", "Closed"} ELSE {}}

(* seal_election: the sealing log, the audit cache, the metadata.          *)
SealCut ==
    LET written == [el EXCEPT !.seals = @ + 1]
    IN  IF el.log # <<>> /\ el.seals < MaxSeals
        THEN {written, [written EXCEPT !.audit = {}]}
        ELSE {}

(* Mutant of ComputeEncryptedTallyCut: the state is written first.         *)
ComputeEncryptedTallyCutStateFirst ==
    IF Current.state = "Closed"
    THEN {[Current EXCEPT !.state = IF hasNH THEN "Shuffling" ELSE "EncryptedTally"]}
    ELSE {}

(* compute_encrypted_tally: the archive, the audit cache, the state; with  *)
(* non-homomorphic questions the server's shuffle comes after the state.   *)
ComputeEncryptedTallyCut ==
    LET written == [Current EXCEPT !.log = Tallied(@)]
        dropped == [written EXCEPT !.audit = {}]
    IN  IF Current.state = "Closed"
        THEN {written, dropped}
                 \cup IF hasNH THEN {[dropped EXCEPT !.state = "Shuffling"]}
                               ELSE {}
        ELSE {}

(* post_shuffle: the archive, the shuffler's token, the audit cache.       *)
PostShuffleCut ==
    LET written(k) == [Current EXCEPT
                          !.log = Append(@, Shuffle(k.owner, NhCiphertexts(@)))]
    IN  IF /\ Current.state = "Shuffling"
           /\ Cardinality(Indices(el.log, "Shuffle")) < MaxShuffles
        THEN UNION {{written(k), [written(k) EXCEPT !.token = {}]} : k \in el.token}
        ELSE {}

(* finish_shuffling: the archive, the shufflers' files, the state.         *)
FinishShufflingCut ==
    LET written == [Current EXCEPT !.log = Append(@, EndShuffles)]
    IN  IF Current.state = "Shuffling"
        THEN {written, [written EXCEPT !.tokens = FALSE, !.skipped = {},
                                       !.token = {}]}
        ELSE {}

(* Mutant of ReleaseCut: the result is appended before the server's share. *)
ReleaseCutResultFirst ==
    IF el.state = "EncryptedTally" /\ CanRelease(el)
    THEN {[el EXCEPT !.log = Append(@, Result(LatestTally(@)))]}
    ELSE {}

(* internal_release_tally, automatic or forced: the archive, the audit     *)
(* cache, the state, the files of the trustees.                            *)
ReleaseCut ==
    LET written == [el EXCEPT !.log = Released(@)]
        dropped == [written EXCEPT !.audit = {}]
    IN  IF el.state = "EncryptedTally" /\ CanRelease(el)
        THEN {written, dropped, [dropped EXCEPT !.state = "Tallied"]}
        ELSE {}

(* delete_sensitive_data, of an archiving or at the start of a deletion:   *)
(* the tokens, then the state, the key and the credentials in parallel.    *)
ArchiveCut ==
    {[el EXCEPT !.tokens = FALSE,
                !.state = IF "state" \in gone THEN "none" ELSE @,
                !.keys = @ /\ "keys" \notin gone,
                !.creds = @ /\ "creds" \notin gone] :
        gone \in IF el.deleted THEN {} ELSE SUBSET {"state", "keys", "creds"}}

(* The server is killed, and started again.                                *)
Crash(cut) ==
    /\ kills < MaxKills
    /\ kills' = kills + 1
    /\ \E e \in cut : Becomes(e)

CrashInit == Init /\ kills = 0

CrashNext ==
    \/ Next /\ UNCHANGED kills
    \/ Crash(ValidateCut)
    \/ Crash(SetStateCut)
    \/ Crash(SealCut)
    \/ Crash(ComputeEncryptedTallyCut)
    \/ Crash(PostShuffleCut)
    \/ Crash(FinishShufflingCut)
    \/ Crash(ReleaseCut)
    \/ Crash(ArchiveCut)

(* A kill inside a tally or a release lets it be done again: MaxLog bounds *)
(* the log that this makes.                                                *)
CrashSpec == CrashInit /\ [][CrashNext /\ Len(el'.log) <= MaxLog]_crashVars

-----------------------------------------------------------------------------
Contains(typ) == Indices(el.log, typ) # {}

(* Whatever is killed, the state file never announces what the archive     *)
(* does not hold: each handler appends first and writes the state last.    *)
StateNeverAheadOfLog ==
    /\ el.state \in {"Open", "Closed"} => Contains("Setup")
    /\ el.state = "Shuffling" => Contains("EncryptedTally")
    /\ el.state = "EncryptedTally" =>
           /\ Contains("EncryptedTally")
           /\ hasNH => Contains("EndShuffles")
    /\ el.state = "Tallied" => Contains("Result")

(* Neither draft nor state: the server reads the election as archived.     *)
Usable(e) == e.draft \/ e.state # "none"

(* A draft is given up only for an election with its archive, its key and  *)
(* its credentials, and the election can be used -- unless                 *)
(* validate_election was killed after it deleted the draft and before it   *)
(* wrote the state, which come in that order.  The election then reads as  *)
(* archived, although nobody has archived it, and for ever: nothing that   *)
(* the server does makes an election usable again.                         *)
DraftGivenUp ==
    [][ /\ el.draft /\ ~el'.draft /\ ~el'.deleted =>
            /\ Indices(el'.log, "Setup") # {} /\ el'.keys /\ el'.creds
            /\ Usable(el') \/ kills' # kills
        /\ ~Usable(el) => ~Usable(el') ]_crashVars

(* A tally that is done again after a kill counts the same ballots, unless *)
(* a ballot has been accepted in between.                                  *)
NoBallotSinceTally(log) ==
    \A i \in Indices(log, "Ballot"), j \in Root(log, "EncryptedTally") : i < j

RepeatedTallyAgrees ==
    [][ /\ Root(el.log, "EncryptedTally") # {}
        /\ NoBallotSinceTally(el.log)
        /\ NoBallotSinceTally(el'.log)
        /\ ~el'.deleted
        => LatestTally(el'.log) = LatestTally(el.log) ]_crashVars

(* Kills cannot by themselves make an archive that the verifier rejects:   *)
(* as long as the events follow the phases, it verifies.                   *)
OrderedArchiveVerifies == PhaseOrder => ArchiveVerifies

(* Said by doc/specification.tex of the tallied ballots: they are the last *)
(* of each credential among all the ballots accepted before the tally.     *)
(* After a kill inside compute_encrypted_tally the election can be open    *)
(* again, and the next tally misses the ballots of before the kill.        *)
AllBallotsTallied ==
    \A i \in Indices(el.log, "EncryptedTally") :
        el.log[i].payload = LastBallots(SubSeq(el.log, 1, i))
=============================================================================
