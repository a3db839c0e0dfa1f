------------------------------ MODULE Casting ------------------------------
(***************************************************************************)
(* The ballots of an open election on the server.  A ballot is checked in  *)
(* one request (precast_ballot) and waits in a session while its voter     *)
(* logs in; it is accepted in another (cast_ballot), by which time the     *)
(* credential may have voted.  The files of credential mappings and of     *)
(* voting records are appended to, cached, and rewritten by deferred       *)
(* tasks.  Handlers and tasks hold the lock of the election from their     *)
(* first access to their end (StorageLocks), so each is one step.          *)
(*                                                                         *)
(* A file is what a reader makes of its lines: the last line of a key      *)
(* counts.  A line is written whole or not at all, and a rewritten file    *)
(* replaces the old one by a rename.  The weight of a voter is that of     *)
(* their credential (submit_public_credentials), and whether voting is     *)
(* open is left to ElectionLifecycle.                                      *)
(***************************************************************************)
EXTENDS Naturals, Sequences, FiniteSets

CONSTANTS
    Credentials,
    Users,
    Ballots,
    CredOf,         \* rc_credential of each ballot
    Owner,          \* cr_username of each credential
    None,
    MaxSessions,    \* bound: sessions at a time
    MaxFaults       \* bound: casts that are interrupted

ASSUME CastingAssumption ==
    /\ CredOf \in [Ballots -> Credentials]
    /\ Owner \in [Credentials -> Users]
    /\ \A c, d \in Credentials : Owner[c] = Owner[d] => c = d
    /\ None \notin Ballots \cup Users \cup Credentials
                   \cup [Credentials -> Ballots \cup {None}]
                   \cup [Users -> Credentials \cup {None}]

VARIABLES
    denyRevote,     \* Web_config.deny_revote
    archive,        \* the Ballot events, with what the session of each had seen
    sessions,       \* auth_env: [ballot, seen, user]
    mappingFile, mappingCache,  \* credential_mappings: the ballot of a credential
    recordFile, recordCache,    \* extended_records: the credential of a voter
    listed,         \* records: the voters said to have voted
    deferred,       \* the files to be rewritten
    lost,           \* credentials of casts that were interrupted
    faults

disk == <<archive, mappingFile, recordFile, listed>>
memory == <<sessions, mappingCache, recordCache, deferred>>
vars == <<denyRevote, disk, memory, lost, faults>>

Init ==
    /\ denyRevote \in BOOLEAN
    /\ archive = <<>>
    /\ sessions = {}
    /\ mappingFile = [c \in Credentials |-> None]
    /\ mappingCache = mappingFile
    /\ recordFile = [u \in Users |-> None]
    /\ recordCache = None
    /\ listed = {}
    /\ deferred = {}
    /\ lost = {} /\ faults = 0

(* What the caches answer; they read the file when they are empty.         *)
Mapping == IF mappingCache = None THEN mappingFile ELSE mappingCache
Record == IF recordCache = None THEN recordFile ELSE recordCache

InArchive(b) == \E i \in DOMAIN archive : archive[i].ballot = b

-----------------------------------------------------------------------------
(* Checking a ballot, and logging in                                       *)

(* Mutant of Precast: a ballot already in the archive is let in again.     *)
PrecastAgain(b) ==
    /\ Cardinality(sessions) < MaxSessions
    /\ sessions' = sessions \cup
            {[ballot |-> b, seen |-> Mapping[CredOf[b]], user |-> None]}
    /\ mappingCache' = Mapping
    /\ UNCHANGED <<denyRevote, disk, recordCache, deferred, lost, faults>>

Precast(b) ==
    /\ ~InArchive(b)
    /\ Cardinality(sessions) < MaxSessions
    /\ sessions' = sessions \cup
            {[ballot |-> b, seen |-> Mapping[CredOf[b]], user |-> None]}
    /\ mappingCache' = Mapping
    /\ UNCHANGED <<denyRevote, disk, recordCache, deferred, lost, faults>>

(* run_post_login_handler; one may log in again.                           *)
Login(s, u) ==
    /\ s \in sessions
    /\ sessions' = (sessions \ {s}) \cup {[s EXCEPT !.user = u]}
    /\ UNCHANGED <<denyRevote, disk, mappingCache, recordCache, deferred, lost,
                   faults>>

(* The session of a ballot stays when the ballot is cast, and the page     *)
(* that casts it may be visited again; it ends with its timeout.           *)
Timeout(s) ==
    /\ s \in sessions
    /\ sessions' = sessions \ {s}
    /\ UNCHANGED <<denyRevote, disk, mappingCache, recordCache, deferred, lost,
                   faults>>

-----------------------------------------------------------------------------
(* Casting                                                                 *)

(* Mutant of Acceptable: the ballot of the credential is not looked at     *)
(* again.                                                                  *)
AcceptableUnread(s) ==
    /\ s.user = Owner[CredOf[s.ballot]]
    /\ s.seen # None => ~denyRevote

(* The voter owns the credential, and its ballot is still the one seen.    *)
Acceptable(s) ==
    /\ s.user = Owner[CredOf[s.ballot]]
    /\ Mapping[CredOf[s.ballot]] = s.seen
    /\ s.seen # None => ~denyRevote

(* add_ballot, then add_credential_mapping and add_extended_record, which  *)
(* change the cache and then the file.                                     *)
AddBallot(s) == archive' = Append(archive, s)
CacheMapping(s) == mappingCache' = [Mapping EXCEPT ![CredOf[s.ballot]] = s.ballot]
WriteMapping(s) == mappingFile' = [mappingFile EXCEPT ![CredOf[s.ballot]] = s.ballot]
CacheRecord(s) == recordCache' = [Record EXCEPT ![s.user] = CredOf[s.ballot]]
WriteRecord(s) == recordFile' = [recordFile EXCEPT ![s.user] = CredOf[s.ballot]]

(* Mutant of Accept: the cache of the mappings stays.                      *)
AcceptUncached(s) ==
    /\ Acceptable(s)
    /\ AddBallot(s) /\ WriteMapping(s) /\ CacheRecord(s) /\ WriteRecord(s)
    /\ mappingCache' = Mapping
    /\ deferred' = {"mappings", "records"}
    /\ UNCHANGED <<denyRevote, sessions, listed, lost, faults>>

Accept(s) ==
    /\ Acceptable(s)
    /\ AddBallot(s)
    /\ CacheMapping(s) /\ WriteMapping(s)
    /\ CacheRecord(s) /\ WriteRecord(s)
    /\ deferred' = {"mappings", "records"}
    /\ UNCHANGED <<denyRevote, sessions, listed, lost, faults>>

(* The page election_cast_confirm.                                         *)
Cast(s) == s \in sessions /\ Accept(s)

(* With a token, a ballot is checked and cast in one request.              *)
CastAtOnce(b, u) ==
    /\ ~InArchive(b)
    /\ Accept([ballot |-> b, seen |-> Mapping[CredOf[b]], user |-> u])

-----------------------------------------------------------------------------
(* Faults                                                                  *)

Interrupted(s) ==
    /\ s \in sessions /\ Acceptable(s)
    /\ faults < MaxFaults
    /\ faults' = faults + 1
    /\ lost' = lost \cup {CredOf[s.ballot]}
    /\ AddBallot(s)
    /\ UNCHANGED <<denyRevote, listed>>

(* The write to one of the two files fails: the cache is changed, and the  *)
(* rest of the handler is not done.  A CastAtOnce that fails leaves the    *)
(* same, but for the session.                                              *)
CastFails(s) ==
    /\ Interrupted(s)
    /\ CacheMapping(s)
    /\ \/ UNCHANGED <<mappingFile, recordCache, deferred>>
       \/ WriteMapping(s) /\ CacheRecord(s) /\ deferred' = deferred \cup {"mappings"}
    /\ UNCHANGED <<recordFile, sessions>>

(* Memory is lost when the server is killed and restarted.                 *)
Forget ==
    sessions' = {} /\ mappingCache' = None /\ recordCache' = None /\ deferred' = {}

CastKilled(s) ==
    /\ Interrupted(s)
    /\ Forget
    /\ UNCHANGED mappingFile \/ WriteMapping(s)
    /\ UNCHANGED recordFile

(* Between the rewriting of the two files of records, or outside of any    *)
(* handler.                                                                *)
Kill ==
    /\ Forget
    /\ \/ UNCHANGED recordFile
       \/ "records" \in deferred /\ recordFile' = Record
    /\ UNCHANGED <<denyRevote, archive, mappingFile, listed, lost, faults>>

-----------------------------------------------------------------------------
(* Caches                                                                  *)

RewriteMappings ==
    /\ "mappings" \in deferred
    /\ deferred' = deferred \ {"mappings"}
    /\ mappingCache' = Mapping
    /\ mappingFile' = Mapping
    /\ UNCHANGED <<denyRevote, archive, sessions, recordFile, recordCache, listed,
                   lost, faults>>

RewriteRecords ==
    /\ "records" \in deferred
    /\ deferred' = deferred \ {"records"}
    /\ recordCache' = Record
    /\ recordFile' = Record
    /\ listed' = {u \in Users : Record[u] # None}
    /\ UNCHANGED <<denyRevote, archive, sessions, mappingFile, mappingCache, lost,
                   faults>>

(* The timer of a cache, or its limit on the number of elections.          *)
Expire ==
    /\ \/ mappingCache' = None /\ UNCHANGED recordCache
       \/ recordCache' = None /\ UNCHANGED mappingCache
    /\ UNCHANGED <<denyRevote, disk, sessions, deferred, lost, faults>>

Next ==
    \/ \E b \in Ballots : Precast(b)
    \/ \E s \in sessions, u \in Users : Login(s, u)
    \/ \E s \in sessions : Timeout(s)
    \/ \E s \in sessions : Cast(s)
    \/ \E b \in Ballots, u \in Users : CastAtOnce(b, u)
    \/ \E s \in sessions : CastFails(s)
    \/ \E s \in sessions : CastKilled(s)
    \/ Kill
    \/ RewriteMappings
    \/ RewriteRecords
    \/ Expire

Spec == Init /\ [][Next]_vars

-----------------------------------------------------------------------------
(* Properties                                                              *)

Sessions ==
    [ballot : Ballots, seen : Ballots \cup {None}, user : Users \cup {None}]

(* The files and caches of an election are of these shapes (main.ml).      *)
TypeOK ==
    /\ denyRevote \in BOOLEAN
    /\ archive \in Seq(Sessions) /\ sessions \subseteq Sessions
    /\ mappingFile \in [Credentials -> Ballots \cup {None}]
    /\ mappingCache \in [Credentials -> Ballots \cup {None}] \cup {None}
    /\ recordFile \in [Users -> Credentials \cup {None}]
    /\ recordCache \in [Users -> Credentials \cup {None}] \cup {None}
    /\ listed \subseteq Users /\ deferred \subseteq {"mappings", "records"}
    /\ lost \subseteq Credentials /\ faults \in Nat

(* b is the last ballot of c among the first n of the archive.             *)
IsLast(n, c, b) ==
    \/ /\ b = None
       /\ \A i \in 1..n : CredOf[archive[i].ballot] # c
    \/ \E i \in 1..n :
        /\ archive[i].ballot = b /\ CredOf[b] = c
        /\ \A j \in i + 1..n : CredOf[archive[j].ballot] # c

(* A ballot replaces the ballot its session had seen when it was checked,  *)
(* and no other, whatever was cast between the two requests and however    *)
(* often caches expired and the server restarted, unless a cast of the     *)
(* same credential was interrupted; where revotes are denied it replaces   *)
(* none (do_cast_ballot).                                                  *)
ReplacesWhatWasSeen ==
    \A i \in DOMAIN archive :
        LET c == CredOf[archive[i].ballot]
        IN c \notin lost =>
            /\ IsLast(i - 1, c, archive[i].seen)
            /\ denyRevote => archive[i].seen = None

(* Nor is a ballot twice in the archive, although it can be checked twice  *)
(* before it is cast, and its page visited again (precast_ballot looks for *)
(* it in the archive, do_cast_ballot does not).                            *)
NoBallotTwice ==
    \A i, j \in DOMAIN archive :
        archive[i].ballot = archive[j].ballot =>
            i = j \/ CredOf[archive[i].ballot] \in lost

(* What is read back, from the caches or from the files after a restart,   *)
(* is what was cast: the ballot of each credential, and the credential of  *)
(* each voter (raw_get_credential_mappings, raw_get_extended_records).     *)
ReadBackAsCast ==
    \A c \in Credentials \ lost :
        /\ IsLast(Len(archive), c, Mapping[c])
        /\ IsLast(Len(archive), c, mappingFile[c])
        /\ LET voted == IF Mapping[c] = None THEN None ELSE c
           IN Record[Owner[c]] = voted /\ recordFile[Owner[c]] = voted
=============================================================================
