--------------------------- MODULE CastingProofs ---------------------------
(***************************************************************************)
(* That a ballot replaces the one its session had seen, that no ballot is  *)
(* in the archive twice, and that what was cast is read back, for any      *)
(* credentials, ballots, sessions and faults.                              *)
(***************************************************************************)
EXTENDS Casting, TLAPS

(* The credentials whose casts were never interrupted.                     *)
Whole == Credentials \ lost

(* The caches agree with the files, and the files with the archive.        *)
MappingsCurrent ==
    \A c \in Whole :
        /\ IsLast(Len(archive), c, mappingFile[c])
        /\ mappingCache # None => mappingCache[c] = mappingFile[c]

RecordsCurrent ==
    \A c \in Whole :
        /\ recordFile[Owner[c]] = IF mappingFile[c] = None THEN None ELSE c
        /\ recordCache # None => recordCache[Owner[c]] = recordFile[Owner[c]]

(* What a session has seen was cast before its own ballot was.             *)
SeenWasCast ==
    \A s \in sessions : CredOf[s.ballot] \in Whole /\ s.seen # None =>
        /\ InArchive(s.seen)
        /\ \A i \in DOMAIN archive : archive[i].ballot = s.ballot =>
                \E k \in 1..i - 1 : archive[k].ballot = s.seen

Inv ==
    /\ TypeOK
    /\ MappingsCurrent
    /\ RecordsCurrent
    /\ SeenWasCast
    /\ ReplacesWhatWasSeen
    /\ NoBallotTwice

-----------------------------------------------------------------------------
(* Ballots and credentials                                                 *)

LEMMA NoneIsNothing ==
    /\ None \notin Ballots /\ None \notin Users /\ None \notin Credentials
    /\ None \notin [Credentials -> Ballots \cup {None}]
    /\ None \notin [Users -> Credentials \cup {None}]
    /\ \A b \in Ballots : CredOf[b] \in Credentials
    /\ \A c \in Credentials : Owner[c] \in Users
BY CastingAssumption

LEMMA CachesTyped ==
    ASSUME TypeOK
    PROVE  /\ Mapping \in [Credentials -> Ballots \cup {None}]
           /\ Record \in [Users -> Credentials \cup {None}]
BY DEF TypeOK, Mapping, Record

LEMMA AcceptableTyped ==
    ASSUME NEW s \in Sessions, Acceptable(s)
    PROVE  /\ CredOf[s.ballot] \in Credentials /\ s.ballot \in Ballots
           /\ s.user = Owner[CredOf[s.ballot]] /\ s.user \in Users
           /\ s.seen = Mapping[CredOf[s.ballot]]
BY NoneIsNothing DEF Sessions, Acceptable

(* The archive grows by one.                                               *)
LEMMA Grown ==
    ASSUME TypeOK, NEW s \in Sessions, AddBallot(s)
    PROVE  /\ archive' \in Seq(Sessions)
           /\ Len(archive) \in Nat
           /\ DOMAIN archive = 1..Len(archive)
           /\ DOMAIN archive' = 1..Len(archive) + 1
           /\ Len(archive') = Len(archive) + 1
           /\ \A i \in 1..Len(archive) : archive'[i] = archive[i]
           /\ archive'[Len(archive) + 1] = s
BY DEF TypeOK, AddBallot

LEMMA LastUnchanged ==
    ASSUME TypeOK, NEW s \in Sessions, AddBallot(s),
           NEW n \in 0..Len(archive), NEW c, NEW b, IsLast(n, c, b)
    PROVE  IsLast(n, c, b)'
BY Grown DEF IsLast

LEMMA LastOfOthers ==
    ASSUME TypeOK, NEW s \in Sessions, AddBallot(s),
           NEW c, NEW b, CredOf[s.ballot] # c, IsLast(Len(archive), c, b)
    PROVE  IsLast(Len(archive), c, b)'
<1>1. /\ Len(archive) \in Nat /\ Len(archive') = Len(archive) + 1
      /\ \A i \in 1..Len(archive) : archive'[i] = archive[i]
      /\ archive'[Len(archive) + 1] = s
  BY Grown
<1>2. CASE /\ b = None
           /\ \A i \in 1..Len(archive) : CredOf[archive[i].ballot] # c
  <2>1. \A i \in 1..Len(archive') : CredOf[archive'[i].ballot] # c
    BY <1>1, <1>2
  <2> QED BY <1>2, <2>1 DEF IsLast
<1>3. CASE \E i \in 1..Len(archive) :
            /\ archive[i].ballot = b /\ CredOf[b] = c
            /\ \A j \in i + 1..Len(archive) : CredOf[archive[j].ballot] # c
  <2>1. PICK i \in 1..Len(archive) :
            /\ archive[i].ballot = b /\ CredOf[b] = c
            /\ \A j \in i + 1..Len(archive) : CredOf[archive[j].ballot] # c
    BY <1>3
  <2>2. i \in 1..Len(archive') /\ archive'[i].ballot = b
    BY <1>1, <2>1
  <2>3. \A j \in i + 1..Len(archive') : CredOf[archive'[j].ballot] # c
    BY <1>1, <2>1
  <2> QED BY <2>1, <2>2, <2>3 DEF IsLast
<1> QED BY <1>2, <1>3 DEF IsLast

LEMMA LastIsNew ==
    ASSUME TypeOK, NEW s \in Sessions, AddBallot(s)
    PROVE  IsLast(Len(archive), CredOf[s.ballot], s.ballot)'
BY Grown DEF IsLast

-----------------------------------------------------------------------------
(* What an accepted ballot, whole or interrupted, does to the archive      *)

LEMMA ArchiveKept ==
    ASSUME Inv, NEW s \in Sessions, Acceptable(s), AddBallot(s),
           lost \subseteq lost', UNCHANGED denyRevote,
           \/ s \in sessions
           \/ ~InArchive(s.ballot)
    PROVE  /\ ReplacesWhatWasSeen'
           /\ NoBallotTwice'
<1> DEFINE n == Len(archive)
           cred == CredOf[s.ballot]
<1>1. /\ n \in Nat /\ DOMAIN archive = 1..n /\ DOMAIN archive' = 1..n + 1
      /\ \A i \in 1..n : archive'[i] = archive[i]
      /\ archive'[n + 1] = s
  BY Grown DEF Inv
<1>2. /\ cred \in Credentials /\ s.ballot \in Ballots
      /\ s.seen = Mapping[cred]
  BY AcceptableTyped
<1>3. cred \notin lost => IsLast(n, cred, s.seen)
  BY <1>2 DEF Inv, MappingsCurrent, Whole, Mapping
<1>4. ReplacesWhatWasSeen'
  <2> SUFFICES ASSUME NEW i \in DOMAIN archive',
                      CredOf[archive'[i].ballot] \notin lost'
               PROVE  /\ IsLast(i - 1, CredOf[archive[i].ballot], archive[i].seen)'
                      /\ denyRevote' => archive'[i].seen = None
    BY DEF ReplacesWhatWasSeen
  <2>1. CASE i \in 1..n
    <3>1. /\ IsLast(i - 1, CredOf[archive[i].ballot], archive[i].seen)
          /\ denyRevote => archive[i].seen = None
      BY <1>1, <2>1 DEF Inv, ReplacesWhatWasSeen
    <3>2. i - 1 \in 0..n
      BY <1>1, <2>1
    <3>3. IsLast(i - 1, CredOf[archive[i].ballot], archive[i].seen)'
      BY <1>1, <2>1, <3>1, <3>2 DEF IsLast
    <3> QED BY <1>1, <2>1, <3>1, <3>3
  <2>2. CASE i = n + 1
    <3>1. i - 1 \in 0..n /\ IsLast(i - 1, cred, s.seen)
      BY <1>1, <1>3, <2>2
    <3>2. IsLast(i - 1, cred, s.seen)'
      BY <3>1, LastUnchanged DEF Inv
    <3>3. archive'[i] = s
      BY <1>1, <2>2
    <3>4. IsLast(i - 1, CredOf[archive[i].ballot], archive[i].seen)'
      BY <3>2, <3>3
    <3>5. denyRevote => s.seen = None
      BY DEF Acceptable
    <3> QED BY <3>3, <3>4, <3>5
  <2> QED BY <1>1, <2>1, <2>2
<1>5. cred \notin lost => ~InArchive(s.ballot)
  <2> SUFFICES ASSUME cred \notin lost, s \in sessions,
                      NEW i \in 1..n, archive[i].ballot = s.ballot
               PROVE  FALSE
    BY <1>1 DEF InArchive
  <2>1. PICK m \in 1..n : /\ archive[m].ballot = s.seen /\ CredOf[s.seen] = cred
                          /\ \A j \in m + 1..n : CredOf[archive[j].ballot] # cred
    BY <1>3 DEF IsLast
  <2>2. s.seen # None
    <3>1. archive[m] \in Sessions
      BY <1>1, <2>1 DEF Inv, TypeOK
    <3> QED BY <2>1, <3>1, NoneIsNothing DEF Sessions
  <2>3. PICK k \in 1..i - 1 : archive[k].ballot = s.seen
    BY <1>1, <1>2, <2>2 DEF Inv, SeenWasCast, Whole
  <2>4. i <= m
    BY <2>1, <1>1
  <2>5. k \in 1..n /\ k # m
    BY <1>1, <2>3, <2>4
  <2> QED BY <1>1, <2>1, <2>3, <2>5 DEF Inv, NoBallotTwice
<1>6. NoBallotTwice'
  BY <1>1, <1>5 DEF Inv, NoBallotTwice, InArchive
<1> QED BY <1>4, <1>6

LEMMA SessionsKept ==
    ASSUME Inv, NEW s \in Sessions, AddBallot(s),
           lost \subseteq lost', lost' \subseteq Credentials, sessions' \subseteq sessions
    PROVE  SeenWasCast'
<1>1. /\ Len(archive) \in Nat /\ DOMAIN archive = 1..Len(archive)
      /\ DOMAIN archive' = 1..Len(archive) + 1
      /\ \A i \in 1..Len(archive) : archive'[i] = archive[i]
  BY Grown DEF Inv
<1> SUFFICES ASSUME NEW t \in sessions', CredOf[t.ballot] \in Whole', t.seen # None
             PROVE  /\ InArchive(t.seen)'
                    /\ \A i \in DOMAIN archive' : archive'[i].ballot = t.ballot =>
                            \E k \in 1..i - 1 : archive'[k].ballot = t.seen
  BY DEF SeenWasCast
<1>2. /\ InArchive(t.seen)
      /\ \A i \in DOMAIN archive : archive[i].ballot = t.ballot =>
                            \E k \in 1..i - 1 : archive[k].ballot = t.seen
  BY DEF Inv, SeenWasCast, Whole
<1>3. PICK m \in 1..Len(archive) : archive[m].ballot = t.seen
  BY <1>1, <1>2 DEF InArchive
<1>4. InArchive(t.seen)'
  BY <1>1, <1>3 DEF InArchive
<1>5. ASSUME NEW i \in 1..Len(archive), archive'[i].ballot = t.ballot
      PROVE  \E k \in 1..i - 1 : archive'[k].ballot = t.seen
  <2>1. PICK k \in 1..i - 1 : archive[k].ballot = t.seen
    BY <1>1, <1>2, <1>5
  <2> QED BY <1>1, <2>1
<1>6. \E k \in 1..(Len(archive) + 1) - 1 : archive'[k].ballot = t.seen
  BY <1>1, <1>3
<1> QED BY <1>1, <1>4, <1>5, <1>6

(* The files and caches after a ballot of a credential that stays whole;   *)
(* those of the other credentials have not changed.                        *)
LEMMA FilesKept ==
    ASSUME Inv, NEW s \in Sessions, Acceptable(s), AddBallot(s),
           lost \subseteq lost', lost' \subseteq Credentials,
           \A c \in Whole' : c # CredOf[s.ballot] =>
                /\ mappingFile'[c] = mappingFile[c]
                /\ mappingCache' # None => mappingCache'[c] = Mapping[c]
                /\ recordFile'[Owner[c]] = recordFile[Owner[c]]
                /\ recordCache' # None => recordCache'[Owner[c]] = Record[Owner[c]],
           CredOf[s.ballot] \in Whole' =>
                /\ mappingFile'[CredOf[s.ballot]] = s.ballot
                /\ mappingCache' # None => mappingCache'[CredOf[s.ballot]] = s.ballot
                /\ recordFile'[s.user] = CredOf[s.ballot]
                /\ recordCache' # None => recordCache'[s.user] = CredOf[s.ballot]
    PROVE  MappingsCurrent' /\ RecordsCurrent'
<1> DEFINE cred == CredOf[s.ballot]
<1>1. TypeOK
  BY DEF Inv
<1>2. /\ cred \in Credentials /\ s.ballot \in Ballots /\ s.ballot # None
      /\ s.user = Owner[cred]
  BY AcceptableTyped, NoneIsNothing
<1>3. ASSUME NEW c \in Whole', c # cred
      PROVE  /\ IsLast(Len(archive), c, mappingFile[c])'
             /\ mappingCache' # None => mappingCache'[c] = mappingFile'[c]
             /\ recordFile'[Owner[c]] = IF mappingFile'[c] = None THEN None ELSE c
             /\ recordCache' # None => recordCache'[Owner[c]] = recordFile'[Owner[c]]
  <2>1. c \in Whole
    BY DEF Whole
  <2>2. /\ IsLast(Len(archive), c, mappingFile[c])
        /\ Mapping[c] = mappingFile[c]
        /\ recordFile[Owner[c]] = IF mappingFile[c] = None THEN None ELSE c
        /\ Record[Owner[c]] = recordFile[Owner[c]]
    BY <2>1 DEF Inv, MappingsCurrent, RecordsCurrent, Mapping, Record
  <2>3. PICK b : b = mappingFile[c]
    OBVIOUS
  <2>4. IsLast(Len(archive), c, b)'
    BY <1>1, <1>3, <2>2, <2>3, LastOfOthers
  <2> QED BY <1>3, <2>2, <2>3, <2>4
<1>4. ASSUME cred \in Whole'
      PROVE  /\ IsLast(Len(archive), cred, mappingFile[cred])'
             /\ mappingCache' # None => mappingCache'[cred] = mappingFile'[cred]
             /\ recordFile'[Owner[cred]] = IF mappingFile'[cred] = None THEN None ELSE cred
             /\ recordCache' # None => recordCache'[Owner[cred]] = recordFile'[Owner[cred]]
  <2>1. IsLast(Len(archive), cred, s.ballot)'
    BY <1>1, LastIsNew
  <2> QED BY <1>2, <1>4, <2>1
<1> QED BY <1>3, <1>4 DEF MappingsCurrent, RecordsCurrent

(* Nothing is cast, and no cache or file changes for a whole credential.   *)
LEMMA NothingCast ==
    ASSUME Inv, UNCHANGED <<denyRevote, archive, lost>>,
           \A c \in Whole :
                /\ mappingFile'[c] = mappingFile[c]
                /\ mappingCache' # None => mappingCache'[c] = mappingFile[c]
                /\ recordFile'[Owner[c]] = recordFile[Owner[c]]
                /\ recordCache' # None => recordCache'[Owner[c]] = recordFile[Owner[c]]
    PROVE  /\ MappingsCurrent' /\ RecordsCurrent'
           /\ ReplacesWhatWasSeen' /\ NoBallotTwice'
<1>1. MappingsCurrent'
  BY DEF Inv, MappingsCurrent, IsLast, Whole
<1>2. RecordsCurrent'
  BY DEF Inv, RecordsCurrent, Whole
<1>3. ReplacesWhatWasSeen'
  BY DEF Inv, ReplacesWhatWasSeen, IsLast
<1>4. NoBallotTwice'
  BY DEF Inv, NoBallotTwice
<1> QED BY <1>1, <1>2, <1>3, <1>4

(* What the caches answer for a whole credential.                          *)
LEMMA Answers ==
    ASSUME Inv, NEW c \in Whole
    PROVE  /\ Mapping[c] = mappingFile[c]
           /\ Record[Owner[c]] = recordFile[Owner[c]]
BY DEF Inv, MappingsCurrent, RecordsCurrent, Mapping, Record

-----------------------------------------------------------------------------
(* The actions                                                             *)

LEMMA PrecastKeeps ==
    ASSUME Inv, NEW b \in Ballots, Precast(b)
    PROVE  Inv'
<1> DEFINE new == [ballot |-> b, seen |-> Mapping[CredOf[b]], user |-> None]
<1>1. /\ sessions' = sessions \cup {new} /\ mappingCache' = Mapping
      /\ UNCHANGED <<denyRevote, disk, recordCache, deferred, lost, faults>>
      /\ ~InArchive(b)
  BY DEF Precast
<1>2. new \in Sessions
  BY CachesTyped, NoneIsNothing DEF Inv, Sessions
<1>3. TypeOK'
  BY <1>1, <1>2, CachesTyped DEF Inv, TypeOK, disk
<1>4. /\ MappingsCurrent' /\ RecordsCurrent'
      /\ ReplacesWhatWasSeen' /\ NoBallotTwice'
  BY <1>1, Answers, NothingCast DEF Inv, RecordsCurrent, disk
<1>5. SeenWasCast'
  <2> SUFFICES ASSUME NEW s \in sessions', CredOf[s.ballot] \in Whole, s.seen # None
               PROVE  /\ InArchive(s.seen)
                      /\ \A i \in DOMAIN archive : archive[i].ballot = s.ballot =>
                            \E k \in 1..i - 1 : archive[k].ballot = s.seen
    BY <1>1 DEF SeenWasCast, InArchive, Whole, disk
  <2>1. CASE s \in sessions
    BY <2>1 DEF Inv, SeenWasCast
  <2>2. CASE s = new
    <3>1. IsLast(Len(archive), CredOf[b], s.seen)
      BY <2>2, Answers DEF Inv, MappingsCurrent
    <3>2. InArchive(s.seen)
      BY <3>1 DEF IsLast, InArchive, Inv, TypeOK
    <3> QED BY <1>1, <2>2, <3>2 DEF InArchive
  <2> QED BY <1>1, <2>1, <2>2
<1> QED BY <1>3, <1>4, <1>5 DEF Inv

LEMMA LoginKeeps ==
    ASSUME Inv, NEW s \in sessions, NEW u \in Users, Login(s, u)
    PROVE  Inv'
<1> DEFINE new == [s EXCEPT !.user = u]
<1>1. /\ sessions' = (sessions \ {s}) \cup {new}
      /\ UNCHANGED <<denyRevote, disk, mappingCache, recordCache, deferred, lost,
                     faults>>
  BY DEF Login
<1>2. new \in Sessions /\ new.ballot = s.ballot /\ new.seen = s.seen
  BY DEF Inv, TypeOK, Sessions
<1>3. TypeOK'
  BY <1>1, <1>2 DEF Inv, TypeOK, disk
<1>4. /\ MappingsCurrent' /\ RecordsCurrent'
      /\ ReplacesWhatWasSeen' /\ NoBallotTwice'
  BY <1>1, NothingCast DEF Inv, MappingsCurrent, RecordsCurrent, disk
<1>5. SeenWasCast'
  <2> SUFFICES ASSUME NEW t \in sessions', CredOf[t.ballot] \in Whole, t.seen # None
               PROVE  /\ InArchive(t.seen)
                      /\ \A i \in DOMAIN archive : archive[i].ballot = t.ballot =>
                            \E k \in 1..i - 1 : archive[k].ballot = t.seen
    BY <1>1 DEF SeenWasCast, InArchive, Whole, disk
  <2>1. PICK t0 \in sessions : t0.ballot = t.ballot /\ t0.seen = t.seen
    BY <1>1, <1>2
  <2> QED BY <2>1 DEF Inv, SeenWasCast
<1> QED BY <1>3, <1>4, <1>5 DEF Inv

LEMMA AcceptKeeps ==
    ASSUME Inv, NEW s \in Sessions, Accept(s), s \in sessions \/ ~InArchive(s.ballot)
    PROVE  Inv'
<1>1. /\ Acceptable(s) /\ AddBallot(s)
      /\ CacheMapping(s) /\ WriteMapping(s) /\ CacheRecord(s) /\ WriteRecord(s)
      /\ deferred' = {"mappings", "records"}
      /\ UNCHANGED <<denyRevote, sessions, listed, lost, faults>>
  BY DEF Accept
<1>2. /\ CredOf[s.ballot] \in Credentials /\ s.ballot \in Ballots
      /\ s.user = Owner[CredOf[s.ballot]] /\ s.user \in Users
  BY <1>1, AcceptableTyped
<1>3. TypeOK'
  <2>1. archive' \in Seq(Sessions)
    BY <1>1, Grown DEF Inv
  <2>2. /\ mappingFile' \in [Credentials -> Ballots \cup {None}]
        /\ mappingCache' \in [Credentials -> Ballots \cup {None}]
    BY <1>1, <1>2, CachesTyped DEF Inv, TypeOK, CacheMapping, WriteMapping
  <2>3. /\ recordFile' \in [Users -> Credentials \cup {None}]
        /\ recordCache' \in [Users -> Credentials \cup {None}]
    BY <1>1, <1>2, CachesTyped DEF Inv, TypeOK, CacheRecord, WriteRecord
  <2> QED BY <1>1, <2>1, <2>2, <2>3 DEF Inv, TypeOK
<1>4. \A c \in Whole' : c # CredOf[s.ballot] => Owner[c] # s.user
  BY <1>2, CastingAssumption DEF Whole
<1>5. MappingsCurrent' /\ RecordsCurrent'
  <2>1. \A c \in Whole' : c # CredOf[s.ballot] =>
            /\ mappingFile'[c] = mappingFile[c]
            /\ mappingCache'[c] = Mapping[c]
            /\ recordFile'[Owner[c]] = recordFile[Owner[c]]
            /\ recordCache'[Owner[c]] = Record[Owner[c]]
    BY <1>1, <1>4, NoneIsNothing, CachesTyped
    DEF Inv, TypeOK, CacheMapping, WriteMapping, CacheRecord, WriteRecord, Whole
  <2>2. /\ mappingFile'[CredOf[s.ballot]] = s.ballot
        /\ mappingCache'[CredOf[s.ballot]] = s.ballot
        /\ recordFile'[s.user] = CredOf[s.ballot]
        /\ recordCache'[s.user] = CredOf[s.ballot]
    BY <1>1, <1>2, CachesTyped
    DEF Inv, TypeOK, CacheMapping, WriteMapping, CacheRecord, WriteRecord
  <2>3. lost \subseteq lost' /\ lost' \subseteq Credentials
    BY <1>1 DEF Inv, TypeOK
  <2> QED BY <1>1, <2>1, <2>2, <2>3, FilesKept
<1>6. ReplacesWhatWasSeen' /\ NoBallotTwice'
  BY <1>1, ArchiveKept
<1>7. SeenWasCast'
  BY <1>1, SessionsKept DEF Inv, TypeOK
<1> QED BY <1>3, <1>5, <1>6, <1>7 DEF Inv

LEMMA TimeoutKeeps ==
    ASSUME Inv, NEW s \in sessions, Timeout(s)
    PROVE  Inv'
<1>1. /\ sessions' = sessions \ {s}
      /\ UNCHANGED <<denyRevote, disk, mappingCache, recordCache, deferred, lost,
                     faults>>
  BY DEF Timeout
<1>2. TypeOK'
  BY <1>1 DEF Inv, TypeOK, disk
<1>3. /\ MappingsCurrent' /\ RecordsCurrent'
      /\ ReplacesWhatWasSeen' /\ NoBallotTwice'
  BY <1>1, NothingCast DEF Inv, MappingsCurrent, RecordsCurrent, disk
<1>4. SeenWasCast'
  BY <1>1 DEF Inv, SeenWasCast, InArchive, Whole, disk
<1> QED BY <1>2, <1>3, <1>4 DEF Inv

(* A cast that fails or is killed concerns a credential that is no longer  *)
(* whole.                                                                  *)
LEMMA InterruptedKeeps ==
    ASSUME Inv, NEW s \in sessions, CastFails(s) \/ CastKilled(s)
    PROVE  Inv'
<1> DEFINE cred == CredOf[s.ballot]
<1>1. /\ s \in Sessions /\ Acceptable(s) /\ AddBallot(s)
      /\ lost' = lost \cup {cred} /\ faults' = faults + 1
      /\ UNCHANGED <<denyRevote, listed>>
      /\ sessions' \subseteq sessions
  BY DEF CastFails, CastKilled, Interrupted, Forget, Inv, TypeOK
<1>2. /\ cred \in Credentials /\ s.ballot \in Ballots
      /\ s.user = Owner[cred] /\ s.user \in Users
  BY <1>1, AcceptableTyped
<1>3. /\ mappingFile' = mappingFile
         \/ mappingFile' = [mappingFile EXCEPT ![cred] = s.ballot]
      /\ mappingCache' = None
         \/ mappingCache' = [Mapping EXCEPT ![cred] = s.ballot]
      /\ recordFile' = recordFile
      /\ \/ recordCache' = None
         \/ recordCache' = recordCache
         \/ recordCache' = [Record EXCEPT ![s.user] = cred]
      /\ deferred' \subseteq deferred \cup {"mappings"}
  BY DEF CastFails, CastKilled, Interrupted, Forget, CacheMapping, WriteMapping,
         CacheRecord
<1>4. TypeOK'
  <2>1. archive' \in Seq(Sessions)
    BY <1>1, Grown DEF Inv
  <2>2. /\ mappingFile' \in [Credentials -> Ballots \cup {None}]
        /\ mappingCache' \in [Credentials -> Ballots \cup {None}] \cup {None}
    BY <1>2, <1>3, CachesTyped DEF Inv, TypeOK
  <2>3. /\ recordFile' \in [Users -> Credentials \cup {None}]
        /\ recordCache' \in [Users -> Credentials \cup {None}] \cup {None}
    BY <1>2, <1>3, CachesTyped DEF Inv, TypeOK
  <2> QED BY <1>1, <1>2, <1>3, <2>1, <2>2, <2>3 DEF Inv, TypeOK
<1>5. MappingsCurrent' /\ RecordsCurrent'
  <2>1. ASSUME NEW c \in Whole', c # cred
        PROVE  /\ mappingFile'[c] = mappingFile[c]
               /\ mappingCache' # None => mappingCache'[c] = Mapping[c]
               /\ recordFile'[Owner[c]] = recordFile[Owner[c]]
               /\ recordCache' # None => recordCache'[Owner[c]] = Record[Owner[c]]
    <3>1. c \in Credentials /\ Owner[c] \in Users /\ Owner[c] # s.user
      BY <1>2, <2>1, CastingAssumption, NoneIsNothing DEF Whole
    <3>2. mappingFile'[c] = mappingFile[c]
      BY <1>2, <1>3, <2>1, <3>1 DEF Inv, TypeOK
    <3>3. mappingCache' # None => mappingCache'[c] = Mapping[c]
      BY <1>2, <1>3, <2>1, <3>1, CachesTyped DEF Inv
    <3>4. recordCache' # None => recordCache'[Owner[c]] = Record[Owner[c]]
      BY <1>2, <1>3, <3>1, CachesTyped DEF Inv, Record
    <3> QED BY <1>3, <3>2, <3>3, <3>4
  <2>2. cred \notin Whole' /\ lost \subseteq lost' /\ lost' \subseteq Credentials
    BY <1>1, <1>2 DEF Whole, Inv, TypeOK
  <2> QED BY <1>1, <2>1, <2>2, FilesKept
<1>6. ReplacesWhatWasSeen' /\ NoBallotTwice'
  BY <1>1, ArchiveKept
<1>7. SeenWasCast'
  BY <1>1, <1>2, SessionsKept DEF Inv, TypeOK
<1> QED BY <1>4, <1>5, <1>6, <1>7 DEF Inv

LEMMA KillKeeps ==
    ASSUME Inv, Kill
    PROVE  Inv'
<1>1. /\ sessions' = {} /\ mappingCache' = None /\ recordCache' = None
      /\ deferred' = {}
      /\ recordFile' = recordFile \/ recordFile' = Record
      /\ UNCHANGED <<denyRevote, archive, mappingFile, listed, lost, faults>>
  BY DEF Kill, Forget
<1>2. TypeOK'
  BY <1>1, CachesTyped DEF Inv, TypeOK
<1>3. /\ MappingsCurrent' /\ RecordsCurrent'
      /\ ReplacesWhatWasSeen' /\ NoBallotTwice'
  BY <1>1, Answers, NothingCast
<1>4. SeenWasCast'
  BY <1>1 DEF SeenWasCast
<1> QED BY <1>2, <1>3, <1>4 DEF Inv

LEMMA CachesKeep ==
    ASSUME Inv, RewriteMappings \/ RewriteRecords \/ Expire
    PROVE  Inv'
<1>1. /\ UNCHANGED <<denyRevote, archive, sessions, lost, faults>>
      /\ mappingFile' = mappingFile \/ mappingFile' = Mapping
      /\ mappingCache' \in {None, mappingCache, Mapping}
      /\ recordFile' = recordFile \/ recordFile' = Record
      /\ recordCache' \in {None, recordCache, Record}
      /\ deferred' \subseteq deferred
      /\ listed' = listed \/ listed' = {u \in Users : Record[u] # None}
  BY DEF RewriteMappings, RewriteRecords, Expire, disk
<1>2. TypeOK'
  BY <1>1, CachesTyped DEF Inv, TypeOK
<1>3. ASSUME NEW c \in Whole
      PROVE  /\ mappingFile'[c] = mappingFile[c]
             /\ mappingCache' # None => mappingCache'[c] = mappingFile[c]
             /\ recordFile'[Owner[c]] = recordFile[Owner[c]]
             /\ recordCache' # None => recordCache'[Owner[c]] = recordFile[Owner[c]]
  BY <1>1, <1>3, Answers DEF Inv, MappingsCurrent, RecordsCurrent
<1>4. /\ MappingsCurrent' /\ RecordsCurrent'
      /\ ReplacesWhatWasSeen' /\ NoBallotTwice'
  BY <1>1, <1>3, NothingCast
<1>5. SeenWasCast'
  BY <1>1 DEF Inv, SeenWasCast, InArchive, Whole
<1> QED BY <1>2, <1>4, <1>5 DEF Inv

-----------------------------------------------------------------------------
(* The theorems                                                            *)

LEMMA InitInv == Init => Inv
<1> SUFFICES ASSUME Init PROVE Inv
  OBVIOUS
<1>1. TypeOK
  BY NoneIsNothing DEF Init, TypeOK
<1>2. MappingsCurrent /\ RecordsCurrent
  BY NoneIsNothing
  DEF Init, MappingsCurrent, RecordsCurrent, IsLast, Whole
<1>3. SeenWasCast /\ ReplacesWhatWasSeen /\ NoBallotTwice
  BY DEF Init, SeenWasCast, ReplacesWhatWasSeen, NoBallotTwice
<1> QED BY <1>1, <1>2, <1>3 DEF Inv

LEMMA NextInv == Inv /\ [Next]_vars => Inv'
<1> SUFFICES ASSUME Inv, [Next]_vars PROVE Inv'
  OBVIOUS
<1>1. ASSUME NEW b \in Ballots, Precast(b) PROVE Inv'
  BY <1>1, PrecastKeeps
<1>2. ASSUME NEW s \in sessions, NEW u \in Users, Login(s, u) PROVE Inv'
  BY <1>2, LoginKeeps
<1>3. ASSUME NEW s \in sessions, Timeout(s) PROVE Inv'
  BY <1>3, TimeoutKeeps
<1>4. ASSUME NEW s \in sessions, Cast(s) PROVE Inv'
  BY <1>4, AcceptKeeps DEF Cast, Inv, TypeOK
<1>5. ASSUME NEW b \in Ballots, NEW u \in Users, CastAtOnce(b, u) PROVE Inv'
  <2>1. [ballot |-> b, seen |-> Mapping[CredOf[b]], user |-> u] \in Sessions
    BY CachesTyped, NoneIsNothing DEF Inv, Sessions
  <2> QED BY <1>5, <2>1, AcceptKeeps DEF CastAtOnce
<1>6. ASSUME NEW s \in sessions, CastFails(s) \/ CastKilled(s) PROVE Inv'
  BY <1>6, InterruptedKeeps
<1>7. CASE Kill
  BY <1>7, KillKeeps
<1>8. CASE RewriteMappings \/ RewriteRecords \/ Expire
  BY <1>8, CachesKeep
<1>9. CASE UNCHANGED vars
  <2>1. TypeOK'
    BY <1>9 DEF vars, disk, memory, Inv, TypeOK
  <2>2. /\ MappingsCurrent' /\ RecordsCurrent'
        /\ ReplacesWhatWasSeen' /\ NoBallotTwice'
    BY <1>9, NothingCast
    DEF vars, disk, memory, Inv, MappingsCurrent, RecordsCurrent
  <2>3. SeenWasCast'
    BY <1>9 DEF vars, disk, memory, Inv, SeenWasCast, InArchive, Whole
  <2> QED BY <2>1, <2>2, <2>3 DEF Inv
<1> QED BY <1>1, <1>2, <1>3, <1>4, <1>5, <1>6, <1>7, <1>8, <1>9 DEF Next

(* The inductive invariant of casting: for the credentials whose casts     *)
(* were never interrupted, caches, files and archive agree, and what a     *)
(* session has seen was cast before its own ballot (do_cast_ballot).       *)
THEOREM CastingInvariant == Spec => []Inv
BY InitInv, NextInv, PTL DEF Spec

(* The files and caches of an election are of their types (main.ml).       *)
THEOREM CastingTypeCorrect == Spec => []TypeOK
<1>1. Inv => TypeOK
  BY DEF Inv
<1> QED BY <1>1, CastingInvariant, PTL

(* A ballot replaces the one its session had seen, for any number of       *)
(* voters, ballots, sessions and faults (do_cast_ballot).                  *)
THEOREM SeenIsReplaced == Spec => []ReplacesWhatWasSeen
<1>1. Inv => ReplacesWhatWasSeen
  BY DEF Inv
<1> QED BY <1>1, CastingInvariant, PTL

(* No ballot is in the archive twice, although only precast_ballot looks   *)
(* for it there.                                                           *)
THEOREM BallotsAreCastOnce == Spec => []NoBallotTwice
<1>1. Inv => NoBallotTwice
  BY DEF Inv
<1> QED BY <1>1, CastingInvariant, PTL

(* The caches and the files answer with what was cast, at any time and     *)
(* after any restart (main.ml, find_credential_mapping).                   *)
THEOREM WhatWasCastIsRead == Spec => []ReadBackAsCast
<1>1. Inv => ReadBackAsCast
  <2> SUFFICES ASSUME Inv, NEW c \in Credentials \ lost
               PROVE  /\ IsLast(Len(archive), c, Mapping[c])
                      /\ IsLast(Len(archive), c, mappingFile[c])
                      /\ LET voted == IF Mapping[c] = None THEN None ELSE c
                         IN Record[Owner[c]] = voted /\ recordFile[Owner[c]] = voted
    BY DEF ReadBackAsCast
  <2> QED BY Answers DEF Inv, MappingsCurrent, RecordsCurrent, Whole
<1> QED BY <1>1, CastingInvariant, PTL
=============================================================================
