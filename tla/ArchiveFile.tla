---------------------------- MODULE ArchiveFile ----------------------------
(***************************************************************************)
(* How the filesystem storage keeps the public archive of one election,    *)
(* and why it implements PublicBoard.                                      *)
(*                                                                         *)
(* The archive is a file of records, data and events, each found by its    *)
(* hash.  The file Last_event names the last event and the position that   *)
(* follows it: what lies beyond was written by an append that failed, and  *)
(* the next append truncates it.  An index of the file, with its roots, is *)
(* kept in memory; it is built when needed, and dropped after an hour      *)
(* without use.  The lock of the election lets one append run at a time    *)
(* (StorageLocks), but the server may be killed, or a write may fail,      *)
(* between two of its steps.                                               *)
(***************************************************************************)
EXTENDS Integers, SequencesExt

CONSTANTS
    Batches,        \* what the handlers append, each a sequence of items
    Checked,        \* those for which they name the last event they know
    NoHash,         \* the parent of the first event
    Hash(_),        \* the hash function, assumed to be injective
    ReadErrors,     \* may a read of Last_event fail?
    MaxRecords      \* bound on the length of the file

ASSUME ArchiveAssumption ==
    /\ Checked \subseteq Batches
    /\ ReadErrors \in BOOLEAN
    /\ MaxRecords \in Nat

(* Every handler appends at least one event.                               *)
ASSUME BatchesAssumption ==
    \A batch \in Batches :
        /\ batch \in Seq(ToSet(batch))
        /\ \A i \in DOMAIN batch : batch[i].kind \in {"data", "event"}
        /\ \E i \in DOMAIN batch : batch[i].kind = "event"

VARIABLES
    file,       \* the records of the archive, after its header
    last,       \* the contents of Last_event, if it exists
    index,      \* the index in memory, if there is one
    writing     \* the append under way, if any

vars == <<file, last, index, writing>>

(* Items of a batch; in the file an event also has a height and a parent.  *)
Data(x) == [kind |-> "data", body |-> x]
Event(typ, payload) == [kind |-> "event", typ |-> typ, payload |-> payload]

(* The file where it was extended without being written.                   *)
Hole == [kind |-> "hole"]

(* Positions count records here.                                           *)
Pos(l) == IF l = {} THEN 0 ELSE (CHOOSE x \in l : TRUE).pos

(* The records of a batch: each event is linked to the event before it.    *)
LinkedEvent(acc, x) ==
    [kind |-> "event", typ |-> x.typ, payload |-> x.payload,
     height |-> acc.height + 1, parent |-> acc.hash]

Link(acc, x) ==
    IF x.kind = "data"
    THEN [acc EXCEPT !.records = Append(@, x)]
    ELSE [hash |-> Hash(LinkedEvent(acc, x)), height |-> acc.height + 1,
          records |-> Append(acc.records, LinkedEvent(acc, x))]

LinkAll(start, batch) == FoldLeft(Link, start, batch)

Linked(batch, l) ==
    LET x == IF l = {} THEN [hash |-> NoHash, height |-> -1]
                       ELSE CHOOSE x \in l : TRUE
    IN  LinkAll([hash |-> x.hash, height |-> x.height, records |-> <<>>], batch)

(* The roots: the latest event of a kind that is followed by its parents,  *)
(* the latest payload of a kind that is read alone.                        *)
Chains == {"Ballot", "Shuffle", "PartialDecryption"}
Singles == {"Setup", "EncryptedTally", "Result"}

EmptyRoots == [typ \in Chains \cup Singles |-> {}]

UpdateRoots(roots, r) ==
    IF r.kind # "event" THEN roots
    ELSE IF r.typ \in Chains THEN [roots EXCEPT ![r.typ] = {Hash(r)}]
    ELSE IF r.typ \in Singles THEN [roots EXCEPT ![r.typ] = {r.payload}]
    ELSE roots

Rooted(roots, records) == FoldLeft(UpdateRoots, roots, records)

Locations(records, from) ==
    {[hash |-> Hash(records[i]), pos |-> from + i] : i \in DOMAIN records}

(* The records before a position, as far as the file has them.             *)
Before(pos) == SubSeq(file, 1, IF pos <= Len(file) THEN pos ELSE Len(file))

(* build_roots: the index of the records that come before a position.      *)
Built(pos) ==
    [map |-> Locations(Before(pos), 0),
     roots |-> Rooted(EmptyRoots, Before(pos))]

(* What a read of Last_event may return: read_file takes an error for the  *)
(* absence of the file.                                                    *)
LastRead == IF ReadErrors THEN {last, {}} ELSE {last}

-----------------------------------------------------------------------------
Init ==
    /\ file = <<>>
    /\ last = {}
    /\ index = {}
    /\ writing = {}

(* get_roots and get_data: the index is built if it is not in memory.      *)
GetRoots ==
    /\ writing = {}
    /\ index = {}
    /\ last # {}
    /\ index' = {Built(Pos(last))}
    /\ UNCHANGED <<file, last, writing>>

(* Mutant of Cut: what a failed append has left stays.                     *)
CutNothing(f, pos) == f

(* The file is cut at the position where an append begins, or extended.    *)
Cut(f, pos) ==
    IF Len(f) >= pos THEN SubSeq(f, 1, pos)
                     ELSE f \o [i \in 1 .. pos - Len(f) |-> Hole]

(* The start of append: Last_event is read for the position, and compared  *)
(* with the event that the handler knows, if it names one; it is read      *)
(* again if the index is to be built, which starts the file anew if there  *)
(* is no last event.                                                       *)
StartAppend(batch) ==
    /\ writing = {}
    /\ \E l, again \in LastRead :
        LET anew == index = {} /\ again = {}
            linked == Linked(batch, l)
        IN  /\ batch \in Checked => last # {} /\ l = last
            /\ Pos(l) + Len(batch) <= MaxRecords
            /\ index' = IF index # {} THEN index
                        ELSE IF anew THEN {[map |-> {}, roots |-> EmptyRoots]}
                        ELSE {Built(Pos(again))}
            /\ file' = Cut(IF anew THEN <<>> ELSE file, Pos(l))
            /\ writing' =
                   {[todo |-> linked.records, records |-> linked.records,
                     pos |-> Pos(l),
                     last |-> [hash |-> linked.hash, height |-> linked.height,
                               pos |-> Pos(l) + Len(batch)]]}
    /\ UNCHANGED last

(* raw_append, one record after the other.                                 *)
WriteRecord ==
    \E w \in writing :
        /\ w.todo # <<>>
        /\ file' = Append(file, Head(w.todo))
        /\ writing' = {[w EXCEPT !.todo = Tail(@)]}
        /\ UNCHANGED <<last, index>>

(* Mutants of Commit: it does not wait for the records, or it forgets the  *)
(* index.                                                                  *)
CommitEarly ==
    \E w \in writing :
        /\ last' = {[w.last EXCEPT !.pos = Len(file)]}
        /\ index' = {}
        /\ writing' = {}
        /\ UNCHANGED file

CommitUnindexed ==
    \E w \in writing :
        /\ w.todo = <<>>
        /\ last' = {w.last}
        /\ writing' = {}
        /\ UNCHANGED <<file, index>>

(* set_last_event, and the index, if it is still there, is kept up to date.*)
Commit ==
    \E w \in writing :
        /\ w.todo = <<>>
        /\ last' = {w.last}
        /\ index' = {[map |-> i.map \cup Locations(w.records, w.pos),
                      roots |-> Rooted(i.roots, w.records)] :
                         i \in index}
        /\ writing' = {}
        /\ UNCHANGED file

(* A write raises an exception: the handler fails, the server goes on.     *)
Fail ==
    /\ writing # {}
    /\ writing' = {}
    /\ UNCHANGED <<file, last, index>>

(* The server is killed, and started again.                                *)
Kill ==
    /\ writing' = {}
    /\ index' = {}
    /\ UNCHANGED <<file, last>>

(* The timer of the index expires.                                         *)
Expire ==
    /\ index # {}
    /\ index' = {}
    /\ UNCHANGED <<file, last, writing>>

Next ==
    \/ GetRoots
    \/ \E batch \in Batches : StartAppend(batch)
    \/ WriteRecord
    \/ Commit
    \/ Fail
    \/ Kill
    \/ Expire

Spec == Init /\ [][Next]_vars

-----------------------------------------------------------------------------
(* The records that Last_event makes part of the archive.                  *)
Committed == Before(Pos(last))

(* The events among the records, in their order, and what they say.        *)
AddEvent(events, r) == IF r.kind = "event" THEN Append(events, r) ELSE events

Events(records) == FoldLeft(AddEvent, <<>>, records)

Content(r) == [typ |-> r.typ, payload |-> r.payload]

Contents(records) ==
    [i \in DOMAIN Events(records) |-> Content(Events(records)[i])]

(* The public archive is a board: readers see all the events of an append  *)
(* or none, in spite of kills and failed writes, and never lose one.       *)
Board == INSTANCE PublicBoard WITH
    log <- Contents(Committed),
    Operations <- {Contents(batch) : batch \in Batches}

ImplementsBoard == Board!Spec

(* The index in memory says what the file says: it knows all the committed *)
(* records at their places, and nothing else, and its roots are the latest *)
(* committed events, although it is updated by appends while the file may  *)
(* end with what failed appends have left.                                 *)
LatestOf(records, typ) ==
    LET is == {i \in DOMAIN records :
                   records[i].kind = "event" /\ records[i].typ = typ}
    IN  {records[i] : i \in {i \in is : \A j \in is : j <= i}}

IndexAgrees ==
    \A x \in index :
        /\ x.map = {[hash |-> Hash(Committed[i]), pos |-> i] :
                        i \in DOMAIN Committed}
        /\ \A typ \in Chains :
               x.roots[typ] = {Hash(r) : r \in LatestOf(Committed, typ)}
        /\ \A typ \in Singles :
               x.roots[typ] = {r.payload : r \in LatestOf(Committed, typ)}

(* The committed events form one chain, as the checker of the archive      *)
(* (fsck of belenios-tool) wants: heights count from 0, each parent is the *)
(* hash of the event before, and Last_event is the last of them.           *)
ChainOK ==
    LET events == Events(Committed)
    IN  /\ \A i \in DOMAIN events :
               /\ events[i].height = i - 1
               /\ events[i].parent =
                      IF i = 1 THEN NoHash ELSE Hash(events[i - 1])
        /\ \A l \in last :
               /\ l.height = Len(events) - 1
               /\ l.hash = Hash(events[Len(events)])

(* Said of the archive by doc/specification.tex: it evolves in an          *)
(* append-only fashion.  A read error can make an append start it anew.    *)
EventsStay ==
    [][ IsPrefix(Contents(Committed), Contents(Committed)') ]_vars
=============================================================================
