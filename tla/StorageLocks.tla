---------------------------- MODULE StorageLocks ----------------------------
(***************************************************************************)
(* The locks of the filesystem storage: what makes a handler of            *)
(* ElectionLifecycle one atomic step.                                      *)
(*                                                                         *)
(* Indexed_mutex keeps one queue of waiters per key, and a key is an       *)
(* election or the server itself (Global, which is None in the code).      *)
(* with_transaction gives each transaction a Mutex_set: the first access   *)
(* to a file of a key takes the lock of the key, further accesses return   *)
(* at once, and everything is unlocked at the end (two-phase locking).     *)
(* Indexed_defer adds background tasks, which rewrite a file of an         *)
(* election under the lock of the election.                                *)
(*                                                                         *)
(* Threads are cooperative (Lwt): an access is atomic up to the lock it    *)
(* waits for.  A handler makes its accesses one after the other.           *)
(***************************************************************************)
EXTENDS Naturals, Sequences

CONSTANTS
    Txs,            \* transactions
    Elections,
    Global,         \* the key of what belongs to no election
    Imports,        \* <<draft, source>>: an import from source into draft
    Deferrers       \* the kinds of deferred tasks

Keys == Elections \cup {Global}

(* A deferred task is known by its kind and its key.                       *)
Tasks == Deferrers \X Elections

Processes == Txs \cup Tasks

ASSUME KeysAssumption ==
    /\ Global \notin Elections
    /\ Imports \subseteq Elections \X Elections
    /\ Txs \cap Tasks = {}

(* Mutant of Paths: some handler looks an account up while it holds an     *)
(* election.                                                               *)
PathsAccountLast ==
    {<<Global, e>> : e \in Elections} \cup {<<e, Global>> : e \in Elections}

(* The keys a handler accesses, in order: nearly all work on one election, *)
(* creating a draft asks for a fresh identifier first, and an import reads *)
(* the source while it holds the draft, which it writes in the end.        *)
Paths ==
    {<<Global>>}
        \cup {<<e, e>> : e \in Elections}
        \cup {<<Global, e>> : e \in Elections}
        \cup {<<i[1], i[2], i[1]>> : i \in Imports}

VARIABLES
    active,     \* the transactions under way
    plan,       \* the accesses a transaction has still to make
    locked,     \* the keys in the table of Indexed_mutex
    queue,      \* their queues of waiters
    mine,       \* the keys in the Mutex_set of a process
    waits       \* the key a process is waiting for, if any

vars == <<active, plan, locked, queue, mine, waits>>

(* A task is in the deferred set from when it asks for its key until it    *)
(* has released it.                                                        *)
Deferred == {p \in Tasks : mine[p] # {}}

Holds(p, k) == k \in mine[p] \ waits[p]

Init ==
    /\ active = {}
    /\ plan = [t \in Txs |-> <<>>]
    /\ locked = {}
    /\ queue = [k \in Keys |-> <<>>]
    /\ mine = [p \in Processes |-> {}]
    /\ waits = [p \in Processes |-> {}]

(* Mutant of Lock: the queues are last in, first out.                      *)
LockLifo(p, k) ==
    /\ mine' = [mine EXCEPT ![p] = @ \cup {k}]
    /\ IF k \in locked
       THEN /\ queue' = [queue EXCEPT ![k] = <<p>> \o @]
            /\ waits' = [waits EXCEPT ![p] = {k}]
            /\ UNCHANGED locked
       ELSE /\ locked' = locked \cup {k}
            /\ UNCHANGED <<queue, waits>>

(* Indexed_mutex.lock, for a process that has recorded the key first.      *)
Lock(p, k) ==
    /\ mine' = [mine EXCEPT ![p] = @ \cup {k}]
    /\ IF k \in locked
       THEN /\ queue' = [queue EXCEPT ![k] = Append(@, p)]
            /\ waits' = [waits EXCEPT ![p] = {k}]
            /\ UNCHANGED locked
       ELSE /\ locked' = locked \cup {k}
            /\ UNCHANGED <<queue, waits>>

(* Mutants of Unlock: a key that passes to a waiter is removed from the    *)
(* table, or a key that nobody waits for is not.                           *)
Handed(p) ==
    LET contended == {k \in mine[p] : queue[k] # <<>>}
    IN  /\ queue' = [k \in Keys |->
                        IF k \in contended THEN Tail(queue[k]) ELSE queue[k]]
        /\ waits' = [q \in Processes |->
                        IF \E k \in contended : q = Head(queue[k])
                        THEN {} ELSE waits[q]]
        /\ mine' = [mine EXCEPT ![p] = {}]

UnlockAll(p) == locked' = locked \ mine[p] /\ Handed(p)

UnlockNone(p) == locked' = locked /\ Handed(p)

(* Indexed_mutex.unlock of all the keys of a process: the lock of a key    *)
(* passes to its first waiter.                                             *)
Unlock(p) ==
    LET contended == {k \in mine[p] : queue[k] # <<>>}
    IN  /\ locked' = locked \ (mine[p] \ contended)
        /\ queue' = [k \in Keys |->
                        IF k \in contended THEN Tail(queue[k]) ELSE queue[k]]
        /\ waits' = [q \in Processes |->
                        IF \E k \in contended : q = Head(queue[k])
                        THEN {} ELSE waits[q]]
        /\ mine' = [mine EXCEPT ![p] = {}]

(* with_transaction.                                                       *)
Begin(t) ==
    /\ t \notin active
    /\ active' = active \cup {t}
    /\ \E path \in Paths : plan' = [plan EXCEPT ![t] = path]
    /\ UNCHANGED <<locked, queue, mine, waits>>

(* An access to a file: Mutex_set.lock, then the access itself.            *)
Access(t) ==
    /\ t \in active
    /\ waits[t] = {}
    /\ plan[t] # <<>>
    /\ plan' = [plan EXCEPT ![t] = Tail(@)]
    /\ IF Head(plan[t]) \in mine[t]
       THEN UNCHANGED <<locked, queue, mine, waits>>
       ELSE Lock(t, Head(plan[t]))
    /\ UNCHANGED active

(* add_extended_record or add_credential_mapping, in a transaction that    *)
(* holds the election: the task is deferred unless it is already.          *)
Defer(t, task) ==
    /\ t \in active
    /\ waits[t] = {}
    /\ Holds(t, task[2])
    /\ task \notin Deferred
    /\ Lock(task, task[2])
    /\ UNCHANGED <<active, plan>>

(* The end of a transaction, successful or not.                            *)
End(t) ==
    /\ t \in active
    /\ waits[t] = {}
    /\ active' = active \ {t}
    /\ plan' = [plan EXCEPT ![t] = <<>>]
    /\ Unlock(t)

(* A deferred task has its lock, and has written its file.                 *)
Finish(task) ==
    /\ task \in Deferred
    /\ waits[task] = {}
    /\ Unlock(task)
    /\ UNCHANGED <<active, plan>>

Next ==
    \/ \E t \in Txs : Begin(t)
    \/ \E t \in Txs : Access(t)
    \/ \E t \in Txs, task \in Tasks : Defer(t, task)
    \/ \E t \in Txs : End(t)
    \/ \E task \in Tasks : Finish(task)

(* The scheduler resumes whatever can go on; no request has to come.       *)
Fairness ==
    /\ \A t \in Txs : WF_vars(Access(t)) /\ WF_vars(End(t))
    /\ \A task \in Tasks : WF_vars(Finish(task))

Spec == Init /\ [][Next]_vars

FairSpec == Spec /\ Fairness

-----------------------------------------------------------------------------
TypeOK ==
    /\ active \subseteq Txs
    /\ plan \in [Txs -> Seq(Keys)]
    /\ locked \subseteq Keys
    /\ queue \in [Keys -> Seq(Processes)]
    /\ mine \in [Processes -> SUBSET Keys]
    /\ waits \in [Processes -> SUBSET Keys]

(* Two processes never hold the same key: with two-phase locking, this is  *)
(* what makes handlers of an election atomic for one another, although the *)
(* set of a transaction records a key before its lock is granted, and an   *)
(* unlocked key with waiters never becomes free.                           *)
MutualExclusion ==
    \A k \in Keys : \A p, q \in Processes : Holds(p, k) /\ Holds(q, k) => p = q

(* No lock leaks and no wake-up is lost: a key in the table is held by     *)
(* some process, a key out of it has no waiters, and a process waits for a *)
(* key exactly when it is in the queue of this key.                        *)
InQueue(p, k) == \E i \in DOMAIN queue[k] : queue[k][i] = p

NoLeak ==
    \A k \in Keys :
        /\ k \in locked <=> \E p \in Processes : Holds(p, k)
        /\ k \notin locked => queue[k] = <<>>
        /\ \A p \in Processes : InQueue(p, k) <=> k \in waits[p]

(* Transactions can only block each other for ever through imports that    *)
(* cross: in any set of processes that all wait for one another, at least  *)
(* two are imports that hold a draft and wait for an election.             *)
Importing(p) ==
    \E i \in Imports : Holds(p, i[1]) /\ i[2] \in waits[p]

Blocked(ps) ==
    \A p \in ps : \E k \in waits[p] : \E q \in ps : Holds(q, k)

OnlyImportsDeadlock ==
    \A ps \in SUBSET Processes :
        ps # {} /\ Blocked(ps) =>
            \E p, q \in ps : p # q /\ Importing(p) /\ Importing(q)

(* Every process that waits gets its lock, unless some imports have        *)
(* crossed: the queues are first in, first out, so even weakly fair        *)
(* threads get there.                                                      *)
Deadlocked == \E ps \in SUBSET Processes : ps # {} /\ Blocked(ps)

EveryoneServed ==
    \A p \in Processes : waits[p] # {} ~> waits[p] = {} \/ Deadlocked
=============================================================================
