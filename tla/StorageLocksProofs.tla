------------------------- MODULE StorageLocksProofs -------------------------
(***************************************************************************)
(* Mutual exclusion of the storage's locks, for any number of transactions *)
(* and elections, and any accesses.                                        *)
(*                                                                         *)
(* The inductive invariant adds to the two properties that a process only  *)
(* waits for a key that it has recorded, for one key at a time, and that   *)
(* no process is twice in a queue: then an unlocked key passes to exactly  *)
(* one process, the only one that stops waiting for it.                    *)
(*                                                                         *)
(* Deadlocks are a matter of the order in which the keys of a path are     *)
(* accessed: PathInv says where on its path a transaction is.              *)
(***************************************************************************)
EXTENDS StorageLocks, TLAPS

OneWait ==
    \A p \in Processes :
        /\ waits[p] \subseteq mine[p]
        /\ \A k, l \in waits[p] : k = l

NoDuplicates ==
    \A k \in Keys : \A i, j \in DOMAIN queue[k] :
        queue[k][i] = queue[k][j] => i = j

(* The part of the invariant that speaks of the locks.                     *)
LockTypes ==
    /\ locked \subseteq Keys
    /\ queue \in [Keys -> Seq(Processes)]
    /\ mine \in [Processes -> SUBSET Keys]
    /\ waits \in [Processes -> SUBSET Keys]

LockInv ==
    /\ LockTypes
    /\ OneWait
    /\ NoDuplicates
    /\ MutualExclusion
    /\ NoLeak

PlanTypes ==
    /\ active \subseteq Txs
    /\ plan \in [Txs -> Seq(Keys)]

-----------------------------------------------------------------------------
(* What an append and a tail do to the members of a queue.                 *)
LEMMA AppendMembers ==
    ASSUME NEW S, NEW s \in Seq(S), NEW x \in S
    PROVE  /\ Append(s, x) \in Seq(S)
           /\ Append(s, x) # <<>>
           /\ DOMAIN Append(s, x) = 1 .. Len(s) + 1
           /\ DOMAIN s = 1 .. Len(s)
           /\ Len(s) \in Nat
           /\ \A i \in DOMAIN s : Append(s, x)[i] = s[i]
           /\ Append(s, x)[Len(s) + 1] = x
  OBVIOUS

LEMMA TailMembers ==
    ASSUME NEW S, NEW s \in Seq(S), s # <<>>
    PROVE  /\ Tail(s) \in Seq(S)
           /\ Head(s) = s[1]
           /\ Head(s) \in S
           /\ Len(s) \in Nat \ {0}
           /\ DOMAIN s = 1 .. Len(s)
           /\ DOMAIN Tail(s) = 1 .. Len(s) - 1
           /\ \A i \in DOMAIN Tail(s) : Tail(s)[i] = s[i + 1]
  OBVIOUS

(* A process that waits for nothing locks a key it does not have.          *)
LEMMA LockStep ==
    ASSUME LockInv, NEW p \in Processes, NEW k \in Keys,
           waits[p] = {}, k \notin mine[p], Lock(p, k)
    PROVE  LockInv'
  <1>1. CASE k \in locked
    <2>1. /\ mine' = [mine EXCEPT ![p] = @ \cup {k}]
          /\ queue' = [queue EXCEPT ![k] = Append(@, p)]
          /\ waits' = [waits EXCEPT ![p] = {k}]
          /\ locked' = locked
      BY <1>1 DEF Lock
    <2>2. LockTypes'
      BY <2>1, AppendMembers DEF LockInv, LockTypes
    <2>3. \A q \in Processes, l \in Keys :
              /\ mine'[q] = IF q = p THEN mine[q] \cup {k} ELSE mine[q]
              /\ waits'[q] = IF q = p THEN {k} ELSE waits[q]
              /\ queue'[l] = IF l = k THEN Append(queue[l], p) ELSE queue[l]
      BY <2>1 DEF LockInv, LockTypes
    <2>4. OneWait'
      BY <2>3 DEF LockInv, OneWait
    <2>5. \A q \in Processes, l \in Keys : Holds(q, l)' <=> Holds(q, l)
      <3>1. \A l \in Keys : ~ Holds(p, l)' <=> (l \in {k} \/ l \notin mine[p])
        BY <2>3 DEF Holds
      <3> QED
        BY <2>3, <3>1 DEF Holds
    <2>6. MutualExclusion'
      BY <2>5 DEF LockInv, MutualExclusion
    <2>7. \A q \in Processes, l \in Keys :
              InQueue(q, l)' <=> InQueue(q, l) \/ (q = p /\ l = k)
      <3> SUFFICES ASSUME NEW q \in Processes, NEW l \in Keys
                   PROVE  InQueue(q, l)' <=> InQueue(q, l) \/ (q = p /\ l = k)
        OBVIOUS
      <3>1. CASE l # k
        BY <3>1, <2>3 DEF InQueue
      <3>2. CASE l = k
        <4>1. queue[k] \in Seq(Processes)
          BY DEF LockInv, LockTypes
        <4>2. queue'[k] = Append(queue[k], p)
          BY <2>3
        <4> QED
          BY <3>2, <4>1, <4>2, AppendMembers DEF InQueue
      <3> QED
        BY <3>1, <3>2
    <2>8. ~ InQueue(p, k)
      BY DEF LockInv, NoLeak
    <2>9. NoDuplicates'
      <3> SUFFICES ASSUME NEW l \in Keys,
                          NEW i \in DOMAIN queue'[l], NEW j \in DOMAIN queue'[l],
                          queue'[l][i] = queue'[l][j]
                   PROVE  i = j
        BY DEF NoDuplicates
      <3>1. CASE l # k
        BY <3>1, <2>3 DEF LockInv, NoDuplicates
      <3>2. CASE l = k
        <4>1. queue[k] \in Seq(Processes)
          BY DEF LockInv, LockTypes
        <4>2. queue'[k] = Append(queue[k], p)
          BY <2>3
        <4>3. \A m \in DOMAIN queue[k] : queue[k][m] # p
          BY <2>8 DEF InQueue
        <4>4. \A m, n \in DOMAIN queue[k] : queue[k][m] = queue[k][n] => m = n
          BY DEF LockInv, NoDuplicates
        <4> QED
          BY <3>2, <4>1, <4>2, <4>3, <4>4, AppendMembers
      <3> QED
        BY <3>1, <3>2
    <2>10. NoLeak'
      <3> SUFFICES ASSUME NEW l \in Keys
                   PROVE  /\ l \in locked' <=> \E q \in Processes : Holds(q, l)'
                          /\ l \notin locked' => queue'[l] = <<>>
                          /\ \A q \in Processes : InQueue(q, l)' <=> l \in waits'[q]
        BY DEF NoLeak
      <3>1. l \in locked' <=> \E q \in Processes : Holds(q, l)'
        BY <2>1, <2>5 DEF LockInv, NoLeak
      <3>2. l \notin locked' => queue'[l] = <<>>
        BY <1>1, <2>1, <2>3 DEF LockInv, NoLeak
      <3>3. \A q \in Processes : InQueue(q, l)' <=> l \in waits'[q]
        <4>1. \A q \in Processes : InQueue(q, l) <=> l \in waits[q]
          BY DEF LockInv, NoLeak
        <4>2. \A q \in Processes :
                  l \in waits'[q] <=> l \in waits[q] \/ (q = p /\ l = k)
          BY <2>3
        <4> QED
          BY <2>7, <4>1, <4>2
      <3> QED
        BY <3>1, <3>2, <3>3
    <2> QED
      BY <2>2, <2>4, <2>6, <2>9, <2>10 DEF LockInv
  <1>2. CASE k \notin locked
    <2>1. /\ mine' = [mine EXCEPT ![p] = @ \cup {k}]
          /\ locked' = locked \cup {k}
          /\ queue' = queue
          /\ waits' = waits
      BY <1>2 DEF Lock
    <2>2. LockTypes'
      BY <2>1 DEF LockInv, LockTypes
    <2>3. \A q \in Processes :
              mine'[q] = IF q = p THEN mine[q] \cup {k} ELSE mine[q]
      BY <2>1 DEF LockInv, LockTypes
    <2>4. OneWait' /\ NoDuplicates'
      BY <2>1, <2>3 DEF LockInv, OneWait, NoDuplicates
    <2>5. \A q \in Processes, l \in Keys :
              Holds(q, l)' <=> Holds(q, l) \/ (q = p /\ l = k)
      BY <2>1, <2>3 DEF Holds
    <2>6. \A q \in Processes : ~ Holds(q, k)
      BY <1>2 DEF LockInv, NoLeak
    <2>7. MutualExclusion'
      BY <2>5, <2>6 DEF LockInv, MutualExclusion
    <2>8. \A q \in Processes, l \in Keys : InQueue(q, l)' <=> InQueue(q, l)
      BY <2>1 DEF InQueue
    <2>9. NoLeak'
      BY <1>2, <2>1, <2>5, <2>8 DEF LockInv, NoLeak
    <2> QED
      BY <2>2, <2>4, <2>7, <2>9 DEF LockInv
  <1> QED
    BY <1>1, <1>2

(* A process that waits for nothing unlocks all its keys.                  *)
LEMMA UnlockStep ==
    ASSUME LockInv, NEW p \in Processes, waits[p] = {}, Unlock(p)
    PROVE  LockInv'
  <1> DEFINE contended == {k \in mine[p] : queue[k] # <<>>}
             Next1(k) == Head(queue[k])
  <1>1. /\ locked' = locked \ (mine[p] \ contended)
        /\ queue' = [k \in Keys |->
                        IF k \in contended THEN Tail(queue[k]) ELSE queue[k]]
        /\ waits' = [q \in Processes |->
                        IF \E k \in contended : q = Next1(k)
                        THEN {} ELSE waits[q]]
        /\ mine' = [mine EXCEPT ![p] = {}]
    BY DEF Unlock
  <1>2. contended \subseteq Keys
    BY DEF LockInv, LockTypes
  <1>3. \A k \in contended :
            /\ queue[k] \in Seq(Processes)
            /\ queue[k] # <<>>
            /\ Next1(k) \in Processes
            /\ k \in waits[Next1(k)]
            /\ Holds(p, k)
    <2> SUFFICES ASSUME NEW k \in contended
                 PROVE  /\ queue[k] \in Seq(Processes)
                        /\ queue[k] # <<>>
                        /\ Next1(k) \in Processes
                        /\ k \in waits[Next1(k)]
                        /\ Holds(p, k)
      OBVIOUS
    <2>1. queue[k] \in Seq(Processes) /\ queue[k] # <<>>
      BY <1>2 DEF LockInv, LockTypes
    <2>2. Next1(k) \in Processes /\ 1 \in DOMAIN queue[k] /\ queue[k][1] = Next1(k)
      BY <2>1, TailMembers
    <2>3. InQueue(Next1(k), k)
      BY <2>2 DEF InQueue
    <2>4. k \in waits[Next1(k)]
      BY <1>2, <2>2, <2>3 DEF LockInv, NoLeak
    <2> QED
      BY <2>1, <2>2, <2>4 DEF Holds
  <1> HIDE DEF contended, Next1
  <1>4. \A q \in Processes : mine'[q] = IF q = p THEN {} ELSE mine[q]
    BY <1>1 DEF LockInv, LockTypes
  <1>5. \A q \in Processes, k \in Keys :
            k \in waits'[q] <=> k \in waits[q] /\ ~(k \in contended /\ q = Next1(k))
    <2> SUFFICES ASSUME NEW q \in Processes, NEW k \in Keys
                 PROVE  k \in waits'[q] <=>
                            k \in waits[q] /\ ~(k \in contended /\ q = Next1(k))
      OBVIOUS
    <2>1. CASE \E l \in contended : q = Next1(l)
      <3>1. PICK l \in contended : q = Next1(l)
        BY <2>1
      <3>2. l \in waits[q]
        BY <3>1, <1>3
      <3>3. k \in waits[q] => k = l
        BY <3>2 DEF LockInv, OneWait
      <3>4. waits'[q] = {}
        BY <1>1, <2>1
      <3> QED
        BY <3>1, <3>3, <3>4
    <2>2. CASE ~ \E l \in contended : q = Next1(l)
      BY <1>1, <2>2
    <2> QED
      BY <2>1, <2>2
  <1>6. \A q \in Processes : waits'[q] \subseteq waits[q]
    BY <1>1
  <1>7. \A k \in Keys :
            queue'[k] = IF k \in contended THEN Tail(queue[k]) ELSE queue[k]
    BY <1>1
  <1>8. LockTypes'
    <2>1. \A k \in Keys : queue'[k] \in Seq(Processes)
      <3>1. \A k \in contended : Tail(queue[k]) \in Seq(Processes)
        BY <1>3, TailMembers
      <3> QED
        BY <1>7, <3>1 DEF LockInv, LockTypes
    <2>2. waits' \in [Processes -> SUBSET Keys]
      BY <1>1 DEF LockInv, LockTypes
    <2>3. queue' \in [Keys -> Seq(Processes)]
      BY <1>1, <2>1
    <2> QED
      BY <1>1, <2>2, <2>3 DEF LockInv, LockTypes
  <1>9. OneWait'
    BY <1>4, <1>6 DEF LockInv, OneWait
  <1>10. \A q \in Processes, k \in Keys :
             Holds(q, k)' <=> \/ q # p /\ Holds(q, k)
                              \/ k \in contended /\ q = Next1(k)
    <2> SUFFICES ASSUME NEW q \in Processes, NEW k \in Keys
                 PROVE  Holds(q, k)' <=> \/ q # p /\ Holds(q, k)
                                         \/ k \in contended /\ q = Next1(k)
      OBVIOUS
    <2>1. k \in contended /\ q = Next1(k) => q # p /\ k \in mine[q]
      BY <1>3 DEF LockInv, OneWait
    <2> QED
      BY <1>4, <1>5, <2>1 DEF Holds
  <1>11. MutualExclusion'
    <2>1. \A q \in Processes, k \in contended : Holds(q, k) => q = p
      BY <1>2, <1>3 DEF LockInv, MutualExclusion
    <2> QED
      BY <1>10, <2>1 DEF LockInv, MutualExclusion
  <1>12. NoDuplicates'
    <2> SUFFICES ASSUME NEW k \in Keys,
                        NEW i \in DOMAIN queue'[k], NEW j \in DOMAIN queue'[k],
                        queue'[k][i] = queue'[k][j]
                 PROVE  i = j
      BY DEF NoDuplicates
    <2>1. CASE k \notin contended
      BY <1>7, <2>1 DEF LockInv, NoDuplicates
    <2>2. CASE k \in contended
      <3>1. \A m, n \in DOMAIN queue[k] : queue[k][m] = queue[k][n] => m = n
        BY DEF LockInv, NoDuplicates
      <3>2. queue'[k] = Tail(queue[k])
        BY <1>7, <2>2
      <3> QED
        BY <1>3, <2>2, <3>1, <3>2, TailMembers
    <2> QED
      BY <2>1, <2>2
  <1>13. \A q \in Processes, k \in Keys :
             InQueue(q, k)' <=> InQueue(q, k) /\ ~(k \in contended /\ q = Next1(k))
    <2> SUFFICES ASSUME NEW q \in Processes, NEW k \in Keys
                 PROVE  InQueue(q, k)' <=>
                            InQueue(q, k) /\ ~(k \in contended /\ q = Next1(k))
      OBVIOUS
    <2>1. CASE k \notin contended
      BY <1>7, <2>1 DEF InQueue
    <2>2. CASE k \in contended
      <3> DEFINE s == queue[k]
      <3>1. \A m, n \in DOMAIN s : s[m] = s[n] => m = n
        BY DEF LockInv, NoDuplicates
      <3>2. queue'[k] = Tail(s)
        BY <1>7, <2>2
      <3>3. /\ Next1(k) = s[1]
            /\ Len(s) \in Nat \ {0}
            /\ DOMAIN s = 1 .. Len(s)
            /\ DOMAIN Tail(s) = 1 .. Len(s) - 1
            /\ \A i \in DOMAIN Tail(s) : Tail(s)[i] = s[i + 1]
        BY <1>3, <2>2, TailMembers DEF Next1
      <3> HIDE DEF s
      <3>4. (\E i \in DOMAIN Tail(s) : Tail(s)[i] = q) <=>
                (\E i \in DOMAIN s : s[i] = q) /\ q # s[1]
        <4>1. ASSUME NEW i \in DOMAIN Tail(s), Tail(s)[i] = q
              PROVE  (\E m \in DOMAIN s : s[m] = q) /\ q # s[1]
          <5>1. i + 1 \in DOMAIN s /\ s[i + 1] = q /\ 1 \in DOMAIN s /\ i + 1 # 1
            BY <3>3, <4>1
          <5> QED
            BY <3>1, <5>1
        <4>2. ASSUME NEW i \in DOMAIN s, s[i] = q, q # s[1]
              PROVE  \E m \in DOMAIN Tail(s) : Tail(s)[m] = q
          <5>1. i - 1 \in DOMAIN Tail(s) /\ (i - 1) + 1 = i
            BY <3>3, <4>2
          <5>2. Tail(s)[i - 1] = q
            BY <3>3, <4>2, <5>1
          <5> QED
            BY <5>1, <5>2
        <4> QED
          BY <4>1, <4>2
      <3> QED
        BY <2>2, <3>2, <3>3, <3>4 DEF InQueue, s
    <2> QED
      BY <2>1, <2>2
  <1>14. NoLeak'
    <2> SUFFICES ASSUME NEW k \in Keys
                 PROVE  /\ k \in locked' <=> \E q \in Processes : Holds(q, k)'
                        /\ k \notin locked' => queue'[k] = <<>>
                        /\ \A q \in Processes : InQueue(q, k)' <=> k \in waits'[q]
      BY DEF NoLeak
    <2>1. \A q \in Processes : InQueue(q, k)' <=> k \in waits'[q]
      BY <1>5, <1>13 DEF LockInv, NoLeak
    <2>2. CASE k \in contended
      <3> PICK q \in Processes : q = Next1(k)
        BY <1>3, <2>2
      <3>1. Holds(q, k)'
        BY <1>10, <2>2
      <3>2. k \in locked'
        BY <1>1, <1>3, <2>2 DEF LockInv, NoLeak
      <3> QED
        BY <2>1, <3>1, <3>2
    <2>3. CASE k \notin contended /\ k \in mine[p]
      <3>1. queue[k] = <<>> /\ Holds(p, k)
        BY <2>3 DEF contended, Holds
      <3>2. \A q \in Processes : ~ Holds(q, k)'
        BY <1>10, <2>3, <3>1 DEF LockInv, MutualExclusion
      <3>3. k \notin locked' /\ queue'[k] = <<>>
        BY <1>1, <1>7, <2>3, <3>1
      <3> QED
        BY <2>1, <3>2, <3>3
    <2>4. CASE k \notin contended /\ k \notin mine[p]
      <3>1. ~ Holds(p, k)
        BY <2>4 DEF Holds
      <3>2. \A q \in Processes : Holds(q, k)' <=> Holds(q, k)
        BY <1>10, <2>4, <3>1
      <3>3. (k \in locked' <=> k \in locked) /\ queue'[k] = queue[k]
        BY <1>1, <1>7, <2>4
      <3> QED
        BY <2>1, <3>2, <3>3 DEF LockInv, NoLeak
    <2> QED
      BY <2>2, <2>3, <2>4
  <1> QED
    BY <1>8, <1>9, <1>11, <1>12, <1>14 DEF LockInv

-----------------------------------------------------------------------------
(* Unchanged locks keep the invariant.                                     *)
LEMMA LocksUntouched ==
    ASSUME LockInv, UNCHANGED <<locked, queue, mine, waits>>
    PROVE  LockInv'
  BY DEF LockInv, LockTypes, OneWait, NoDuplicates, MutualExclusion, NoLeak,
         Holds, InQueue

LEMMA PathsAreSequences == Paths \subseteq Seq(Keys)
  BY KeysAssumption DEF Paths, Keys

(* The invariant holds at first and every step keeps it.                   *)
THEOREM LocksInvariant == Spec => [](LockInv /\ PlanTypes)
  <1>1. Init => LockInv /\ PlanTypes
    <2> SUFFICES ASSUME Init PROVE LockInv /\ PlanTypes
      OBVIOUS
    <2>1. LockTypes /\ PlanTypes
      BY DEF Init, LockTypes, PlanTypes
    <2>2. \A p \in Processes :
              /\ waits[p] = {}
              /\ \A k \in Keys : ~ Holds(p, k) /\ ~ InQueue(p, k)
      BY DEF Init, Holds, InQueue
    <2>3. \A k \in Keys : queue[k] = <<>>
      BY DEF Init
    <2>4. NoDuplicates
      BY <2>3 DEF NoDuplicates
    <2>5. locked = {}
      BY DEF Init
    <2>6. OneWait /\ MutualExclusion
      <3>1. OneWait
        BY <2>2 DEF OneWait
      <3>2. MutualExclusion
        BY <2>2 DEF MutualExclusion
      <3> QED
        BY <3>1, <3>2
    <2>7. NoLeak
      BY <2>2, <2>3, <2>5 DEF NoLeak
    <2> QED
      BY <2>1, <2>4, <2>6, <2>7 DEF LockInv
  <1>2. LockInv /\ PlanTypes /\ [Next]_vars => LockInv' /\ PlanTypes'
    <2> SUFFICES ASSUME LockInv, PlanTypes, [Next]_vars
                 PROVE  LockInv' /\ PlanTypes'
      OBVIOUS
    <2>1. ASSUME NEW t \in Txs, Begin(t) PROVE LockInv' /\ PlanTypes'
      <3>1. LockInv'
        BY <2>1, LocksUntouched DEF Begin
      <3>2. PlanTypes'
        BY <2>1, PathsAreSequences DEF Begin, PlanTypes
      <3> QED
        BY <3>1, <3>2
    <2>2. ASSUME NEW t \in Txs, Access(t) PROVE LockInv' /\ PlanTypes'
      <3>1. t \in Processes /\ plan[t] \in Seq(Keys) /\ plan[t] # <<>>
        BY <2>2 DEF Access, Processes, PlanTypes
      <3>2. Head(plan[t]) \in Keys /\ Tail(plan[t]) \in Seq(Keys)
        BY <3>1, TailMembers
      <3>3. PlanTypes'
        BY <2>2, <3>2 DEF Access, PlanTypes
      <3>4. CASE Head(plan[t]) \in mine[t]
        BY <2>2, <3>3, <3>4, LocksUntouched DEF Access
      <3>5. CASE Head(plan[t]) \notin mine[t]
        BY <2>2, <3>1, <3>2, <3>3, <3>5, LockStep DEF Access
      <3> QED
        BY <3>4, <3>5
    <2>3. ASSUME NEW t \in Txs, NEW task \in Tasks, Defer(t, task)
          PROVE  LockInv' /\ PlanTypes'
      <3>1. task \in Processes /\ task[2] \in Keys
        BY DEF Processes, Tasks, Keys
      <3>2. mine[task] = {} /\ waits[task] = {}
        BY <2>3, <3>1 DEF Defer, Deferred, LockInv, OneWait
      <3>3. LockInv'
        BY <2>3, <3>1, <3>2, LockStep DEF Defer
      <3> QED
        BY <2>3, <3>3 DEF Defer, PlanTypes
    <2>4. ASSUME NEW t \in Txs, End(t) PROVE LockInv' /\ PlanTypes'
      <3>1. LockInv'
        BY <2>4, UnlockStep DEF End, Processes
      <3>2. PlanTypes'
        BY <2>4 DEF End, PlanTypes
      <3> QED
        BY <3>1, <3>2
    <2>5. ASSUME NEW task \in Tasks, Finish(task) PROVE LockInv' /\ PlanTypes'
      <3>1. LockInv'
        BY <2>5, UnlockStep DEF Finish, Processes
      <3> QED
        BY <2>5, <3>1 DEF Finish, PlanTypes
    <2>6. CASE UNCHANGED vars
      BY <2>6, LocksUntouched DEF vars, PlanTypes
    <2> QED
      BY <2>1, <2>2, <2>3, <2>4, <2>5, <2>6 DEF Next
  <1> QED
    BY <1>1, <1>2, PTL DEF Spec

(* The locks' variables keep their types (with_transaction and the modules *)
(* it uses).                                                               *)
THEOREM LocksTypeCorrect == Spec => []TypeOK
  <1>1. LockInv /\ PlanTypes => TypeOK
    BY DEF LockInv, LockTypes, PlanTypes, TypeOK
  <1> QED
    BY <1>1, LocksInvariant, PTL

(* Two handlers are never inside the same election (Mutex_set.lock and     *)
(* unlock over Indexed_mutex).                                             *)
THEOREM HandlersExclude == Spec => []MutualExclusion
  <1>1. LockInv => MutualExclusion
    BY DEF LockInv
  <1> QED
    BY <1>1, LocksInvariant, PTL

(* No lock leaks and no wake-up is lost (Indexed_mutex.unlock).            *)
THEOREM LocksDoNotLeak == Spec => []NoLeak
  <1>1. LockInv => NoLeak
    BY DEF LockInv
  <1> QED
    BY <1>1, LocksInvariant, PTL

-----------------------------------------------------------------------------
(* Deadlocks.                                                              *)
(*                                                                         *)
(* What a transaction has recorded and what it has still to access fit one *)
(* of the paths: it has all of its path before it, or nothing any more, or *)
(* it is on its way along one of the paths of two or three accesses.       *)
OnPath(m, rest) ==
    \/ m = {} /\ rest \in Paths
    \/ rest = <<>>
    \/ \E e \in Elections : m \in {{e}, {Global}} /\ rest = <<e>>
    \/ \E i \in Imports : m = {i[1]} /\ rest = <<i[2], i[1]>>
    \/ \E i \in Imports : m = {i[1], i[2]} /\ rest = <<i[1]>>

(* Who holds a key and waits for another is on its way from the server's   *)
(* key to an election, or importing; and nobody who holds a key waits for  *)
(* the server's.                                                           *)
WaitsInOrder(p) ==
    \A k, l \in Keys :
        Holds(p, k) /\ l \in waits[p] =>
            \/ k = Global /\ l \in Elections
            \/ <<k, l>> \in Imports

PathInv ==
    /\ \A t \in Txs : t \notin active => mine[t] = {}
    /\ \A t \in Txs : t \in active => OnPath(mine[t], plan[t])
    /\ \A task \in Tasks : mine[task] \subseteq {task[2]}
    /\ \A p \in Processes : WaitsInOrder(p)

(* An access follows the path, and a key that it waits for comes after the *)
(* keys that the transaction holds.                                        *)
LEMMA PathStep ==
    ASSUME NEW m, NEW rest, OnPath(m, rest), rest # <<>>
    PROVE  /\ OnPath(m \cup {Head(rest)}, Tail(rest))
           /\ Head(rest) \notin m =>
                  \A k \in m : \/ k = Global /\ Head(rest) \in Elections
                               \/ <<k, Head(rest)>> \in Imports
  <1>1. ASSUME NEW i \in Imports
        PROVE  i[1] \in Elections /\ i[2] \in Elections /\ i = <<i[1], i[2]>>
    BY KeysAssumption
  <1>2. CASE m = {} /\ rest \in Paths
    <2>1. CASE rest = <<Global>>
      BY <1>2, <2>1 DEF OnPath
    <2>2. ASSUME NEW e \in Elections, rest \in {<<e, e>>, <<Global, e>>}
          PROVE  OnPath(m \cup {Head(rest)}, Tail(rest))
      <3>1. Head(rest) \in {e, Global} /\ Tail(rest) = <<e>>
        <4>1. CASE rest = <<e, e>>
          BY <4>1
        <4>2. CASE rest = <<Global, e>>
          BY <4>2
        <4> QED
          BY <2>2, <4>1, <4>2
      <3> QED
        BY <1>2, <3>1 DEF OnPath
    <2>3. ASSUME NEW i \in Imports, rest = <<i[1], i[2], i[1]>>
          PROVE  OnPath(m \cup {Head(rest)}, Tail(rest))
      BY <1>2, <2>3 DEF OnPath
    <2> QED
      BY <1>2, <2>1, <2>2, <2>3 DEF Paths
  <1>3. ASSUME NEW e \in Elections, m \in {{e}, {Global}}, rest = <<e>>
        PROVE  /\ OnPath(m \cup {Head(rest)}, Tail(rest))
               /\ Head(rest) \notin m => m = {Global} /\ Head(rest) \in Elections
    BY <1>3 DEF OnPath
  <1>4. ASSUME NEW i \in Imports, m = {i[1]}, rest = <<i[2], i[1]>>
        PROVE  /\ OnPath(m \cup {Head(rest)}, Tail(rest))
               /\ \A k \in m : <<k, Head(rest)>> \in Imports
    BY <1>1, <1>4 DEF OnPath
  <1>5. ASSUME NEW i \in Imports, m = {i[1], i[2]}, rest = <<i[1]>>
        PROVE  OnPath(m \cup {Head(rest)}, Tail(rest)) /\ Head(rest) \in m
    BY <1>5 DEF OnPath
  <1> QED
    BY <1>2, <1>3, <1>4, <1>5 DEF OnPath

LEMMA PathsUntouched ==
    ASSUME PathInv, UNCHANGED <<active, plan, mine, waits>>
    PROVE  PathInv'
  BY DEF PathInv, WaitsInOrder, Holds

(* An unlock takes everything from its process, and lets others go on.     *)
LEMMA UnlockPath ==
    ASSUME LockInv, PathInv, NEW p \in Processes, waits[p] = {}, Unlock(p)
    PROVE  /\ \A q \in Processes : mine'[q] = IF q = p THEN {} ELSE mine[q]
           /\ \A q \in Processes : WaitsInOrder(q)'
  <1>1. \A q \in Processes : mine'[q] = IF q = p THEN {} ELSE mine[q]
    BY DEF Unlock, LockInv, LockTypes
  <1>2. \A q \in Processes : waits'[q] \in {{}, waits[q]}
    BY DEF Unlock
  <1>3. \A q \in Processes : WaitsInOrder(q)'
    BY <1>1, <1>2 DEF PathInv, WaitsInOrder, Holds
  <1> QED
    BY <1>1, <1>3

(* Every transaction keeps to its path.                                    *)
THEOREM PathInvariant == Spec => []PathInv
  <1>1. Init => PathInv
    BY DEF Init, PathInv, WaitsInOrder, Holds, Processes
  <1>2. LockInv /\ PlanTypes /\ PathInv /\ [Next]_vars => PathInv'
    <2> SUFFICES ASSUME LockInv, PlanTypes, PathInv, [Next]_vars
                 PROVE  PathInv'
      OBVIOUS
    <2>1. ASSUME NEW t \in Txs, Begin(t) PROVE PathInv'
      <3>1. PICK path \in Paths : plan' = [plan EXCEPT ![t] = path]
        BY <2>1 DEF Begin
      <3>2. /\ active' = active \cup {t} /\ mine' = mine /\ waits' = waits
            /\ \A u \in Txs : plan'[u] = IF u = t THEN path ELSE plan[u]
        BY <2>1, <3>1 DEF Begin, PlanTypes
      <3>3. mine[t] = {}
        BY <2>1 DEF Begin, PathInv
      <3>4. \A u \in Txs : u \in active' => OnPath(mine'[u], plan'[u])
        BY <3>2, <3>3 DEF PathInv, OnPath
      <3>5. \A p \in Processes : WaitsInOrder(p)'
        BY <3>2 DEF PathInv, WaitsInOrder, Holds
      <3> QED
        BY <3>2, <3>4, <3>5 DEF PathInv
    <2>2. ASSUME NEW t \in Txs, Access(t) PROVE PathInv'
      <3> DEFINE next == Head(plan[t])
      <3>1. /\ t \in Processes /\ t \in active /\ waits[t] = {}
            /\ plan[t] \in Seq(Keys) /\ plan[t] # <<>>
            /\ plan' = [plan EXCEPT ![t] = Tail(@)] /\ active' = active
        BY <2>2 DEF Access, Processes, PlanTypes
      <3>2. next \in Keys
        BY <3>1, TailMembers
      <3>3. \A u \in Txs : plan'[u] = IF u = t THEN Tail(plan[t]) ELSE plan[u]
        BY <3>1 DEF PlanTypes
      <3>4. /\ OnPath(mine[t] \cup {next}, Tail(plan[t]))
            /\ next \notin mine[t] =>
                   \A k \in mine[t] : \/ k = Global /\ next \in Elections
                                      \/ <<k, next>> \in Imports
        BY <3>1, PathStep DEF PathInv
      <3>5. /\ \A q \in Processes :
                   mine'[q] = IF q = t THEN mine[t] \cup {next} ELSE mine[q]
            /\ \A q \in Processes : q # t => waits'[q] = waits[q]
            /\ waits'[t] \subseteq {next}
            /\ next \in mine[t] => waits'[t] = {}
        <4>1. CASE next \in mine[t]
          BY <2>2, <3>1, <4>1 DEF Access
        <4>2. CASE next \notin mine[t]
          BY <2>2, <3>1, <4>2 DEF Access, Lock, LockInv, LockTypes
        <4> QED
          BY <4>1, <4>2
      <3> HIDE DEF next
      <3>6. WaitsInOrder(t)'
        BY <3>1, <3>4, <3>5 DEF WaitsInOrder, Holds
      <3>7. \A q \in Processes : q # t => WaitsInOrder(q)'
        BY <3>5 DEF PathInv, WaitsInOrder, Holds
      <3>8. \A task \in Tasks : task # t /\ task \in Processes
        BY KeysAssumption DEF Processes
      <3>9. Txs \subseteq Processes
        BY DEF Processes
      <3> QED
        BY <3>1, <3>3, <3>4, <3>5, <3>6, <3>7, <3>8, <3>9 DEF PathInv
    <2>3. ASSUME NEW t \in Txs, NEW task \in Tasks, Defer(t, task)
          PROVE  PathInv'
      <3>1. task \in Processes /\ mine[task] = {}
        BY <2>3 DEF Defer, Deferred, Processes
      <3>2. /\ \A q \in Processes :
                   mine'[q] = IF q = task THEN {task[2]} ELSE mine[q]
            /\ \A q \in Processes : q # task => waits'[q] = waits[q]
            /\ waits'[task] \in {{}, {task[2]}}
        <4>1. waits[task] = {}
          BY <3>1 DEF LockInv, OneWait
        <4> QED
          BY <2>3, <3>1, <4>1 DEF Defer, Lock, LockInv, LockTypes
      <3>3. WaitsInOrder(task)'
        BY <3>1, <3>2 DEF WaitsInOrder, Holds
      <3>4. \A q \in Processes : q # task => WaitsInOrder(q)'
        BY <3>2 DEF PathInv, WaitsInOrder, Holds
      <3>5. \A u \in Txs : u # task /\ u \in Processes
        BY KeysAssumption DEF Processes
      <3>6. active' = active /\ plan' = plan
        BY <2>3 DEF Defer
      <3> QED
        BY <3>2, <3>3, <3>4, <3>5, <3>6 DEF PathInv, Processes
    <2>4. ASSUME NEW t \in Txs, End(t) PROVE PathInv'
      <3>1. /\ \A q \in Processes : mine'[q] = IF q = t THEN {} ELSE mine[q]
            /\ \A q \in Processes : WaitsInOrder(q)'
        BY <2>4, UnlockPath DEF End, Processes
      <3>2. /\ active' = active \ {t}
            /\ \A u \in Txs : plan'[u] = IF u = t THEN <<>> ELSE plan[u]
        BY <2>4 DEF End, PlanTypes
      <3> QED
        BY <3>1, <3>2 DEF PathInv, Processes
    <2>5. ASSUME NEW task \in Tasks, Finish(task) PROVE PathInv'
      <3>1. /\ \A q \in Processes : mine'[q] = IF q = task THEN {} ELSE mine[q]
            /\ \A q \in Processes : WaitsInOrder(q)'
        BY <2>5, UnlockPath DEF Finish, Processes
      <3>2. active' = active /\ plan' = plan
        BY <2>5 DEF Finish
      <3>3. \A u \in Txs : u # task
        BY KeysAssumption
      <3> QED
        BY <3>1, <3>2, <3>3 DEF PathInv, Processes
    <2>6. CASE UNCHANGED vars
      BY <2>6, PathsUntouched DEF vars
    <2> QED
      BY <2>1, <2>2, <2>3, <2>4, <2>5, <2>6 DEF Next
  <1> QED
    BY <1>1, <1>2, LocksInvariant, PTL DEF Spec

(* Processes that wait for one another for ever include two imports that   *)
(* hold a draft each: following who holds what a process waits for, one    *)
(* passes the server's key at most once, and every later holder imports.   *)
THEOREM DeadlockNeedsImports == Spec => []OnlyImportsDeadlock
  <1>1. LockInv /\ PathInv => OnlyImportsDeadlock
    <2> SUFFICES ASSUME LockInv, PathInv,
                        NEW ps \in SUBSET Processes, ps # {}, Blocked(ps)
                 PROVE  \E p, q \in ps : p # q /\ Importing(p) /\ Importing(q)
      BY DEF OnlyImportsDeadlock
    <2>1. ASSUME NEW p \in ps
          PROVE  \E k \in Keys : k \in waits[p] /\ \E q \in ps : Holds(q, k)
      BY DEF Blocked, LockInv, LockTypes
    <2>2. ASSUME NEW q \in ps, NEW k \in Elections, Holds(q, k)
          PROVE  Importing(q) /\ \E l \in Elections : l \in waits[q]
      <3>1. PICK l \in Keys : l \in waits[q]
        BY <2>1
      <3>2. <<k, l>> \in Imports
        BY <2>2, <3>1, KeysAssumption DEF PathInv, WaitsInOrder, Keys
      <3>3. l \in Elections
        BY <3>2, KeysAssumption
      <3> QED
        BY <2>2, <3>1, <3>2, <3>3 DEF Importing
    <2>3. ASSUME NEW q \in ps, Holds(q, Global)
          PROVE  \E l \in Elections : l \in waits[q]
      <3>1. PICK l \in Keys : l \in waits[q]
        BY <2>1
      <3>2. <<Global, l>> \notin Imports
        BY KeysAssumption
      <3> QED
        BY <2>3, <3>1, <3>2 DEF PathInv, WaitsInOrder, Keys
    <2>4. PICK p \in ps, l \in Elections : l \in waits[p]
      <3>1. PICK p \in ps, k \in Keys, q \in ps : Holds(q, k)
        BY <2>1
      <3> QED
        BY <2>2, <2>3, <3>1 DEF Keys
    <2>5. PICK q \in ps : Holds(q, l)
      BY <2>1, <2>4 DEF LockInv, OneWait, Blocked
    <2>6. PICK m \in Elections : Importing(q) /\ m \in waits[q]
      BY <2>2, <2>5
    <2>7. PICK r \in ps : Holds(r, m)
      BY <2>6 DEF LockInv, OneWait, Blocked
    <2>8. Importing(r) /\ r # q
      BY <2>2, <2>6, <2>7 DEF Holds
    <2> QED
      BY <2>6, <2>8
  <1> QED
    BY <1>1, LocksInvariant, PathInvariant, PTL
=============================================================================
