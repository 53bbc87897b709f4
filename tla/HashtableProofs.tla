--------------------------- MODULE HashtableProofs ---------------------------
(***************************************************************************)
(* Proofs about Hashtable, for any keys, data, threads and hash function:  *)
(* its chains stay well formed, and it implements HashMap.                 *)
(***************************************************************************)
EXTENDS Hashtable, FiniteSetTheorems, TLAPS

\* What the types do not say and the steps need: chains are finite, and a walk
\* that is about to enter a bucket has one left.
WalkInv ==
    /\ \A b \in Buckets : IsFiniteSet(nodes[b])
    /\ \A t \in Threads : th[t].pc = "bucket" => th[t].i < Size

HashInv == TableTypeOK /\ ChainsWellFormed /\ WalkInv
HeapInv == alive \in BOOLEAN /\ leaked \in BOOLEAN

Places == {"idle", "inserted", "freed", "add", "sub", "held", "walk", "bucket"}
Working == {"inserted", "freed", "add", "sub", "held"}
ThreadStates == [pc : Places, key : Keys \cup {NoKey}, tmp : 0..UIntMax, i : 0..Size, seen : Nat]

\* The parts of ChainsWellFormed, to be cited one at a time.
ChainsInv ==
    \A b \in Buckets : \A e, f \in nodes[b] : Hash[e[1]] = b /\ (e[1] = f[1] => e = f)
OwnerInv ==
    \A t \in Threads : th[t].pc \in Working => th[t].key \in Keys /\ lock_nodes[Hash[th[t].key]] = t
HeldInv == \A t \in Threads : th[t].pc = "held" => Found(th[t].key)

LEMMA ChainParts == ChainsWellFormed <=> ChainsInv /\ OwnerInv /\ HeldInv
BY DEF ChainsWellFormed, ChainsInv, OwnerInv, HeldInv, Working

LEMMA TypeParts ==
    TableTypeOK <=> /\ nodes \in [Buckets -> SUBSET (Keys \X Data)]
                   /\ lock_nodes \in [Buckets -> Threads \cup {NoThread}]
                   /\ num_elements \in 0..UIntMax
                   /\ th \in [Threads -> ThreadStates]
BY DEF TableTypeOK, ThreadStates, Places

LEMMA NextParts ==
    /\ ChainsWellFormed' <=> ChainsInv' /\ OwnerInv' /\ HeldInv'
    /\ TableTypeOK' <=> /\ nodes' \in [Buckets -> SUBSET (Keys \X Data)]
                       /\ lock_nodes' \in [Buckets -> Threads \cup {NoThread}]
                       /\ num_elements' \in 0..UIntMax
                       /\ th' \in [Threads -> ThreadStates]
BY DEF ChainsWellFormed, ChainsInv, OwnerInv, HeldInv, Working, TableTypeOK, ThreadStates, Places

LEMMA IdleType == Idle \in ThreadStates
BY HashAssumption DEF Idle, ThreadStates, Places

LEMMA HashType == \A k \in Keys : Hash[k] \in Buckets
BY HashAssumption DEF Buckets

-----------------------------------------------------------------------------
\* Initially.
LEMMA InitInv == HashInit => HashInv
<1> SUFFICES ASSUME HashInit PROVE HashInv
  OBVIOUS
<1>1. TableTypeOK
  BY IdleType, TypeParts, HashAssumption DEF HashInit
<1>2. ChainsWellFormed
  <2>1. \A t \in Threads : th[t].pc = "idle"
    BY DEF HashInit, Idle
  <2>2. \A b \in Buckets : nodes[b] = {}
    BY DEF HashInit
  <2> QED BY <2>1, <2>2, ChainParts DEF ChainsInv, OwnerInv, HeldInv, Working
<1>3. WalkInv
  BY FS_EmptySet DEF HashInit, WalkInv, Idle
<1> QED BY <1>1, <1>2, <1>3 DEF HashInv

-----------------------------------------------------------------------------
\* A thread that enters a bucket's mutex owns it, and nobody else did.
LEMMA Entering ==
    ASSUME HashInv, NEW t \in Threads, NEW k \in Keys, NEW pc \in Working,
           th[t].pc = "idle", Locked(t, k), Doing(t, pc, k)
    PROVE  /\ th' \in [Threads -> ThreadStates]
           /\ lock_nodes' \in [Buckets -> Threads \cup {NoThread}]
           /\ OwnerInv'
           /\ th'[t].pc = pc /\ th'[t].key = k
           /\ \A u \in Threads : u # t => th'[u] = th[u]
           /\ \A u \in Threads : u # t /\ th[u].pc \in Working => Hash[th[u].key] # Hash[k]
           /\ \A u \in Threads : th'[u].pc = "bucket" => th'[u].i < Size
<1> DEFINE new == [Idle EXCEPT !.pc = pc, !.key = k]
<1>1. /\ th \in [Threads -> ThreadStates] /\ lock_nodes \in [Buckets -> Threads \cup {NoThread}]
      /\ OwnerInv
  BY TypeParts, ChainParts DEF HashInv
<1>2. new \in ThreadStates /\ new.pc = pc /\ new.key = k
  BY IdleType DEF ThreadStates, Places, Working, Idle
<1>3. th' = [th EXCEPT ![t] = new]
  BY DEF Doing
<1> HIDE DEF new
<1>4. th' \in [Threads -> ThreadStates] /\ th'[t] = new /\ \A u \in Threads : u # t => th'[u] = th[u]
  BY <1>1, <1>2, <1>3
<1>5. lock_nodes[Hash[k]] = NoThread /\ lock_nodes' = [lock_nodes EXCEPT ![Hash[k]] = t]
  BY DEF Locked
<1>6. \A u \in Threads : u # t /\ th[u].pc \in Working => Hash[th[u].key] # Hash[k]
  BY <1>1, <1>5, HashAssumption DEF OwnerInv
<1>7. lock_nodes' \in [Buckets -> Threads \cup {NoThread}]
  BY <1>1, <1>5
<1>8. OwnerInv'
  <2> SUFFICES ASSUME NEW u \in Threads, th'[u].pc \in Working
               PROVE  th'[u].key \in Keys /\ lock_nodes'[Hash[th'[u].key]] = u
    BY DEF OwnerInv
  <2>1. CASE u = t
    BY <2>1, <1>2, <1>4, <1>5, <1>1, HashType
  <2>2. CASE u # t
    BY <2>2, <1>1, <1>4, <1>5, <1>6, HashType DEF OwnerInv
  <2> QED BY <2>1, <2>2
<1>9. \A u \in Threads : th'[u].pc = "bucket" => th'[u].i < Size
  BY <1>2, <1>4 DEF HashInv, WalkInv, Working
<1> QED BY <1>2, <1>4, <1>6, <1>7, <1>8, <1>9

\* Insert keeps the invariant: the key was not there.
LEMMA InsertInv ==
    ASSUME HashInv, NEW t \in Threads, NEW k \in Keys, NEW d \in Data, obj_hashtable_ts_insert(t, k, d)
    PROVE  HashInv'
<1>1. /\ nodes \in [Buckets -> SUBSET (Keys \X Data)] /\ num_elements \in 0..UIntMax
      /\ ChainsInv /\ HeldInv /\ WalkInv /\ Hash[k] \in Buckets
  BY TypeParts, ChainParts, HashType DEF HashInv
<1>2. nodes' = [nodes EXCEPT ![Hash[k]] = nodes[Hash[k]] \cup {<<k, d>>}] /\ ~Found(k) /\ num_elements' = num_elements
  BY DEF obj_hashtable_ts_insert
<1>3. /\ th' \in [Threads -> ThreadStates] /\ lock_nodes' \in [Buckets -> Threads \cup {NoThread}]
      /\ OwnerInv' /\ th'[t].pc = "inserted" /\ th'[t].key = k
      /\ \A u \in Threads : u # t => th'[u] = th[u]
      /\ \A u \in Threads : th'[u].pc = "bucket" => th'[u].i < Size
  BY Entering DEF obj_hashtable_ts_insert, Working
<1>4. TableTypeOK'
  <2>1. nodes[Hash[k]] \cup {<<k, d>>} \in SUBSET (Keys \X Data)
    BY <1>1
  <2>2. nodes' \in [Buckets -> SUBSET (Keys \X Data)]
    BY <1>1, <1>2, <2>1
  <2> QED BY <1>1, <1>2, <1>3, <2>2, NextParts
<1>5. \A b \in Buckets : nodes'[b] = IF b = Hash[k] THEN nodes[b] \cup {<<k, d>>} ELSE nodes[b]
  BY <1>1, <1>2
<1>6. ChainsInv'
  BY <1>1, <1>2, <1>5 DEF ChainsInv, Found
<1>7. HeldInv'
  <2> SUFFICES ASSUME NEW u \in Threads, th'[u].pc = "held" PROVE \E e \in nodes'[Hash[th'[u].key]] : e[1] = th'[u].key
    BY DEF HeldInv, Found
  <2>1. th'[u] = th[u] /\ Found(th[u].key)
    BY <1>1, <1>3 DEF HeldInv
  <2>2. Hash[th[u].key] \in Buckets
    BY <2>1, HashType, ChainParts DEF HashInv, OwnerInv, Working
  <2> QED BY <2>1, <2>2, <1>5 DEF Found
<1>8. WalkInv'
  <2>1. \A b \in Buckets : IsFiniteSet(nodes'[b])
    <3> TAKE b \in Buckets
    <3>1. IsFiniteSet(nodes[b]) /\ IsFiniteSet(nodes[b] \cup {<<k, d>>})
      BY <1>1, FS_AddElement DEF WalkInv
    <3>2. nodes'[b] = nodes[b] \/ nodes'[b] = nodes[b] \cup {<<k, d>>}
      BY <1>5
    <3> QED BY <3>1, <3>2
  <2> QED BY <2>1, <1>3 DEF WalkInv
<1> QED BY <1>3, <1>4, <1>6, <1>7, <1>8, NextParts DEF HashInv

\* Free keeps the invariant: nobody holds an element of the bucket.
LEMMA FreeInv ==
    ASSUME HashInv, NEW t \in Threads, NEW k \in Keys, obj_hashtable_ts_free(t, k)
    PROVE  HashInv'
<1>1. /\ nodes \in [Buckets -> SUBSET (Keys \X Data)] /\ num_elements \in 0..UIntMax
      /\ ChainsInv /\ HeldInv /\ WalkInv /\ Hash[k] \in Buckets
  BY TypeParts, ChainParts, HashType DEF HashInv
<1>2. nodes' = [nodes EXCEPT ![Hash[k]] = {e \in nodes[Hash[k]] : e[1] # k}] /\ num_elements' = num_elements
  BY DEF obj_hashtable_ts_free
<1>3. /\ th' \in [Threads -> ThreadStates] /\ lock_nodes' \in [Buckets -> Threads \cup {NoThread}]
      /\ OwnerInv' /\ th'[t].pc = "freed"
      /\ \A u \in Threads : u # t => th'[u] = th[u]
      /\ \A u \in Threads : u # t /\ th[u].pc \in Working => Hash[th[u].key] # Hash[k]
      /\ \A u \in Threads : th'[u].pc = "bucket" => th'[u].i < Size
  BY Entering DEF obj_hashtable_ts_free, Working
<1>4. TableTypeOK'
  BY <1>1, <1>2, <1>3, TypeParts, NextParts
<1>5. \A b \in Buckets : nodes'[b] = IF b = Hash[k] THEN {e \in nodes[b] : e[1] # k} ELSE nodes[b]
  BY <1>1, <1>2
<1>6. ChainsInv'
  <2>1. \A b \in Buckets : nodes'[b] \subseteq nodes[b]
    BY <1>5
  <2> QED BY <1>1, <2>1 DEF ChainsInv
<1>7. HeldInv'
  <2> SUFFICES ASSUME NEW u \in Threads, th'[u].pc = "held" PROVE \E e \in nodes'[Hash[th'[u].key]] : e[1] = th'[u].key
    BY DEF HeldInv, Found
  <2>1. th'[u] = th[u] /\ Found(th[u].key) /\ Hash[th[u].key] # Hash[k]
    BY <1>1, <1>3 DEF HeldInv, Working
  <2>2. Hash[th[u].key] \in Buckets
    BY <2>1, HashType, ChainParts DEF HashInv, OwnerInv, Working
  <2> QED BY <2>1, <2>2, <1>5 DEF Found
<1>8. WalkInv'
  <2>1. \A b \in Buckets : nodes'[b] \subseteq nodes[b]
    BY <1>5
  <2>2. \A b \in Buckets : IsFiniteSet(nodes'[b])
    BY <1>1, <2>1, FS_Subset DEF WalkInv
  <2> QED BY <2>2, <1>3 DEF WalkInv
<1> QED BY <1>3, <1>4, <1>6, <1>7, <1>8, NextParts DEF HashInv

\* Get keeps the invariant: what it holds it has found.
LEMMA GetInv ==
    ASSUME HashInv, NEW t \in Threads, NEW k \in Keys, obj_hashtable_ts_get(t, k)
    PROVE  HashInv'
<1>1. nodes' = nodes /\ num_elements' = num_elements /\ Found(k)
  BY DEF obj_hashtable_ts_get
<1>2. /\ th' \in [Threads -> ThreadStates] /\ lock_nodes' \in [Buckets -> Threads \cup {NoThread}]
      /\ OwnerInv' /\ th'[t].key = k
      /\ \A u \in Threads : u # t => th'[u] = th[u]
      /\ \A u \in Threads : th'[u].pc = "bucket" => th'[u].i < Size
  BY Entering DEF obj_hashtable_ts_get, Working
<1>3. TableTypeOK'
  BY <1>1, <1>2, TypeParts, NextParts DEF HashInv
<1>4. ChainsInv'
  BY <1>1, ChainParts DEF HashInv, ChainsInv
<1>5. HeldInv'
  BY <1>1, <1>2, ChainParts DEF HashInv, HeldInv, Found
<1>6. WalkInv'
  BY <1>1, <1>2 DEF HashInv, WalkInv
<1> QED BY <1>2, <1>3, <1>4, <1>5, <1>6, NextParts DEF HashInv

\* A thread that leaves its bucket leaves the others their mutexes.
LEMMA LeavingInv ==
    ASSUME HashInv, NEW t \in Threads, th[t].pc \in Working, Unlocked(t),
           nodes' = nodes, num_elements' \in 0..UIntMax
    PROVE  HashInv'
<1>1. /\ th \in [Threads -> ThreadStates] /\ lock_nodes \in [Buckets -> Threads \cup {NoThread}]
      /\ nodes \in [Buckets -> SUBSET (Keys \X Data)] /\ ChainsInv /\ OwnerInv /\ HeldInv /\ WalkInv
  BY TypeParts, ChainParts DEF HashInv
<1>2. th[t].key \in Keys /\ lock_nodes[Hash[th[t].key]] = t /\ Hash[th[t].key] \in Buckets
  BY <1>1, HashType DEF OwnerInv
<1>3. th' = [th EXCEPT ![t] = Idle] /\ lock_nodes' = [lock_nodes EXCEPT ![Hash[th[t].key]] = NoThread]
  BY DEF Unlocked
<1>4. th' \in [Threads -> ThreadStates] /\ th'[t].pc = "idle" /\ \A u \in Threads : u # t => th'[u] = th[u]
  BY <1>1, <1>3, IdleType DEF Idle
<1>5. TableTypeOK'
  BY <1>1, <1>2, <1>3, <1>4, TypeParts, NextParts
<1>6. OwnerInv'
  <2> SUFFICES ASSUME NEW u \in Threads, th'[u].pc \in Working
               PROVE  th'[u].key \in Keys /\ lock_nodes'[Hash[th'[u].key]] = u
    BY DEF OwnerInv
  <2>1. u # t
    BY <1>4 DEF Working
  <2>2. th[u].key \in Keys /\ lock_nodes[Hash[th[u].key]] = u /\ th'[u] = th[u]
    BY <2>1, <1>1, <1>4 DEF OwnerInv
  <2> QED BY <2>1, <2>2, <1>1, <1>2, <1>3, HashType
<1>7. HeldInv' /\ ChainsInv' /\ WalkInv'
  BY <1>1, <1>4 DEF HeldInv, ChainsInv, WalkInv, Found
<1> QED BY <1>5, <1>6, <1>7, NextParts DEF HashInv

\* A step that moves a thread within its own work, or among the places where it
\* owns nothing, keeps the invariant.
LEMMA MovingInv ==
    ASSUME HashInv, NEW t \in Threads, UNCHANGED <<nodes, lock_nodes, num_elements>>,
           th' \in [Threads -> ThreadStates], \A u \in Threads : u # t => th'[u] = th[u],
           th'[t].pc \in Working => th[t].pc \in Working /\ th'[t].key = th[t].key /\ th'[t].pc # "held",
           th'[t].pc = "bucket" => th'[t].i < Size
    PROVE  HashInv'
<1>1. /\ nodes \in [Buckets -> SUBSET (Keys \X Data)] /\ ChainsInv /\ OwnerInv /\ HeldInv /\ WalkInv
  BY TypeParts, ChainParts DEF HashInv
<1>2. TableTypeOK'
  BY TypeParts, NextParts DEF HashInv
<1>3. OwnerInv'
  BY <1>1 DEF OwnerInv
<1>4. HeldInv'
  BY <1>1 DEF HeldInv, Working, Found
<1>5. ChainsInv' /\ WalkInv'
  BY <1>1 DEF ChainsInv, WalkInv
<1> QED BY <1>2, <1>3, <1>4, <1>5, NextParts DEF HashInv

\* A reload keeps the invariant: it leaves the table as it is, or empty.
LEMMA ReloadInv ==
    ASSUME HashInv, load_pado_delay_iface
    PROVE  HashInv'
<1>1. \A t \in Threads : th[t].pc = "idle"
  BY DEF load_pado_delay_iface
<1>2. CASE UNCHANGED <<nodes, lock_nodes, num_elements, th>>
  BY <1>2 DEF HashInv, TableTypeOK, ChainsWellFormed, WalkInv, Found
<1>3. CASE obj_hashtable_ts_init /\ UNCHANGED th
  <2>1. \A b \in Buckets : nodes'[b] = {}
    BY <1>3 DEF obj_hashtable_ts_init
  <2>2. TableTypeOK'
    BY <1>3, HashAssumption, TypeParts, NextParts DEF HashInv, obj_hashtable_ts_init
  <2>3. ChainsWellFormed'
    BY <2>1, <1>1, <1>3, NextParts DEF ChainsInv, OwnerInv, HeldInv, Working
  <2>4. WalkInv'
    BY <2>1, <1>1, <1>3, FS_EmptySet DEF WalkInv
  <2> QED BY <2>2, <2>3, <2>4 DEF HashInv
<1> QED BY <1>2, <1>3 DEF load_pado_delay_iface

-----------------------------------------------------------------------------
\* Every step keeps the invariant.
LEMMA NextInv == HashInv /\ [HashNext]_htVars => HashInv'
<1> SUFFICES ASSUME HashInv, [HashNext]_htVars PROVE HashInv'
  OBVIOUS
<1>1. CASE UNCHANGED htVars
  BY <1>1 DEF htVars, HashInv, TableTypeOK, ChainsWellFormed, WalkInv, Found
<1>2. CASE load_pado_delay_iface
  BY <1>2, ReloadInv
<1>3. CASE \E t \in Threads : HashStep(t)
  <2>1. PICK t \in Threads : HashStep(t)
    BY <1>3
  <2>2. th \in [Threads -> ThreadStates] /\ num_elements \in 0..UIntMax
    BY TypeParts DEF HashInv
  <2>3. th[t] \in ThreadStates
    BY <2>2
  <2>4. CASE \E k \in Keys : obj_hashtable_ts_free(t, k) \/ obj_hashtable_ts_get(t, k)
                              \/ \E d \in Data : obj_hashtable_ts_insert(t, k, d)
    BY <2>4, FreeInv, GetInv, InsertInv
  <2>5. CASE CountRead(t)
    <3>1. PICK p \in {"add", "sub"} : th' = [th EXCEPT ![t].pc = p, ![t].tmp = num_elements]
      BY <2>5 DEF CountRead
    <3>2. th' \in [Threads -> ThreadStates] /\ (\A u \in Threads : u # t => th'[u] = th[u])
          /\ th'[t].pc = p /\ th'[t].key = th[t].key
      BY <3>1, <2>2, <2>3 DEF ThreadStates, Places
    <3>3. th[t].pc \in Working /\ UNCHANGED <<nodes, lock_nodes, num_elements>>
      BY <2>5 DEF CountRead, Working
    <3> QED BY <3>2, <3>3, MovingInv
  <2>6. CASE CountWrite(t)
    <3>1. num_elements' \in 0..UIntMax
      BY <2>6, <2>3, HashAssumption DEF CountWrite, Incremented, Decremented, ThreadStates
    <3> QED BY <2>6, <3>1, LeavingInv DEF CountWrite, Working
  <2>7. CASE obj_hashtable_ts_nodes_unlock(t)
    BY <2>7, <2>2, LeavingInv DEF obj_hashtable_ts_nodes_unlock, Working
  <2>8. CASE WalkStart(t)
    <3>1. th' \in [Threads -> ThreadStates] /\ (\A u \in Threads : u # t => th'[u] = th[u]) /\ th'[t].pc = "walk"
      BY <2>8, <2>2, IdleType DEF WalkStart, Doing, ThreadStates, Places, Idle
    <3> QED BY <2>8, <3>1, MovingInv DEF WalkStart, Working
  <2>9. CASE WalkTest(t)
    <3>1. \/ th' = [th EXCEPT ![t] = Idle]
          \/ th' = [th EXCEPT ![t].pc = "bucket"] /\ th[t].i < Size
      BY <2>9 DEF WalkTest
    <3>2. /\ th' \in [Threads -> ThreadStates] /\ \A u \in Threads : u # t => th'[u] = th[u]
          /\ th'[t].pc = "idle" \/ (th'[t].pc = "bucket" /\ th'[t].i < Size)
      BY <3>1, <2>2, <2>3, IdleType DEF ThreadStates, Places, Idle
    <3> QED BY <2>9, <3>2, MovingInv DEF WalkTest, Working
  <2>10. CASE WalkBucket(t)
    <3>1. th[t].i \in Buckets
      BY <2>10, <2>3, HashAssumption DEF WalkBucket, HashInv, WalkInv, ThreadStates, Buckets
    <3>2. Cardinality(nodes[th[t].i]) \in Nat
      BY <3>1, FS_CardinalityType DEF HashInv, WalkInv
    <3>3. /\ th' \in [Threads -> ThreadStates] /\ \A u \in Threads : u # t => th'[u] = th[u]
          /\ th'[t].pc = "walk"
      BY <2>10, <2>2, <2>3, <3>1, <3>2, HashAssumption DEF WalkBucket, ThreadStates, Places, Buckets
    <3> QED BY <2>10, <3>3, MovingInv DEF WalkBucket, Working
  <2> QED BY <2>1, <2>4, <2>5, <2>6, <2>7, <2>8, <2>9, <2>10 DEF HashStep
<1> QED BY <1>1, <1>2, <1>3 DEF HashNext

\* The chains stay well formed and a bucket is changed only by the thread that
\* holds its mutex, for any keys, hash function and number of threads
\* (obj_hashtable_ts_insert, obj_hashtable_ts_free, obj_hashtable_ts_get).
THEOREM ChainsSafe == HashSpec => [](HashTypeOK /\ ChainsWellFormed)
<1>1. HashInit => HeapInv
  BY DEF HashInit, HeapInv
<1>2. HeapInv /\ [HashNext]_htVars => HeapInv'
  BY DEF HeapInv, HashNext, htVars, load_pado_delay_iface, obj_hashtable_ts_destroy
<1>3. HashInv /\ HeapInv => HashTypeOK /\ ChainsWellFormed
  BY DEF HashInv, HeapInv, HashTypeOK
<1> QED BY <1>1, <1>2, <1>3, InitInv, NextInv, PTL DEF HashSpec

-----------------------------------------------------------------------------
\* A key is in the map exactly when the table finds it.
LEMMA BoundIsFound ==
    ASSUME HashInv, NEW k \in Keys
    PROVE  Abstract!Bound(k) <=> Found(k)
<1>1. nodes \in [Buckets -> SUBSET (Keys \X Data)] /\ ChainsInv /\ Hash[k] \in Buckets
  BY TypeParts, ChainParts, HashType DEF HashInv
<1>2. ASSUME Abstract!Bound(k) PROVE Found(k)
  <2>1. PICK d \in Data, b \in Buckets : <<k, d>> \in nodes[b]
    BY <1>2 DEF Abstract!Bound, Elements
  <2>2. Hash[k] = b
    BY <2>1, <1>1 DEF ChainsInv
  <2> QED BY <2>1, <2>2 DEF Found
<1>3. ASSUME Found(k) PROVE Abstract!Bound(k)
  <2>1. PICK e \in nodes[Hash[k]] : e[1] = k
    BY <1>3 DEF Found
  <2>2. e \in Keys \X Data
    BY <1>1
  <2>3. e = <<k, e[2]>> /\ e[2] \in Data
    BY <2>1, <2>2
  <2> QED BY <2>1, <2>3, <1>1 DEF Abstract!Bound, Elements
<1> QED BY <1>2, <1>3

Pins == [t \in Threads |-> PinnedKey(t)]

\* Insert is Put.
LEMMA InsertIsPut ==
    ASSUME HashInv, NEW t \in Threads, NEW k \in Keys, NEW d \in Data, obj_hashtable_ts_insert(t, k, d)
    PROVE  Abstract!Put(k, d)
<1>1. nodes \in [Buckets -> SUBSET (Keys \X Data)] /\ Hash[k] \in Buckets
  BY TypeParts, HashType DEF HashInv
<1>2. ~Abstract!Bound(k)
  BY BoundIsFound DEF obj_hashtable_ts_insert
<1>3. \A b \in Buckets : nodes'[b] = IF b = Hash[k] THEN nodes[b] \cup {<<k, d>>} ELSE nodes[b]
  BY <1>1 DEF obj_hashtable_ts_insert
<1>4. Elements' = Elements \cup {<<k, d>>}
  <2>1. ASSUME NEW e PROVE e \in Elements' <=> \E b \in Buckets : e \in nodes'[b]
    BY DEF Elements
  <2>2. ASSUME NEW e PROVE e \in Elements <=> \E b \in Buckets : e \in nodes[b]
    BY DEF Elements
  <2>3. ASSUME NEW e PROVE e \in Elements' <=> e \in Elements \/ e = <<k, d>>
    <3>1. \A b \in Buckets : e \in nodes'[b] <=> e \in nodes[b] \/ (b = Hash[k] /\ e = <<k, d>>)
      BY <1>3
    <3> QED BY <1>1, <2>1, <2>2, <3>1
  <2> QED BY <2>3
<1>5. \A u \in Threads : PinnedKey(u)' = PinnedKey(u)
  BY Entering DEF obj_hashtable_ts_insert, Working, PinnedKey
<1> QED BY <1>2, <1>4, <1>5 DEF Abstract!Put

\* Free is Del: a pinned key's bucket is locked.
LEMMA FreeIsDel ==
    ASSUME HashInv, NEW t \in Threads, NEW k \in Keys, obj_hashtable_ts_free(t, k)
    PROVE  Abstract!Del(k)
<1>1. nodes \in [Buckets -> SUBSET (Keys \X Data)] /\ Hash[k] \in Buckets /\ ChainsInv
  BY TypeParts, ChainParts, HashType DEF HashInv
<1>2. Abstract!Bound(k)
  BY BoundIsFound DEF obj_hashtable_ts_free
<1>3. \A b \in Buckets : nodes'[b] = IF b = Hash[k] THEN {e \in nodes[b] : e[1] # k} ELSE nodes[b]
  BY <1>1 DEF obj_hashtable_ts_free
<1>4. \A b \in Buckets : nodes'[b] = {e \in nodes[b] : e[1] # k}
  <2> TAKE b \in Buckets
  <2>1. CASE b = Hash[k]
    BY <2>1, <1>3
  <2>2. CASE b # Hash[k]
    <3>1. \A e \in nodes[b] : e[1] # k
      BY <2>2, <1>1 DEF ChainsInv
    <3>2. nodes'[b] = nodes[b]
      BY <2>2, <1>3
    <3> QED BY <3>1, <3>2
  <2> QED BY <2>1, <2>2
<1>5. Elements' = {e \in Elements : e[1] # k}
  BY <1>4 DEF Elements
<1>6. /\ \A u \in Threads : u # t => th'[u] = th[u]
      /\ \A u \in Threads : u # t /\ th[u].pc \in Working => Hash[th[u].key] # Hash[k]
      /\ th'[t].pc = "freed" /\ th[t].pc = "idle"
  BY Entering DEF obj_hashtable_ts_free, Working
<1>7. \A u \in Threads : PinnedKey(u)' = PinnedKey(u)
  BY <1>6 DEF PinnedKey
<1>8. \A u \in Threads : PinnedKey(u) # k
  BY <1>6, HashAssumption DEF PinnedKey, Working
<1> QED BY <1>2, <1>5, <1>7, <1>8 DEF Abstract!Del

\* Get is Pin.
LEMMA GetIsPin ==
    ASSUME HashInv, NEW t \in Threads, NEW k \in Keys, obj_hashtable_ts_get(t, k)
    PROVE  Abstract!Pin(t, k)
<1>1. Abstract!Bound(k) /\ Elements' = Elements
  BY BoundIsFound DEF obj_hashtable_ts_get, Elements
<1>2. /\ \A u \in Threads : u # t => th'[u] = th[u]
      /\ th'[t].pc = "held" /\ th'[t].key = k /\ th[t].pc = "idle"
  BY Entering DEF obj_hashtable_ts_get, Working
<1>3. PinnedKey(t) = NoKey /\ PinnedKey(t)' = k /\ \A u \in Threads : u # t => PinnedKey(u)' = PinnedKey(u)
  BY <1>2 DEF PinnedKey
<1>4. Pins' = [Pins EXCEPT ![t] = k]
  BY <1>3 DEF Pins
<1> QED BY <1>1, <1>3, <1>4 DEF Abstract!Pin, Pins

\* Leaving the bucket after a get is Unpin, every other step of a thread
\* changes neither the elements nor a pin.
LEMMA QuietSteps ==
    ASSUME HashInv, NEW t \in Threads, nodes' = nodes,
           \A u \in Threads : u # t => th'[u] = th[u],
           th'[t].pc # "held"
    PROVE  Abstract!Unpin(t)
<1>1. Elements' = Elements
  BY DEF Elements
<1>2. PinnedKey(t)' = NoKey /\ \A u \in Threads : u # t => PinnedKey(u)' = PinnedKey(u)
  BY DEF PinnedKey
<1>3. Pins' = [Pins EXCEPT ![t] = NoKey]
  BY <1>2 DEF Pins
<1> QED BY <1>1, <1>3 DEF Abstract!Unpin, Pins

\* A reload is Clear, or changes nothing: no worker is active.
LEMMA ReloadIsClear ==
    ASSUME load_pado_delay_iface
    PROVE  [Abstract!MapNext]_<<Elements, Pins>>
<1>1. (\A t \in Threads : PinnedKey(t) = NoKey) /\ Pins' = Pins /\ UNCHANGED th
  BY DEF load_pado_delay_iface, PinnedKey, Pins
<1>2. CASE UNCHANGED nodes
  BY <1>1, <1>2 DEF Elements
<1>3. CASE obj_hashtable_ts_init
  <2>1. Elements' = {}
    BY <1>3 DEF obj_hashtable_ts_init, Elements
  <2>2. Abstract!Clear
    BY <1>1, <2>1 DEF Abstract!Clear, Pins
  <2> QED BY <2>2 DEF Abstract!MapNext
<1> QED BY <1>2, <1>3 DEF load_pado_delay_iface

\* Every step of the table is one of the map, or changes nothing there.
LEMMA StepIsMapStep ==
    HashInv /\ [HashNext]_htVars => [Abstract!MapNext]_<<Elements, Pins>>
<1> SUFFICES ASSUME HashInv, [HashNext]_htVars PROVE [Abstract!MapNext]_<<Elements, Pins>>
  OBVIOUS
<1>1. CASE UNCHANGED htVars
  BY <1>1 DEF htVars, Elements, Pins, PinnedKey
<1>2. CASE load_pado_delay_iface
  BY <1>2, ReloadIsClear
<1>3. CASE \E t \in Threads : HashStep(t)
  <2>1. PICK t \in Threads : HashStep(t)
    BY <1>3
  <2>2. th \in [Threads -> ThreadStates] /\ th[t] \in ThreadStates
    BY TypeParts DEF HashInv
  <2>3. CASE \E k \in Keys : obj_hashtable_ts_free(t, k) \/ obj_hashtable_ts_get(t, k)
                              \/ \E d \in Data : obj_hashtable_ts_insert(t, k, d)
    BY <2>3, FreeIsDel, GetIsPin, InsertIsPut DEF Abstract!MapNext
  <2>4. CASE CountRead(t) \/ CountWrite(t) \/ obj_hashtable_ts_nodes_unlock(t)
             \/ WalkStart(t) \/ WalkTest(t) \/ WalkBucket(t)
    <3>1. nodes' = nodes /\ (\A u \in Threads : u # t => th'[u] = th[u])
      BY <2>2, <2>4 DEF CountRead, CountWrite, obj_hashtable_ts_nodes_unlock, WalkStart, WalkTest,
                        WalkBucket, Unlocked, Doing
    <3>2. th'[t].pc # "held"
      <4>1. CASE CountRead(t)
        BY <4>1, <2>2 DEF CountRead, ThreadStates
      <4>2. CASE CountWrite(t) \/ obj_hashtable_ts_nodes_unlock(t)
        BY <4>2, <2>2 DEF CountWrite, obj_hashtable_ts_nodes_unlock, Unlocked, Idle
      <4>3. CASE WalkStart(t)
        BY <4>3, <2>2 DEF WalkStart, Doing, Idle
      <4>4. CASE WalkTest(t)
        BY <4>4, <2>2 DEF WalkTest, ThreadStates, Idle
      <4>5. CASE WalkBucket(t)
        BY <4>5, <2>2 DEF WalkBucket, ThreadStates
      <4> QED BY <2>4, <4>1, <4>2, <4>3, <4>4, <4>5
    <3> QED BY <3>1, <3>2, QuietSteps DEF Abstract!MapNext
  <2> QED BY <2>1, <2>3, <2>4 DEF HashStep
<1> QED BY <1>1, <1>2, <1>3 DEF HashNext

\* The table is a map whose entries stay while they are pinned, however many
\* threads work on it: hashtable users may go on with what get returned until
\* they unlock the bucket.
THEOREM TableRefinesMap == HashSpec => TableIsMap
<1>1. HashInit => Abstract!MapInit
  <2> SUFFICES ASSUME HashInit PROVE Abstract!MapInit
    OBVIOUS
  <2>1. Elements = {}
    BY DEF HashInit, Elements
  <2>2. \A t \in Threads : PinnedKey(t) = NoKey
    BY DEF HashInit, PinnedKey, Idle
  <2> QED BY <2>1, <2>2 DEF Abstract!MapInit
<1>2. HashInv /\ [HashNext]_htVars => [Abstract!MapNext]_Abstract!mapVars
  BY StepIsMapStep DEF Abstract!mapVars, Pins
<1> QED BY <1>1, <1>2, InitInv, NextInv, PTL DEF HashSpec, TableIsMap, Abstract!MapSpec
=============================================================================
