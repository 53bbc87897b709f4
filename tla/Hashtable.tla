------------------------------ MODULE Hashtable ------------------------------
(***************************************************************************)
(* The thread safe hash table (myhashtable.c) that finds PPPoE connections *)
(* and per-interface PADO delays: chained buckets with one mutex each, and *)
(* a count of the elements that the mutexes do not protect, since threads  *)
(* that hold different buckets update it.                                  *)
(*                                                                         *)
(* A thread's step begins when it gets the mutex it waits for; num_elements*)
(* is read and written in two steps.  The tables have no freefunc.  A      *)
(* reload of the configuration, which runs when no worker is active,       *)
(* destroys the table of PADO delays and sets it up again.                 *)
(***************************************************************************)
EXTENDS Integers, FiniteSets

CONSTANTS Keys, Data, Threads, NoKey, NoThread,
          Size,     \* number of buckets
          Hash,     \* bucket of a key
          UIntMax   \* num_elements is unsigned and wraps

ASSUME HashAssumption ==
    /\ Size \in Nat \ {0} /\ Hash \in [Keys -> 0..(Size - 1)]
    /\ UIntMax \in Nat
    /\ NoKey \notin Keys /\ NoThread \notin Threads

VARIABLES nodes,        \* the chain of each bucket: a set of <<key, datum>>
          lock_nodes,   \* the thread that holds the mutex of each bucket
          num_elements,
          th,           \* what each thread is doing: [pc, key, tmp, i, seen]
          alive,        \* no reload has followed a null or a wild pointer
          leaked        \* a reload has lost the memory of an element

htVars == <<nodes, lock_nodes, num_elements, th, alive, leaked>>

Buckets == 0..(Size - 1)
Idle == [pc |-> "idle", key |-> NoKey, tmp |-> 0, i |-> 0, seen |-> 0]

TableTypeOK ==
    /\ nodes \in [Buckets -> SUBSET (Keys \X Data)]
    /\ lock_nodes \in [Buckets -> Threads \cup {NoThread}]
    /\ num_elements \in 0..UIntMax
    /\ th \in [Threads -> [pc : {"idle", "inserted", "freed", "add", "sub", "held", "walk", "bucket"},
                           key : Keys \cup {NoKey}, tmp : 0..UIntMax, i : 0..Size, seen : Nat]]

HashTypeOK == TableTypeOK /\ alive \in BOOLEAN /\ leaked \in BOOLEAN

HashInit ==
    /\ nodes = [b \in Buckets |-> {}]
    /\ lock_nodes = [b \in Buckets |-> NoThread]
    /\ num_elements = 0
    /\ th = [t \in Threads |-> Idle]
    /\ alive = TRUE /\ leaked = FALSE

Found(k) == \E e \in nodes[Hash[k]] : e[1] = k
\* Mutant: the mutex is not waited for.
Locked_AtOnce(t, k) == lock_nodes' = [lock_nodes EXCEPT ![Hash[k]] = t]

Locked(t, k) == lock_nodes[Hash[k]] = NoThread /\ lock_nodes' = [lock_nodes EXCEPT ![Hash[k]] = t]
Doing(t, pc, k) == th' = [th EXCEPT ![t] = [Idle EXCEPT !.pc = pc, !.key = k]]

\* A key that is there keeps its old datum.
obj_hashtable_ts_insert(t, k, d) ==
    /\ th[t].pc = "idle" /\ ~Found(k) /\ Locked(t, k)
    /\ nodes' = [nodes EXCEPT ![Hash[k]] = @ \cup {<<k, d>>}]
    /\ Doing(t, "inserted", k) /\ UNCHANGED num_elements

obj_hashtable_ts_free(t, k) ==
    /\ th[t].pc = "idle" /\ Found(k) /\ Locked(t, k)
    /\ nodes' = [nodes EXCEPT ![Hash[k]] = {e \in @ : e[1] # k}]
    /\ Doing(t, "freed", k) /\ UNCHANGED num_elements

\* num_elements++ and num_elements--
Incremented(n) == IF n = UIntMax THEN 0 ELSE n + 1
Decremented(n) == IF n = 0 THEN UIntMax ELSE n - 1

CountRead(t) ==
    /\ th[t].pc \in {"inserted", "freed"}
    /\ th' = [th EXCEPT ![t].pc = IF @ = "inserted" THEN "add" ELSE "sub", ![t].tmp = num_elements]
    /\ UNCHANGED <<nodes, lock_nodes, num_elements>>

Unlocked(t) ==
    /\ lock_nodes' = [lock_nodes EXCEPT ![Hash[th[t].key]] = NoThread]
    /\ th' = [th EXCEPT ![t] = Idle]

CountWrite(t) ==
    /\ th[t].pc \in {"add", "sub"}
    /\ num_elements' = IF th[t].pc = "add" THEN Incremented(th[t].tmp) ELSE Decremented(th[t].tmp)
    /\ Unlocked(t) /\ UNCHANGED nodes

\* A get that finds the key returns with the bucket locked.
obj_hashtable_ts_get(t, k) ==
    /\ th[t].pc = "idle" /\ Found(k) /\ Locked(t, k)
    /\ Doing(t, "held", k) /\ UNCHANGED <<nodes, num_elements>>

obj_hashtable_ts_nodes_unlock(t) ==
    th[t].pc = "held" /\ Unlocked(t) /\ UNCHANGED <<nodes, num_elements>>

\* hashtable64_ts_apply_callback_on_elements and the walk of _server_stop: the
\* walk ends when it has seen num_elements elements.
WalkStart(t) ==
    th[t].pc = "idle" /\ Doing(t, "walk", NoKey) /\ UNCHANGED <<nodes, lock_nodes, num_elements>>
WalkTest(t) ==
    /\ th[t].pc = "walk"
    /\ th' = IF th[t].seen < num_elements /\ th[t].i < Size
             THEN [th EXCEPT ![t].pc = "bucket"] ELSE [th EXCEPT ![t] = Idle]
    /\ UNCHANGED <<nodes, lock_nodes, num_elements>>
WalkBucket(t) ==
    /\ th[t].pc = "bucket" /\ lock_nodes[th[t].i] = NoThread
    /\ th' = [th EXCEPT ![t].pc = "walk", ![t].i = @ + 1,
                        ![t].seen = @ + Cardinality(nodes[th[t].i])]
    /\ UNCHANGED <<nodes, lock_nodes, num_elements>>

HashStep(t) ==
    \/ \E k \in Keys :
          \/ obj_hashtable_ts_free(t, k) \/ obj_hashtable_ts_get(t, k)
          \/ \E d \in Data : obj_hashtable_ts_insert(t, k, d)
    \/ CountRead(t) \/ CountWrite(t) \/ obj_hashtable_ts_nodes_unlock(t)
    \/ WalkStart(t) \/ WalkTest(t) \/ WalkBucket(t)

\* The buckets that a loop to num_elements, instead of size, comes to; beyond
\* the last bucket it reads what is not the table's.
Reached == {b \in Buckets : b < num_elements}

obj_hashtable_ts_destroy ==
    leaked' = (leaked \/ \E b \in Buckets \ Reached : nodes[b] # {})

obj_hashtable_ts_init ==
    /\ nodes' = [b \in Buckets |-> {}]
    /\ lock_nodes' = [b \in Buckets |-> NoThread]
    /\ num_elements' = 0

\* The reload first frees the ranges of the elements, in a loop like destroy's
\* that takes node->data of the next node, which the last one does not have.
load_pado_delay_iface ==
    /\ \A t \in Threads : th[t].pc = "idle"
    /\ UNCHANGED th
    /\ \/ /\ Size < num_elements \/ \E b \in Reached : nodes[b] # {}
          /\ alive' = FALSE /\ UNCHANGED <<nodes, lock_nodes, num_elements, leaked>>
       \/ /\ \A b \in Reached : nodes[b] = {}
          /\ obj_hashtable_ts_destroy /\ obj_hashtable_ts_init /\ UNCHANGED alive

HashNext ==
    /\ alive
    /\ \/ \E t \in Threads : HashStep(t) /\ UNCHANGED <<alive, leaked>>
       \/ load_pado_delay_iface
HashSpec == HashInit /\ [][HashNext]_htVars
-----------------------------------------------------------------------------
\* A key is in the chain of its own bucket and has one datum, and the mutex of
\* a bucket is held by the one thread that is at work there: no two threads
\* change, or hold, a bucket at once (obj_hashtable_ts_insert, _free, _get).
ChainsWellFormed ==
    /\ \A b \in Buckets : \A e, f \in nodes[b] : Hash[e[1]] = b /\ (e[1] = f[1] => e = f)
    /\ \A t \in Threads :
          th[t].pc \in {"inserted", "freed", "add", "sub", "held"} =>
             th[t].key \in Keys /\ lock_nodes[Hash[th[t].key]] = t
    /\ \A t \in Threads : th[t].pc = "held" => Found(th[t].key)

Elements == UNION {nodes[b] : b \in Buckets}
PinnedKey(t) == IF th[t].pc = "held" THEN th[t].key ELSE NoKey

Abstract == INSTANCE HashMap WITH map <- Elements, pinned <- [t \in Threads |-> PinnedKey(t)]

\* The table is a map whose entries stay while they are pinned, however the
\* threads interleave: what get returned is not removed before the unlock, and
\* a reload empties it only while nothing is pinned.  Nothing is said of a
\* process that a reload has ended (ReloadSurvives).
TableIsMap == Abstract!MapSpec

\* Does not hold: the count is the number of elements when no thread is at work
\* (num_elements++ and num_elements-- under different mutexes).
CountIsExact ==
    (\A t \in Threads : th[t].pc = "idle") => num_elements = Cardinality(Elements)

\* Does not hold: a reload of the configuration gets through the table of PADO
\* delays (load_pado_delay_iface).
ReloadSurvives == alive

\* Does not hold: a reload gives back the memory of all elements, as the comment
\* on obj_hashtable_ts_destroy says (it "walks through the linked lists for each
\* possible hash value, and releases the elements").
ReloadFreesAll == ~leaked
=============================================================================
