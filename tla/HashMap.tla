------------------------------- MODULE HashMap -------------------------------
(***************************************************************************)
(* What the thread safe hash table promises its users: a map with at most  *)
(* one datum for a key, whose entries stay while a thread has them pinned  *)
(* (between a successful get and the matching unlock).  It is emptied as a *)
(* whole only while no entry is pinned.                                    *)
(***************************************************************************)
CONSTANTS Keys, Data, Threads, NoKey

VARIABLES map,      \* set of <<key, datum>>
          pinned    \* the key each thread has pinned, or NoKey

mapVars == <<map, pinned>>

Bound(k) == \E d \in Data : <<k, d>> \in map

MapInit == map = {} /\ pinned = [t \in Threads |-> NoKey]

Put(k, d) == ~Bound(k) /\ map' = map \cup {<<k, d>>} /\ UNCHANGED pinned

Del(k) ==
    /\ Bound(k) /\ \A t \in Threads : pinned[t] # k
    /\ map' = {e \in map : e[1] # k} /\ UNCHANGED pinned

Pin(t, k) ==
    /\ pinned[t] = NoKey /\ Bound(k)
    /\ pinned' = [pinned EXCEPT ![t] = k] /\ UNCHANGED map

Unpin(t) == pinned' = [pinned EXCEPT ![t] = NoKey] /\ UNCHANGED map

Clear == (\A t \in Threads : pinned[t] = NoKey) /\ map' = {} /\ UNCHANGED pinned

MapNext ==
    \/ Clear
    \/ \E k \in Keys : Del(k) \/ \E d \in Data : Put(k, d)
    \/ \E t \in Threads : Unpin(t) \/ \E k \in Keys : Pin(t, k)

MapSpec == MapInit /\ [][MapNext]_mapVars
=============================================================================
