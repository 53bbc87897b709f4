------------------------------ MODULE MCRefine ------------------------------
(***************************************************************************)
(* Small instances of the two components that are shown to implement an    *)
(* abstract one: the L2TP control channel (a FIFO) and the hash table (a   *)
(* map with pins).  They share no state; run says which of them moves.     *)
(***************************************************************************)
EXTENDS L2tpChannel, Hashtable

CONSTANTS a, b, k1, k2, k3

VARIABLE run

TwoEnds == {a, b}
Uneven == [e \in TwoEnds |-> IF e = a THEN 3 ELSE 1]

\* Two keys that collide.
HashOf == [k \in {k1, k2, k3} |-> IF k = k2 THEN 1 ELSE 0]

RefineInit == run \in {"channel", "table"} /\ ChanInit /\ HashInit

RefineNext ==
    /\ UNCHANGED run
    /\ \/ run = "channel" /\ ChanNext /\ UNCHANGED htVars
       \/ run = "table" /\ HashNext /\ UNCHANGED chanVars

RefineSpec == RefineInit /\ [][RefineNext]_<<run, chanVars, htVars>> /\ ChanFairness

\* The structure under the two refinements: the unacknowledged messages fit the
\* peer's window and have their timer, and a bucket is changed only by the
\* thread that holds its mutex (l2tp_tunnel_push_sendqueue, l2tp_rtimeout,
\* obj_hashtable_ts_insert, obj_hashtable_ts_free).
WindowsAndChains == ChanTypeOK /\ WindowRespected /\ HashTypeOK /\ ChainsWellFormed
=============================================================================
