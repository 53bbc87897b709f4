----------------------------- MODULE MCSession -----------------------------
(* Small instances of the session layer under a soft shutdown. *)
EXTENDS Session

CONSTANTS s1, s2

AllPppoe == [s \in Sessions |-> "pppoe"]
OneIpoe == [s \in Sessions |-> IF s = s1 THEN "ipoe" ELSE "pppoe"]

OneServer == [s \in Sessions |-> "eth0"]
OneName == [s \in Sessions |-> "alice"]
OwnName == [s \in Sessions |-> s]

Soft(single) == {[single |-> single, max_starting |-> 0, arrive |-> Sessions, ops |-> {"soft"}]}
Replacing == Soft("replace")
Independent == Soft("off")
=============================================================================
