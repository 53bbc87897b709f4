----------------------------- MODULE MCSessions -----------------------------
(***************************************************************************)
(* The session layer in three configurations: two PPPoE sessions of one    *)
(* name with single-session = deny, a limit on starting sessions and a     *)
(* shutdown from the CLI that may be cancelled; one such session where     *)
(* SIGTERM arrives as well; and three sessions of one name and of each     *)
(* kind with single-session = replace.                                     *)
(***************************************************************************)
EXTENDS Session, TLC

CONSTANTS p1, p2, s1, s2

Pair == {p1, p2}
AllFour == Pair \cup {s1, s2}

Kinds == [s \in AllFour |-> CASE s = s1 -> "ipoe" [] s = s2 -> "tunnel" [] OTHER -> "pppoe"]
OneServer == [s \in AllFour |-> "eth0"]
OneName == [s \in AllFour |-> "alice"]

Deny(arrive, ops) == [single |-> "deny", max_starting |-> 1, arrive |-> arrive, ops |-> ops]
Replace(p) == [single |-> "replace", max_starting |-> 0, arrive |-> {s1, s2, p}, ops |-> {}]
DenyOrReplace ==
    {Deny(Pair, {"hard", "cancel"})}
    \cup {Deny({p}, {"sigterm", "hard", "cancel"}) : p \in Pair}
    \cup {Replace(p) : p \in Pair}

Symmetric == Permutations(Pair)
=============================================================================
