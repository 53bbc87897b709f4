------------------------------- MODULE MCPpp -------------------------------
(* Small instances of one PPP session. *)
EXTENDS Ppp

\* IPCP alone, behind an authentication or not.
IpcpOnly == {[order |-> <<"ipcp">>, mode |-> [ipcp |-> "require"], noauth |-> x] : x \in BOOLEAN}

\* IPCP and IPv6CP behind an authentication, and IPCP with an optional CCP and
\* no authentication.
DualOrCcp ==
    {[order |-> <<"ipcp", "ipv6cp">>, mode |-> [ipcp |-> "prefer", ipv6cp |-> "allow"], noauth |-> FALSE],
     [order |-> <<"ccp", "ipcp">>, mode |-> [ccp |-> "prefer", ipcp |-> "prefer"], noauth |-> TRUE]}

AllCodes == {"ConfReq", "ConfAck", "ConfNak", "ConfRej", "TermReq", "TermAck",
             "CodeRej", "Echo", "ProtoRej", "Auth", "Padt"}
NoTermAck == AllCodes \ {"TermAck"}
Vanishing == (AllCodes \ {"CodeRej", "TermAck"}) \cup {"Silence"}
=============================================================================
