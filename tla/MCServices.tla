----------------------------- MODULE MCServices -----------------------------
(***************************************************************************)
(* Small instances of what the sessions share: session identifiers, the    *)
(* RADIUS client and the address pools.                                    *)
(* A behaviour is one of one of them; the variables of the others are Off  *)
(* (those of the identifiers keep their initial values).                   *)
(***************************************************************************)
EXTENDS PppoeSid, TLC

CONSTANTS Off, v1, v2, r1, r2, l1, l2, NoServ, NoItem

VARIABLES rad, lease, ids      \* ids: the identifiers are the part that moves

serviceVars == <<sidMap, sidIdx, sid, rad, lease, ids>>
-----------------------------------------------------------------------------
(* RADIUS: a server and a backup; a server without a route, packets that   *)
(* cannot be built, Disconnect requests, CoA requests during a shutdown,   *)
(* and a reload that removes the server while Accounting-On and the        *)
(* shutdown are under way.                                                 *)

Env(bad, dae, reload, on, down) ==
    [bad |-> bad, dae |-> dae, reload |-> reload, on |-> on, shutdown |-> down]
RadCases == {Env({v1}, {}, {}, {}, FALSE), Env({"build"}, {}, {}, {}, TRUE), Env({}, {"dm"}, {}, {}, FALSE),
             Env({}, {"coa"}, {}, {}, TRUE), Env({}, {}, {v1}, {v1}, TRUE)}

Rd == INSTANCE Radius WITH Subs <- {r1, r2}, ServList <- <<v1, v2>>, Backup <- {v2}, Ipv6 <- {},
                           ReqLimit <- 1, MaxTry <- 1, MaxFail <- 1, AcctTimeout <- TRUE,
                           Scenarios <- RadCases
-----------------------------------------------------------------------------
(* Pools: addresses of 4 bits, a chain of two IPv6 pools, two prefix pools.*)
(* PPP beside IPoE; PPP that exhausts a pool beside PPP without IPv6; IPoE *)
(* and PPP without IPv4, both with prefixes.                               *)

Block(addr, mask, len) == [addr |-> addr, mask |-> mask, len |-> len]
Alone(spec) == [spec |-> spec, next |-> "none"]
Pools ==
    [v4 |-> [default |-> Alone([gen |-> "p2p", addr |-> 2, mask |-> 3, gw |-> 8, gwmask |-> 4])],
     v6 |-> [default |-> [spec |-> Block(0, 3, 3), next |-> "extra"],
             extra |-> [spec |-> Block(4, 3, 3), next |-> "default"]],
     dp |-> [default |-> Alone(Block(8, 3, 4)), extra |-> Alone(Block(12, 2, 4))]]

NA(i, h) == [opt |-> "NA", iaid |-> i, hint |-> h]
PD(i, h) == [opt |-> "PD", iaid |-> i, hint |-> h]
Msg(t, client, server, rapid, ias) ==
    [type |-> t, client |-> client, server |-> server, rapid |-> rapid, ias |-> ias]

PppMsgs ==
    {Msg("SOLICIT", 1, "none", FALSE, <<NA(1, "none"), PD(1, "none")>>),
     Msg("SOLICIT", 1, "none", TRUE, <<PD(1, "none"), PD(2, "other")>>),
     Msg("REQUEST", 1, "ours", FALSE, <<NA(1, "other"), PD(2, "own")>>),
     Msg("REQUEST", 2, "other", FALSE, <<PD(1, "own")>>),
     Msg("RENEW", 1, "ours", FALSE, <<NA(1, "own"), PD(1, "own")>>),
     Msg("REBIND", 1, "none", FALSE, <<NA(1, "own"), PD(1, "own")>>),
     Msg("REBIND", 1, "none", FALSE, <<PD(2, "other"), NA(1, "own")>>),
     Msg("INFORMATION_REQUEST", 0, "none", FALSE, <<>>),
     Msg("INFORMATION_REQUEST", 1, "none", FALSE, <<>>),
     Msg("RELEASE", 1, "ours", FALSE, <<PD(1, "own")>>)}
IpoeMsgs ==
    {Msg("SOLICIT", 1, "none", FALSE, <<NA(1, "none"), NA(2, "none")>>),
     Msg("REQUEST", 1, "ours", FALSE, <<NA(1, "own")>>),
     Msg("REBIND", 1, "none", FALSE, <<NA(1, "own"), NA(2, "own")>>)}
V4Msgs ==
    {Msg("SOLICIT", 1, "none", FALSE, <<NA(1, "none"), PD(1, "none")>>),
     Msg("REQUEST", 1, "ours", FALSE, <<>>),
     Msg("REBIND", 1, "none", FALSE, <<NA(1, "own")>>)}

PrefixMsgs ==
    {Msg("SOLICIT", 1, "none", FALSE, <<NA(1, "none"), PD(1, "none")>>),
     Msg("REQUEST", 1, "ours", FALSE, <<PD(1, "own")>>)}

Sub(ppp, v4, v6, pool) == [ppp |-> ppp, v4 |-> v4, v6 |-> v6, pool |-> pool, dont_ifcfg |-> FALSE]
LeaseCases ==
    {[subs |-> [ppp |-> Sub(TRUE, TRUE, TRUE, "default"), ipoe |-> Sub(FALSE, FALSE, TRUE, "default")],
      reqs |-> [ppp |-> PppMsgs, ipoe |-> IpoeMsgs]],
     [subs |-> [extra |-> Sub(TRUE, TRUE, TRUE, "extra"), v4 |-> Sub(TRUE, TRUE, FALSE, "default")],
      reqs |-> [extra |-> {r \in PppMsgs : r.type # "REBIND"}, v4 |-> V4Msgs]],
     [subs |-> [ipoe |-> Sub(FALSE, FALSE, TRUE, "default"), v6 |-> Sub(TRUE, FALSE, TRUE, "default")],
      reqs |-> [ipoe |-> PrefixMsgs, v6 |-> PrefixMsgs]]}

Ls == INSTANCE Leases WITH LeaseSessions <- {l1, l2}, AddrBits <- 4, PoolConf <- Pools, ConfGw <- 1,
                           LeaseScenarios <- LeaseCases
-----------------------------------------------------------------------------
ServicesInit ==
    /\ Init
    /\ \/ ids = TRUE /\ rad = Off /\ lease = Off
       \/ ids = FALSE /\ Rd!RadInit /\ lease = Off
       \/ ids = FALSE /\ rad = Off /\ Ls!LeaseInit

ServicesNext ==
    /\ UNCHANGED ids
    /\ \/ ids /\ Next /\ UNCHANGED <<rad, lease>>
       \/ rad # Off /\ Rd!RadNext /\ UNCHANGED <<vars, lease>>
       \/ lease # Off /\ Ls!LeaseNext /\ UNCHANGED <<vars, rad>>

ServicesSpec == ServicesInit /\ [][ServicesNext]_serviceVars

Symmetric == Permutations({r1, r2}) \cup Permutations({l1, l2})
-----------------------------------------------------------------------------
\* The slots, the queues and the clients of every RADIUS server are exactly
\* the requests that hold one, wait or use it (rad_server_req_enter, _exit,
\* _cancel, rad_server_realloc, rad_server_put).
RadiusSlotsExact == rad # Off => Rd!SlotsExact

\* Whoever waits for RADIUS will hear: a request has a timer, a place in a
\* queue that moves or a wakeup under way; a request that outlives its session
\* is an accounting Stop; a CoA or Disconnect that was taken is under way.
RadiusAnswers == rad # Off => Rd!NoStrandedRequest /\ Rd!DeferredIsStop /\ Rd!CoaIsUnderWay

=============================================================================
