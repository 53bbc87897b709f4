------------------------------- MODULE Leases -------------------------------
(***************************************************************************)
(* Addresses and prefixes from the pools (extra/ippool.c, ipv6pool.c,      *)
(* ipdb.c) to the subscriber: DHCPv6 inside PPP (ppp/dhcpv6.c, part of the *)
(* daemon) and on IPoE interfaces (ipv6/dhcpv6.c, the module ipv6_dhcp),   *)
(* router advertisements (ppp/nd.c, ipv6/nd.c), and what the end of a      *)
(* session takes back (session.c, ifcfg.c, ppp_ipv6cp.c).                  *)
(*                                                                         *)
(* Every handler of a session runs under its own context; the pools are    *)
(* shared by all.  The end of a PPP session is two steps, since other      *)
(* contexts run between the return of its leases and the release of its    *)
(* layers.  Addresses are numbers of AddrBits bits.                        *)
(***************************************************************************)
EXTENDS Integers, FiniteSets, SequencesExt

CONSTANTS LeaseSessions,    \* bound: sessions that exist at a time
          AddrBits,         \* width of an address
          PoolConf,         \* kind -> pool name -> [spec, next]: the pool sections
          ConfGw,           \* gw-ip-address, 0: not given
          LeaseScenarios,   \* sets of subscribers and requests that are explored together
          NoItem            \* no lease

VARIABLE lease  \* [env, pool, ses, inst, onif, routes, twice, crash]

Mods == {"ppp", "ipv6_dhcp"}
NoPd == [used |-> FALSE, client |-> 0, addr_iaid |-> 0, dp_iaid |-> 0, dp_active |-> FALSE]
NoLease == [st |-> "none", sub |-> "none", v4 |-> NoItem, v6 |-> NoItem, dp |-> NoItem, gw |-> 0,
            pd |-> [m \in Mods |-> NoPd], nd |-> [m \in Mods |-> FALSE]]
-----------------------------------------------------------------------------
(* The pools.  An item is [kind, pool, n]; a pool's free items are a queue. *)

Pow2(n) == 2 ^ n
Range1(begin, m) == LET h == Pow2(AddrBits - m) IN <<begin, (begin \div h) * h + h - 1>>

\* x.x.x.x/mask: every address from the one that is written to the last.
add_range(begin, m) ==
    LET r == Range1(begin, m) IN [i \in 1..(r[2] - begin + 1) |-> begin + i - 1]

\* One remote address per local one, or all with gw-ip-address, which is left
\* out of the remote ones.
generate_pool_p2p(gw, tunnel) ==
    IF ConfGw # 0 THEN SelectSeq(tunnel, LAMBDA a : a # ConfGw)
    ELSE SubSeq(tunnel, 1, IF Len(gw) < Len(tunnel) THEN Len(gw) ELSE Len(tunnel))

\* Of every four addresses the third is leased.
generate_pool_net30(tunnel) == [i \in 1..((Len(tunnel) + 1) \div 4) |-> tunnel[4 * i - 1]]

generate_ippool(addr, mask, len) ==
    LET step == Pow2(AddrBits - len)
    IN [i \in 1..((Range1(addr, mask)[2] - addr) \div step + 1) |-> addr + (i - 1) * step]
generate_dppool(addr, mask, len) == generate_ippool(addr, mask, len)

\* An entry whose prefix is shorter than its mask is refused.
add_prefix(k, s) ==
    CASE s.len > AddrBits \/ s.len < s.mask -> <<>>
      [] k = "dp" /\ s.len \in s.mask..AddrBits -> generate_dppool(s.addr, s.mask, s.len)
      [] OTHER -> generate_ippool(s.addr, s.mask, s.len)

ippool_init2(s) == IF s.gen = "net30" THEN generate_pool_net30(add_range(s.addr, s.mask))
                   ELSE generate_pool_p2p(add_range(s.gw, s.gwmask), add_range(s.addr, s.mask))
ippool6_init2(k, s) == add_prefix(k, s)

InitialPool(k, p) ==
    LET s == PoolConf[k][p].spec
        ns == IF k = "v4" THEN ippool_init2(s) ELSE ippool6_init2(k, s)
    IN [i \in 1..Len(ns) |-> [kind |-> k, pool |-> p, n |-> ns[i]]]

find_pool(k, name) == IF name \in DOMAIN PoolConf[k] THEN name ELSE "none"

\* The pools that the loop visits from p, as far as it is not back at p.
Visited(k, p) ==
    LET at[i \in 0..Cardinality(DOMAIN PoolConf[k])] ==
            IF i = 0 THEN p ELSE IF at[i - 1] = "none" THEN "none" ELSE PoolConf[k][at[i - 1]].next
        back == {i \in DOMAIN at : at[i] = "none" \/ (i > 0 /\ at[i] = p)}
    IN {<<i, at[i]>> : i \in {j \in DOMAIN at : \A b \in back : j < b}}

Take(w, k, name) ==
    LET p == find_pool(k, name)
        full == IF p = "none" THEN {} ELSE {v \in Visited(k, p) : w.pool[k][v[2]] # <<>>}
    IN IF full = {} THEN [w |-> w, it |-> NoItem]
       ELSE LET q == (CHOOSE v \in full : \A u \in full : v[1] <= u[1])[2]
            IN [w |-> [w EXCEPT !.pool[k][q] = Tail(@)], it |-> Head(w.pool[k][q])]

\* An item that is put while it is in the list ties the list to itself: it is
\* handed out once more and the take after that follows a null pointer.  twice
\* holds such items, and whose they were.
Put(w, s, it) ==
    IF it \in Range(w.pool[it.kind][it.pool]) THEN [w EXCEPT !.twice = @ \cup {[it |-> it, by |-> w.ses[s].sub]}]
    ELSE [w EXCEPT !.pool[it.kind][it.pool] = Append(@, it)]

\* The local address is gw-ip-address for PPP and 0 for IPoE, whatever the gw
\* ranges are.
get_ip4(w, s, name, ppp) ==
    LET o == Take(w, "v4", name)
    IN [o.w EXCEPT !.ses[s].v4 = o.it, !.ses[s].gw = IF o.it # NoItem /\ ppp THEN ConfGw ELSE 0]
put_ip4(w, s, it) == Put(w, s, it)
get_ip6(w, s, name) == LET o == Take(w, "v6", name) IN [o.w EXCEPT !.ses[s].v6 = o.it]

put_ip6(w, s, it) == Put(w, s, it)
get_dp(w, s, name) == LET o == Take(w, "dp", name) IN [o.w EXCEPT !.ses[s].dp = o.it]
put_dp(w, s, it) == Put(w, s, it)

ipdb_get_ipv6_prefix(w, s) == get_dp(w, s, w.env.subs[w.ses[s].sub].pool)
-----------------------------------------------------------------------------
(* Sessions. *)

Sub(w, s) == w.env.subs[w.ses[s].sub]

\* The address is configured on the interface the first time it is announced.
Install(w, s) ==
    LET it == w.ses[s].v6
    IN IF it \in w.inst THEN w
       ELSE [w EXCEPT !.inst = @ \cup {it}, !.onif = IF Sub(w, s).ppp THEN @ ELSE @ \cup {<<s, it>>}]

ipv6_nd_send_ra(w, s) == Install(w, s)

\* A PPP session is advertised by the daemon's own code only, an IPoE session
\* by both.
ipv6_nd_start(w, s) == ipv6_nd_send_ra([w EXCEPT !.ses[s].nd["ppp"] = TRUE], s)
ipoe_nd_start(w, s) == IF Sub(w, s).ppp THEN w
                       ELSE ipv6_nd_send_ra([w EXCEPT !.ses[s].nd["ipv6_dhcp"] = TRUE], s)
nd_ev_ses_started(w, s) ==
    IF w.ses[s].v6 = NoItem THEN w ELSE ipoe_nd_start(ipv6_nd_start(w, s), s)
nd_ev_ses_finishing(w, s) == [w EXCEPT !.ses[s].nd = [m \in Mods |-> FALSE]]

\* PPP code keeps data of every session, IPoE's of IPoE sessions that have
\* an address.
ev_ses_started(w, s) == [w EXCEPT !.ses[s].pd["ppp"] = [NoPd EXCEPT !.used = TRUE]]
ipoe_ev_ses_started(w, s) ==
    IF Sub(w, s).ppp \/ w.ses[s].v6 = NoItem THEN w
    ELSE [w EXCEPT !.ses[s].pd["ipv6_dhcp"] = [NoPd EXCEPT !.used = TRUE]]

\* An interface that is not ours to configure keeps the installed marks.
ap_session_ifup(w, s) ==
    LET x == IF w.ses[s].v6 = NoItem \/ Sub(w, s).dont_ifcfg THEN w
             ELSE [w EXCEPT !.inst = @ \ {w.ses[s].v6}]
    IN nd_ev_ses_started(ipoe_ev_ses_started(ev_ses_started([x EXCEPT !.ses[s].st = "started"], s), s), s)

ap_session_ifdown(w, s) ==
    IF w.ses[s].v6 \notin w.inst THEN w ELSE [w EXCEPT !.onif = @ \ {<<s, w.ses[s].v6>>}]

ap_session_terminate(w, s) ==
    nd_ev_ses_finishing(ap_session_ifdown([w EXCEPT !.ses[s].st = "finishing"], s), s)

\* The pool names come with the Access-Accept.
ev_radius_access_accept(w, s, u) == [w EXCEPT !.ses[s] = [NoLease EXCEPT !.st = "starting", !.sub = u]]

SessionStart(w, s, u) ==
    LET sub == w.env.subs[u]
        a == ev_radius_access_accept(w, s, u)
        b == IF sub.v4 THEN get_ip4(a, s, sub.pool, sub.ppp) ELSE a
    IN IF sub.v6 THEN get_ip6(b, s, sub.pool) ELSE b
-----------------------------------------------------------------------------
(* DHCPv6.  m is the code that received the request, w.ses[s].pd[m] its    *)
(* data; ia is an IA_NA or IA_PD option with its hint ("own": what the     *)
(* session has, "other", "none").  A fold over the options carries         *)
(* [w, na, dp, sent]: na and dp tell that one was answered already.        *)

\* The route leads to the unit that carries IPv4; without one it has no
\* interface.  The mark says whether the session has such a unit.
HasUnit(w, s) == Sub(w, s).ppp /\ Sub(w, s).v4
insert_dp_routes(w, s, m) ==
    [w EXCEPT !.routes = {r \in @ : r[2] # w.ses[s].dp} \cup {<<s, w.ses[s].dp, HasUnit(w, s)>>},
              !.ses[s].pd[m].dp_active = TRUE]

Commits(req) == req.type = "REQUEST" \/ req.rapid
Crash(o) == [o EXCEPT !.w.crash = TRUE, !.sent = FALSE]

ReplyNa(o, s, m, req, ia) ==
    CASE req.type = "RENEW" /\ o.w.ses[s].pd[m].addr_iaid # ia.iaid -> o
      [] o.w.ses[s].v6 = NoItem /\ (req.type # "RENEW" \/ o.w.ses[s].pd[m].addr_iaid = ia.iaid) -> Crash(o)
      [] o.w.ses[s].v6 # NoItem /\ o.na -> o
      [] OTHER -> [o EXCEPT !.na = TRUE,
                            !.w = Install([@ EXCEPT !.ses[s].pd[m].addr_iaid =
                                             IF Commits(req) THEN ia.iaid ELSE @], s)]

\* A prefix is taken by the first request that asks for one, a Solicit too;
\* with none left there is no reply at all.
ReplyPd(o, s, m, req, ia) ==
    LET x == IF o.w.ses[s].dp = NoItem THEN ipdb_get_ipv6_prefix(o.w, s) ELSE o.w
        y == IF Commits(req) THEN [x EXCEPT !.ses[s].pd[m].dp_iaid = ia.iaid] ELSE x
    IN CASE x.ses[s].dp = NoItem -> [o EXCEPT !.sent = FALSE]
         [] x.ses[s].dp # NoItem /\ ((req.type = "RENEW" /\ x.ses[s].pd[m].dp_iaid # ia.iaid) \/ o.dp) ->
            [o EXCEPT !.w = x]
         [] OTHER ->
            [o EXCEPT !.dp = TRUE,
                      !.w = IF ~Commits(req) \/ y.ses[s].pd[m].dp_active THEN y
                            ELSE insert_dp_routes(y, s, m)]

Options(w) == [w |-> w, na |-> FALSE, dp |-> FALSE, sent |-> TRUE]

dhcpv6_send_reply(w, s, m, req) ==
    FoldLeft(LAMBDA o, ia : IF ~o.sent \/ req.type = "INFORMATION_REQUEST" THEN o
                            ELSE IF ia.opt = "NA" THEN ReplyNa(o, s, m, req, ia)
                            ELSE ReplyPd(o, s, m, req, ia),
             Options(w), req.ias).w

\* Rebind: a hint that is not ours, or that comes second, ends it without a
\* reply; the identifiers that were accepted before it stay.
RebindIa(o, s, m, ia) ==
    LET x == IF ia.opt = "PD" /\ o.w.ses[s].dp = NoItem THEN ipdb_get_ipv6_prefix(o.w, s) ELSE o.w
        known == ia.hint = "own" /\ ~(IF ia.opt = "NA" THEN o.na ELSE o.dp)
    IN CASE ia.opt = "PD" /\ x.ses[s].dp = NoItem -> [o EXCEPT !.sent = FALSE]
         [] ia.opt = "NA" /\ ia.hint # "none" /\ x.ses[s].v6 = NoItem -> Crash(o)
         [] ia.opt = "NA" /\ x.ses[s].v6 # NoItem /\ known ->
            [o EXCEPT !.w = [x EXCEPT !.ses[s].pd[m].addr_iaid = ia.iaid], !.na = TRUE]
         [] ia.opt = "PD" /\ x.ses[s].dp # NoItem /\ known ->
            [o EXCEPT !.w = [x EXCEPT !.ses[s].pd[m].dp_iaid = ia.iaid], !.dp = TRUE]
         [] OTHER -> [o EXCEPT !.w = x, !.sent = (ia.hint = "none")]

dhcpv6_send_reply2(w, s, m, req) ==
    FoldLeft(LAMBDA o, ia : IF o.sent THEN RebindIa(o, s, m, ia) ELSE o, Options(w), req.ias).w

\* client: the identifier the session is bound to, 0 for none.
dhcpv6_recv_solicit(req, client) ==
    IF req.server # "none" \/ (req.rapid /\ client \notin {0, req.client}) THEN "none" ELSE "reply"
\* Whose server identifier it is, is not looked at.
dhcpv6_recv_request(req, client) ==
    IF req.server = "none" \/ client \notin {0, req.client} THEN "none" ELSE "reply"
dhcpv6_recv_renew(req, client) == IF req.server # "ours" \/ client # req.client THEN "none" ELSE "reply"
dhcpv6_recv_information_request(req) == IF req.rapid THEN "none" ELSE "reply"
dhcpv6_recv_rebind(req, client) == IF req.server # "none" \/ client # req.client THEN "none" ELSE "reply2"

\* What a request leads to: no answer, a reply, or the reply to a Rebind.
Verdict(req, client) ==
    CASE req.type = "SOLICIT" -> dhcpv6_recv_solicit(req, client)
      [] req.type = "REQUEST" -> dhcpv6_recv_request(req, client)
      [] req.type = "RENEW" -> dhcpv6_recv_renew(req, client)
      [] req.type = "REBIND" -> dhcpv6_recv_rebind(req, client)
      [] req.type = "INFORMATION_REQUEST" -> dhcpv6_recv_information_request(req)
      [] req.type \in {"RELEASE", "DECLINE"} -> "none"

dhcpv6_recv_packet(w, s, m, req, verdict) ==
    CASE verdict = "none" -> w
      [] verdict = "reply2" -> dhcpv6_send_reply2(w, s, m, req)
      [] OTHER -> dhcpv6_send_reply([w EXCEPT !.ses[s].pd[m].client = IF Commits(req) THEN req.client ELSE @],
                                    s, m, req)

\* A request without a client identifier goes no further.
dhcpv6_read(w, s, m, req) ==
    IF ~w.ses[s].pd[m].used \/ req.client = 0 THEN w 
    ELSE dhcpv6_recv_packet(w, s, m, req, Verdict(req, w.ses[s].pd[m].client))
-----------------------------------------------------------------------------
(* The end. *)

\* Each of the two codes returns the prefix if it knows the session, so that of
\* an IPoE session is returned by both.
ev_ses_finished(w, s, m) ==
    IF ~w.ses[s].pd[m].used THEN w
    ELSE LET x == [w EXCEPT !.ses[s].pd[m] = NoPd] IN IF x.ses[s].dp = NoItem THEN x ELSE put_dp(x, s, x.ses[s].dp)

\* The prefix stays in the session after it was returned.
ap_session_finished(w, s) ==
    LET e == w.ses[s]
        a == IF e.v4 = NoItem THEN w ELSE put_ip4(w, s, e.v4)
        b == IF e.v6 = NoItem THEN a ELSE put_ip6(a, s, e.v6)
        c == ev_ses_finished(
                ev_ses_finished([b EXCEPT !.ses[s].v4 = NoItem, !.ses[s].v6 = NoItem], s, "ppp"), s, "ipv6_dhcp")
    IN IF Sub(w, s).ppp THEN [c EXCEPT !.ses[s].st = "finished"] ELSE [c EXCEPT !.ses[s] = NoLease]

\* Freed with IPV6CP: the routes of the prefix go, whoever has them now,
\* unless the session had no IPv4 unit.
release_ipv6_pppoe_policer_vpp(w, s) ==
    [w EXCEPT !.ses[s] = NoLease,
              !.routes = IF w.ses[s].dp = NoItem \/ ~HasUnit(w, s) \/ ~Sub(w, s).v6 THEN @
                         ELSE {r \in @ : r[2] # w.ses[s].dp}]
-----------------------------------------------------------------------------
LeaseInit ==
    lease \in {[env |-> e, pool |-> [k \in DOMAIN PoolConf |-> [p \in DOMAIN PoolConf[k] |-> InitialPool(k, p)]],
                ses |-> [s \in LeaseSessions |-> NoLease], inst |-> {}, onif |-> {}, routes |-> {},
                twice |-> {}, crash |-> FALSE] : e \in LeaseScenarios}

\* A session takes part in DHCPv6 as long as it is not finished; its requests
\* reach the code of its own kind.
LeaseStep(s) ==
    LET st == lease.ses[s].st
    IN \/ st = "none" /\ \E u \in DOMAIN lease.env.subs : lease' = SessionStart(lease, s, u)
       \/ st = "starting" /\ lease' = ap_session_ifup(lease, s)
       \/ st = "started" /\ lease' = ap_session_terminate(lease, s)
       \/ st \in {"starting", "finishing"} /\ lease' = ap_session_finished(lease, s)
       \/ st = "finished" /\ lease' = release_ipv6_pppoe_policer_vpp(lease, s)
       \/ /\ st \in {"started", "finishing"}
          /\ \E req \in lease.env.reqs[lease.ses[s].sub] :
                lease' = dhcpv6_read(lease, s, IF Sub(lease, s).ppp THEN "ppp" ELSE "ipv6_dhcp", req)

\* nothing is said of what follows a null pointer or a list tied to itself
LeaseNext == ~lease.crash /\ lease.twice = {} /\ \E s \in LeaseSessions : LeaseStep(s)
LeaseSpec == LeaseInit /\ [][LeaseNext]_lease
-----------------------------------------------------------------------------
(* Properties. *)

Free(k) == UNION {{<<p, i>> : i \in DOMAIN lease.pool[k][p]} : p \in DOMAIN PoolConf[k]}
Holders(it) ==
    {s \in LeaseSessions : \/ lease.ses[s].v4 = it \/ lease.ses[s].v6 = it
                           \/ lease.ses[s].dp = it /\ lease.ses[s].st # "finished"}
AllItems == UNION {UNION {Range(InitialPool(k, p)) : p \in DOMAIN PoolConf[k]} : k \in DOMAIN PoolConf}

\* Every address and prefix of the pools (ippool.c, ipv6pool.c) is either free,
\* once, or leased to exactly one session, through every order of requests,
\* aborted starts and ends; what is returned twice is a prefix, and not one that
\* a PPP session returned (the two ev_ses_finished of an IPoE session do).
LeasedOnce ==
    /\ \A it \in AllItems :
         Cardinality({f \in Free(it.kind) : lease.pool[it.kind][f[1]][f[2]] = it}) + Cardinality(Holders(it)) = 1
    /\ \A t \in lease.twice : t.it.kind = "dp" /\ ~lease.env.subs[t.by].ppp

\* No route is left of a PPP session with IPv4 that is gone, and none leads to
\* a session that does not have the prefix (insert_dp_routes, which runs once per
\* session, and release_ipv6_pppoe_policer_vpp after the prefix was returned).
\* Routes of other sessions are never removed but by the next holder.
RoutesAreOwned == \A r \in lease.routes : r[3] => lease.ses[r[1]].dp = r[2]

\* A prefix that was committed to a session (dp_active) is routed to it until
\* the session ends.  Not so: a former holder frees its layers after it
\* returned the prefix, and takes the new holder's route away.
DelegatedIsRouted ==
    \A s \in LeaseSessions : lease.ses[s].pd["ppp"].dp_active => \E r \in lease.routes : r[1] = s /\ r[2] = lease.ses[s].dp

\* What an IPoE session that is up announces is configured on its interface,
\* and nothing of a former session is (ipv6_nd_send_ra, ap_session_ifdown).
AnnouncedIsInstalled ==
    /\ \A s \in LeaseSessions : lease.ses[s].nd["ipv6_dhcp"] /\ lease.ses[s].st = "started" =>
                                   <<s, lease.ses[s].v6>> \in lease.onif
    /\ \A p \in lease.onif : lease.ses[p[1]].v6 = p[2]
=============================================================================
