------------------------------ MODULE Dataplane ------------------------------
(***************************************************************************)
(* What the daemon keeps in VPP for its sessions: vppapi.c, and the code   *)
(* that calls it when IPCP or IPv6CP comes up, when an IPoE session        *)
(* starts, when a session ends and when a CoA changes its rate.            *)
(*                                                                         *)
(* Every vpp_api_ function holds vpp_api_mutex until VPP has answered, so  *)
(* one call is one step.  A handler makes many of them, and handlers of    *)
(* different sessions interleave between two calls: a session's handler is *)
(* the sequence of calls it still has to make (todo).                      *)
(***************************************************************************)
EXTENDS Integers, Sequences, FiniteSets

CONSTANTS Sessions,   \* sessions
          DpScenarios,  \* records [cfg, rates, pd]: the sessions' configurations, whether
                      \* rates and CoA requests occur, whether prefixes are delegated
          MacOf,      \* [Sessions -> client MAC addresses]
          Pool,       \* IPv4 addresses of the pool
          Addr6,      \* [Sessions -> IPv6 address]
          Fixed,      \* [Sessions -> peer_addr of an IPoE session]
          Offered,    \* [Sessions -> its yiaddr where that is another one]
          Prefixes,   \* delegated prefixes, which RADIUS may give to several sessions
          Rates,      \* rates of attributes and commands, without 0
          DfltRate,   \* dflt_down_speed = dflt_up_speed
          NoAddress

VARIABLE dp

NoIndex == 0                    \* ~0: VPP gave no index
Empty == [x \in {} |-> 0]

\* cfg[s]: kind "ppp" or "ipoe"; of an IPoE session, plain: no interface of its own
\* and no ifcfg (ifindex = -1 && !opt_ifcfg), differ: yiaddr # peer_addr.
\* tab6: download_ipv6_classify_table_index is set
DpInit ==
  \E sc \in DpScenarios :
  dp = [cfg |-> sc.cfg, rates |-> sc.rates, withpd |-> sc.pd,
        st |-> [s \in Sessions |-> "new"], ip |-> [s \in Sessions |-> NoAddress],
        sw |-> [s \in Sessions |-> NoIndex], down |-> [s \in Sessions |-> NoIndex],
        up |-> [s \in Sessions |-> NoIndex], bw |-> [s \in Sessions |-> 0],
        v6 |-> [s \in Sessions |-> FALSE], tab6 |-> [s \in Sessions |-> FALSE],
        pd |-> [s \in Sessions |-> NoAddress], todo |-> [s \in Sessions |-> <<>>],
        free |-> Pool,
        ifs |-> Empty, route |-> Empty, policer |-> Empty, class |-> Empty]

-----------------------------------------------------------------------------
(* The calls                                                               *)

\* VPP's pools hand out the lowest free index
Fresh(used) == CHOOSE i \in 1 .. Cardinality(used) + 1 :
                 i \notin used /\ \A j \in 1 .. i - 1 : j \in used

Add(f, x, y) == [z \in DOMAIN f \cup {x} |-> IF z = x THEN y ELSE f[z]]
Del(f, x) == [z \in DOMAIN f \ {x} |-> f[z]]

\* a session of VPP is named by its family, MAC and PPPoE session id (one per
\* session here), or by its address for IPoE
Ppp(s) == dp.cfg[s].kind = "ppp"
If(s) == IF Ppp(s) THEN <<"ppp", s>> ELSE <<"ipoe", dp.ip[s]>>

\* an index, or ~0 when VPP already has the session or refuses it.  IPCP then
\* removes the session and tries once more, and gives up after that; IPoE does
\* not look at the result
vpp_api_pppoe_add_session(s) ==
  \/ /\ If(s) \notin DOMAIN dp.ifs
     /\ LET i == Fresh({dp.ifs[k] : k \in DOMAIN dp.ifs})
        IN dp' = [dp EXCEPT !.ifs = Add(@, If(s), i), !.sw[s] = IF Ppp(s) THEN i ELSE @,
                            !.tab6[s] = Ppp(s) /\ dp.v6[s], !.todo[s] = Tail(@)]
  \/ dp' = [dp EXCEPT !.todo[s] = IF ~Ppp(s) THEN Tail(@)
                                  ELSE IF Head(@) = "if+" THEN <<"if-", "if+2">> \o Tail(@) ELSE <<>>]

vpp_api_pppoe_del_session(s) ==
  dp' = [dp EXCEPT !.ifs = Del(@, If(s)), !.todo[s] = Tail(@)]

vpp_api_ipv6_pppoe_session(s, key, add) ==
  dp' = [dp EXCEPT !.ifs = IF add THEN Add(@, key, Fresh({dp.ifs[k] : k \in DOMAIN dp.ifs}))
                           ELSE Del(@, key),
                   !.todo[s] = Tail(@)]

\* is_multipath is 0: a route replaces the one of its prefix, and is deleted
\* whatever its path.  A path without an interface and without a next hop may
\* be refused, and nobody looks
vpp_api_ip_route(s, prefix, sw, add) ==
  \/ dp' = [dp EXCEPT !.route = IF add THEN Add(@, prefix, sw) ELSE Del(@, prefix),
                      !.todo[s] = Tail(@)]
  \/ /\ add /\ prefix = dp.pd[s] /\ sw = NoIndex
     /\ dp' = [dp EXCEPT !.todo[s] = Tail(@)]

\* a policer is named by its direction and the session's identifier
vpp_api_policer_add(s, dir) ==
  LET i == Fresh({dp.policer[k].index : k \in DOMAIN dp.policer})
      q == [dp EXCEPT !.policer = Add(@, <<dir, s>>, [index |-> i, rate |-> dp.bw[s]]),
                      !.todo[s] = Tail(@)]
  IN dp' = IF dir = "down" THEN [q EXCEPT !.down[s] = i] ELSE [q EXCEPT !.up[s] = i]

vpp_api_policer_del(s, dir) ==
  dp' = [dp EXCEPT !.policer = Del(@, <<dir, s>>), !.todo[s] = Tail(@)]

\* by index, whoever has it
vpp_api_policer_update(s, index) ==
  dp' = [dp EXCEPT !.todo[s] = Tail(@),
                   !.policer = [k \in DOMAIN @ |-> IF @[k].index = index
                                                   THEN [@[k] EXCEPT !.rate = dp.bw[s]] ELSE @[k]]]

\* what traffic a policer takes: download by address, upload by MAC; there is no
\* table ~0
vpp_api_classify_session(s, match, index, add) ==
  dp' = [dp EXCEPT !.class = IF match[1] = "none" THEN @
                             ELSE IF add THEN Add(@, match, index) ELSE Del(@, match),
                   !.todo[s] = Tail(@)]

Yiaddr(s) == IF dp.cfg[s].differ THEN Offered[s] ELSE Fixed[s]
Down6(s, addr) == <<IF dp.tab6[s] THEN "down" ELSE "none", addr>>

VppCall(s) ==
  /\ dp.todo[s] # <<>>
  /\ LET c == Head(dp.todo[s])
     IN \/ c \in {"if+", "if+2"} /\ vpp_api_pppoe_add_session(s)
        \/ c = "if-" /\ vpp_api_pppoe_del_session(s)
        \/ c \in {"if6+", "if6-"} /\ vpp_api_ipv6_pppoe_session(s, <<"ppp6", s>>, c = "if6+")
        \/ c \in {"pdif+", "pdif-"} /\ vpp_api_ipv6_pppoe_session(s, <<"ppp6", s, dp.pd[s]>>, c = "pdif+")
        \/ c \in {"route+", "route-"} /\ vpp_api_ip_route(s, dp.ip[s], dp.sw[s], c = "route+")
        \/ c \in {"yi+", "yi-"} /\ vpp_api_ip_route(s, Yiaddr(s), 0, c = "yi+")
        \/ c \in {"route6+", "route6-"} /\ vpp_api_ip_route(s, Addr6[s], dp.sw[s], c = "route6+")
        \/ c \in {"pdroute+", "pdroute-"} /\ vpp_api_ip_route(s, dp.pd[s], dp.sw[s], c = "pdroute+")
        \/ c = "down+" /\ vpp_api_policer_add(s, "down")
        \/ c = "up+" /\ vpp_api_policer_add(s, "up")
        \/ c = "down-" /\ vpp_api_policer_del(s, "down")
        \/ c = "up-" /\ vpp_api_policer_del(s, "up")
        \/ c = "down=" /\ vpp_api_policer_update(s, dp.down[s])
        \/ c = "up=" /\ vpp_api_policer_update(s, dp.up[s])
        \/ c \in {"cdown+", "cdown-"}
           /\ vpp_api_classify_session(s, <<"down", dp.ip[s]>>, dp.down[s], c = "cdown+")
        \/ c \in {"cup+", "cup-"}
           /\ vpp_api_classify_session(s, <<"up", MacOf[s]>>, dp.up[s], c = "cup+")
        \/ c \in {"c6+", "c6-"}
           /\ vpp_api_classify_session(s, Down6(s, Addr6[s]), dp.down[s], c = "c6+")
        \/ c \in {"pdc+", "pdc-"}
           /\ vpp_api_classify_session(s, Down6(s, dp.pd[s]), dp.down[s], c = "pdc+")

-----------------------------------------------------------------------------
(* The handlers of a session                                               *)

Resting(s) == dp.todo[s] = <<>>
Rate(s) == IF dp.bw[s] = 0 THEN DfltRate ELSE dp.bw[s]

\* Access-Accept: the rate of the attributes, or the default
Accept(s, rate) ==
  /\ dp.st[s] = "new" /\ Resting(s) /\ (rate # DfltRate => dp.rates)
  /\ dp' = [dp EXCEPT !.st[s] = "auth", !.bw[s] = rate]

\* IPCP opened: the address was taken from the pool while it was negotiated
setup_pppoe_policer_vpp(s, ip) ==
  /\ Ppp(s) /\ dp.st[s] \in {"auth", "up"} /\ dp.ip[s] = NoAddress /\ Resting(s)
  /\ ip \in dp.free
  /\ dp' = [dp EXCEPT !.st[s] = "up", !.ip[s] = ip, !.free = @ \ {ip}, !.bw[s] = Rate(s),
       !.todo[s] = <<"if+", "route+">> \o (IF dp.v6[s] THEN <<"route6+">> ELSE <<>>)
                   \o <<"down+", "cdown+", "up+", "cup+">>
                   \o (IF dp.v6[s] THEN <<"c6+">> ELSE <<>>)]

\* IPv6CP opened, before or after IPCP
setup_ipv6_pppoe_policer_vpp(s) ==
  /\ Ppp(s) /\ dp.st[s] \in {"auth", "up"} /\ ~dp.v6[s] /\ Resting(s)
  /\ dp' = [dp EXCEPT !.st[s] = "up", !.v6[s] = TRUE, !.bw[s] = Rate(s),
       !.tab6[s] = @ \/ dp.sw[s] # NoIndex,
       !.todo[s] = (IF dp.sw[s] # NoIndex THEN <<"route6+", "c6+">> ELSE <<>>) \o <<"if6+">>]

\* a Request or Confirm for a prefix over DHCPv6, once per session
insert_dp_routes(s, p) ==
  /\ dp.withpd /\ dp.st[s] = "up" /\ Resting(s) /\ dp.pd[s] = NoAddress /\ (Ppp(s) => dp.v6[s])
  /\ dp' = [dp EXCEPT !.pd[s] = p,
       !.todo[s] = IF Ppp(s) THEN <<"pdroute+", "pdif+", "pdc+">> ELSE <<"pdroute+", "pdc+">>]

\* the session is active; it is started at once, or when the accounting server
\* has answered
IpoeStarted(s) ==
  <<"if+", "down+", "cdown+", "up+", "cup+">> \o (IF dp.cfg[s].differ THEN <<"yi+">> ELSE <<>>)

ipoe_session_activate(s, acct) ==
  /\ ~Ppp(s) /\ dp.st[s] = "auth" /\ Resting(s)
  /\ dp' = [dp EXCEPT !.st[s] = IF acct THEN "active" ELSE "up", !.bw[s] = IF acct THEN @ ELSE Rate(s),
                      !.ip[s] = Fixed[s],
                      !.todo[s] = (IF acct THEN <<>> ELSE IpoeStarted(s))
                                  \o (IF dp.cfg[s].plain THEN <<"yi+">> ELSE <<>>)]

ipoe_session_started(s) ==
  /\ ~Ppp(s) /\ dp.st[s] = "active" /\ Resting(s)
  /\ dp' = [dp EXCEPT !.st[s] = "up", !.bw[s] = Rate(s), !.todo[s] = IpoeStarted(s)]

\* a CoA that names a rate, and one that does not: the second puts the default
\* into the session and leaves the policers alone
ev_radius_coa(s, rate) ==
  /\ dp.rates /\ dp.st[s] \in {"auth", "active", "up"} /\ Resting(s) /\ dp.bw[s] # rate
  /\ dp' = [dp EXCEPT !.bw[s] = rate, !.todo[s] = <<"up=", "down=">>]

CoaWithoutRate(s) ==
  /\ dp.rates /\ dp.st[s] \in {"auth", "active", "up"} /\ Resting(s) /\ dp.bw[s] # DfltRate
  /\ dp' = [dp EXCEPT !.bw[s] = DfltRate]

\* destablish_ppp removes what it finds of IPv6 while the session still has its
\* addresses, ap_session_finished returns the addresses to the pool
destablish_ppp(s) ==
  /\ Ppp(s) /\ dp.st[s] \in {"new", "auth", "up"} /\ Resting(s)
  /\ dp' = [dp EXCEPT !.st[s] = "finished",
              !.todo[s] = IF dp.v6[s] THEN <<"route6-", "c6-", "if6-">> ELSE <<>>]

ap_session_finished(s) ==
  /\ Ppp(s) /\ dp.st[s] = "finished" /\ Resting(s)
  /\ dp' = [dp EXCEPT !.st[s] = "returned",
                      !.free = IF dp.ip[s] = NoAddress THEN @ ELSE @ \cup {dp.ip[s]}]

\* ipcp_layer_free and ipv6cp_layer_free, when destroy_ppp_channel frees the
\* layers; without an interface both return at once, and the prefix that was
\* returned with the addresses is still the session's ipv6_dp
release_pppoe_policer_vpp(s) == <<"route-", "down-", "cdown-", "up-", "cup-", "if-">>

release_ipv6_pppoe_policer_vpp(s) ==
  IF dp.v6[s] /\ dp.pd[s] # NoAddress THEN <<"pdroute-", "pdif-", "pdc-">> ELSE <<>>

destroy_ppp_channel(s) ==
  /\ Ppp(s) /\ dp.st[s] = "returned" /\ Resting(s)
  /\ dp' = [dp EXCEPT !.st[s] = "gone",
       !.todo[s] = IF dp.sw[s] = NoIndex THEN <<>>
                   ELSE release_pppoe_policer_vpp(s) \o release_ipv6_pppoe_policer_vpp(s)]

ipoe_session_finished(s) ==
  /\ ~Ppp(s) /\ dp.st[s] \in {"new", "auth", "active", "up"} /\ Resting(s)
  /\ dp' = [dp EXCEPT !.st[s] = "gone",
       !.todo[s] = (IF dp.st[s] = "up" THEN <<"if-", "down-", "cdown-", "up-", "cup-">> ELSE <<>>)
                   \o (IF dp.st[s] \in {"active", "up"} /\ dp.cfg[s].plain THEN <<"yi-">> ELSE <<>>)]

DpNext ==
  \E s \in Sessions :
    \/ VppCall(s)
    \/ \E r \in Rates : Accept(s, r) \/ ev_radius_coa(s, r)
    \/ Accept(s, DfltRate) \/ CoaWithoutRate(s)
    \/ \E ip \in Pool : setup_pppoe_policer_vpp(s, ip)
    \/ setup_ipv6_pppoe_policer_vpp(s)
    \/ \E acct \in BOOLEAN : ipoe_session_activate(s, acct)
    \/ ipoe_session_started(s)
    \/ \E p \in Prefixes : insert_dp_routes(s, p)
    \/ destablish_ppp(s) \/ ap_session_finished(s) \/ destroy_ppp_channel(s)
    \/ ipoe_session_finished(s)

DpSpec == DpInit /\ [][DpNext]_dp

-----------------------------------------------------------------------------
(* Properties                                                              *)

Has(s, dir) == <<dir, s>> \in DOMAIN dp.policer

\* What the code never removes.  A delegated prefix is removed by
\* ipv6cp_layer_free only, so it stays when the session is an IPoE session or has
\* no interface of IPCP; the route of a yiaddr that is not the peer's address is
\* removed only with the one that a session without interface has anyway.
KeepsPrefix(s) == dp.pd[s] # NoAddress /\ (~Ppp(s) \/ dp.sw[s] = NoIndex)
KeepsYiaddr(s) == ~Ppp(s) /\ dp.cfg[s].differ /\ ~dp.cfg[s].plain

\* Sessions that are over leave no policer, no classifier and no interface in
\* VPP, and no route but those, however setups and releases of the sessions
\* interleave, calls are refused and addresses reused (setup_pppoe_policer_vpp and
\* release_pppoe_policer_vpp, ipoe_session_started and _finished).
NothingLeft ==
  (\A s \in Sessions : dp.st[s] = "gone" /\ Resting(s)) =>
    /\ DOMAIN dp.policer = {} /\ DOMAIN dp.class = {}
    /\ DOMAIN dp.ifs \subseteq {<<"ppp6", s, dp.pd[s]>> : s \in {t \in Sessions : KeepsPrefix(t)}}
    /\ DOMAIN dp.route \subseteq {dp.pd[s] : s \in {t \in Sessions : KeepsPrefix(t)}}
                               \cup {Yiaddr(s) : s \in {t \in Sessions : KeepsYiaddr(t)}}

\* The policer whose rate a CoA changes is the session's own, although VPP
\* reuses indices and the session keeps an index after its policer is deleted.
CoaIsOwn ==
  \A s \in Sessions : dp.todo[s] # <<>> =>
    /\ (Head(dp.todo[s]) = "down=" /\ dp.down[s] # NoIndex) =>
         Has(s, "down") /\ dp.policer[<<"down", s>>].index = dp.down[s]
    /\ (Head(dp.todo[s]) = "up=" /\ dp.up[s] # NoIndex) =>
         Has(s, "up") /\ dp.policer[<<"up", s>>].index = dp.up[s]

\* Does not hold: a session that is up and set up is routed and policed.
UpIsRouted ==
  \A s \in Sessions :
    (dp.st[s] = "up" /\ Resting(s) /\ dp.sw[s] # NoIndex) =>
      /\ dp.ip[s] \in DOMAIN dp.route /\ dp.route[dp.ip[s]] = dp.sw[s]
      /\ <<"down", dp.ip[s]>> \in DOMAIN dp.class

\* Does not hold: the rate a session shows is the rate of its policers.
RateIsPoliced ==
  \A s \in Sessions :
    (dp.st[s] = "up" /\ Resting(s) /\ Has(s, "up")) => dp.policer[<<"up", s>>].rate = dp.bw[s]
=============================================================================
