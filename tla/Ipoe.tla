-------------------------------- MODULE Ipoe --------------------------------
(***************************************************************************)
(* IPoE (micro-bngd/ctrl/ipoe): the sessions of one interface, started by  *)
(* DHCPv4, by unclassified packets or ARP, or with the interface; DHCP     *)
(* with a range of the interface, a pool, or a relay; delayed offers;      *)
(* option 82; L4 redirection; the cache of session interfaces; the         *)
(* release of the interface's server, and the part of the session layer    *)
(* they use (session.c).                                                   *)
(*                                                                         *)
(* The C functions are operators on the world w.  f names the call to the  *)
(* kernel or to a database that fails during the handler, if any.          *)
(* NAT, IPv6 and the wording of packets are left out.                      *)
(***************************************************************************)
EXTENDS Integers, Sequences, FiniteSets, SequencesExt

CONSTANTS Macs,         \* clients
          NSlots,       \* bound: sessions that exist at a time
          RangeSize,    \* addresses in the range of the interface
          Retransmit,   \* relay retransmissions
          IpoeScenarios \* [shared, up, auto, relay, range, check, delay, vlan, reject, soft, close, stop, cache],
                        \* the clients macs, the values circuits of option 82 ("none" is
                        \* its absence), and a bound: calls that wait for a session

VARIABLE ipoe

Slots == 1..NSlots
Range0 == 1..RangeSize
NoAddr == <<"none", 0>>

NoIpoe == [mac |-> "none", circuit |-> "none", used |-> FALSE, state |-> "none", linked |-> FALSE,
           begun |-> FALSE, auth |-> FALSE, started |-> FALSE, terminating |-> FALSE, terminate |-> FALSE,
           up |-> FALSE, arph |-> FALSE, request |-> FALSE, yiaddr |-> NoAddr, dhcp_addr |-> FALSE,
           ipv4 |-> "none", timer |-> "none", retr |-> 0, l4_redirect |-> FALSE, l4_set |-> FALSE,
           l4_timer |-> FALSE, ifindex |-> 0, clientip |-> FALSE, dhcpv4 |-> FALSE,
           acct |-> FALSE, wait |-> FALSE, closed |-> FALSE, fin |-> FALSE, caching |-> FALSE,
           calls |-> <<>>]

\* An addition to the list of sessions without the lock, and whether another
\* change of the list has come in between.
NoAdding == [ses |-> 0, met |-> FALSE]

\* sess_cnt after an update of it was overwritten: some other number.
Wrong == -1

NoIpoeServ == [alive |-> FALSE, sessions |-> <<>>, sess_cnt |-> 0, vlan_mon |-> FALSE, need_close |-> FALSE,
            timer |-> FALSE, disc |-> <<>>, disc_timer |-> FALSE, arp |-> <<>>,
            adding |-> NoAdding, releasing |-> FALSE, calls |-> <<>>]

\* A packet and the parts of it that are looked at; fits: a Request that names
\* this server and the address of the session.
Pack(type, mac, circuit, fits) == [type |-> type, mac |-> mac, circuit |-> circuit, fits |-> fits]

IpoeCall(w, s, func) == [w EXCEPT !.ses[s].calls = Append(@, func)]
ServCall(w, func) == [w EXCEPT !.serv.calls = Append(@, func)]
-----------------------------------------------------------------------------
(* Interfaces, the range, redirection. *)

\* From the cache, or a new one.  The index of an interface whose name cannot
\* be read is forgotten.
FreshIf(w) == CHOOSE i \in 1..(2 * NSlots + w.env.cache) :
                 i \notin ToSet(w.uc) \cup {w.ses[s].ifindex : s \in Slots}

ipoe_create_interface(w, s, f) ==
    LET w1 == IF w.uc # <<>> THEN [w EXCEPT !.ses[s].ifindex = Head(w.uc), !.uc = Tail(@)]
              ELSE IF f = "create" THEN w ELSE [w EXCEPT !.ses[s].ifindex = FreshIf(w)]
    IN  IF f = "ifname" THEN [w1 EXCEPT !.ses[s].ifindex = 0] ELSE w1

dhcpv4_get_ip(w, s) ==
    IF ~w.env.range \/ w.range = {} THEN w
    ELSE LET k == CHOOSE k \in w.range : \A j \in w.range : k <= j IN
         [w EXCEPT !.range = @ \ {k}, !.ses[s].yiaddr = <<"range", k>>, !.ses[s].dhcp_addr = TRUE]

\* Mutant: the address does not return to its range.
dhcpv4_put_ip_Lost(w, addr) == w

dhcpv4_put_ip(w, addr) == [w EXCEPT !.range = @ \cup {addr[2]}]

ipoe_change_l4_redirect(w, s, del) ==
    LET rule == w.ses[s].yiaddr IN
    IF del THEN [w EXCEPT !.rules = @ \ {rule}, !.ses[s].l4_set = FALSE, !.ses[s].l4_timer = FALSE]
    ELSE [w EXCEPT !.rules = @ \cup {rule}, !.ses[s].l4_set = TRUE]

l4_redirect_list_add(w, addr) == [w EXCEPT !.l4_list = @ \cup {addr}]
-----------------------------------------------------------------------------
(* The end of a session. *)

\* The interface goes back to the cache, or is deleted.  The size of the cache
\* (unit-cache) is tested without its lock.
GoesToCache(w, s) == w.ses[s].ifindex # 0 /\ Len(w.uc) < w.env.cache

ReleaseIf(w, s) ==
    IF w.ses[s].caching THEN [w EXCEPT !.uc = Append(@, w.ses[s].ifindex), !.ses[s].caching = FALSE] ELSE w

\* The list of sessions and its counter are changed, under the lock or not.
Relisted(w, sessions, change) ==
    [w EXCEPT !.serv.sessions = sessions, !.serv.sess_cnt = IF @ = Wrong THEN @ ELSE @ + change,
              !.serv.adding.met = w.serv.adding.ses # 0]

\* The last session of an interface that is to go lets its server go.
Unlisted(w, s) ==
    LET w1 == Relisted(w, SelectSeq(w.serv.sessions, LAMBDA x : x # s), -1) IN
    IF (w.serv.vlan_mon \/ w.serv.need_close) /\ w1.serv.sessions = <<>> THEN ServCall(w1, "release")
    ELSE w1

\* The rest of the handler, after the test of the cache.
Finished(w, s) ==
    LET w1 == ReleaseIf(w, s)
        w2 == IF w.ses[s].dhcp_addr THEN dhcpv4_put_ip(w1, w.ses[s].yiaddr) ELSE w1
    IN  IpoeCall(Unlisted([w2 EXCEPT !.ses[s].dhcpv4 = FALSE], s), s, "free")

ipoe_session_finished(w, s) ==
    LET w1 == [w EXCEPT !.ses[s].caching = GoesToCache(w, s),
                        !.crash = @ \/ (w.ses[s].clientip /\ w.ses[s].ipv4 = "none")]
    IN  IF w1.ses[s].caching THEN w1 ELSE Finished(w1, s)

\* The authentication is cancelled (radius.c), and an address that a database
\* owns goes back to it before the access concentrator's own clean-up.
ap_session_finished(w, s) ==
    IF w.ses[s].fin THEN w
    ELSE ipoe_session_finished(
            [w EXCEPT !.ses[s].fin = TRUE, !.ses[s].linked = FALSE, !.ses[s].auth = FALSE,
                      !.ses[s].ipv4 = IF @ = "pool" THEN "none" ELSE @,
                      !.crash = @ \/ ~w.ses[s].linked], s)

ipoe_session_terminated(w, s) ==
    ap_session_finished(IF w.ses[s].l4_set THEN ipoe_change_l4_redirect(w, s, TRUE) ELSE w, s)

ipoe_session_terminate(w, s, hard) ==
    IF hard \/ ~w.env.soft \/ w.ses[s].up \/ w.shutdown THEN ipoe_session_terminated(w, s)
    ELSE [w EXCEPT !.ses[s].terminate = TRUE]

ap_session_terminate(w, s, hard) ==
    IF w.ses[s].fin \/ (w.ses[s].state = "finishing" /\ ~hard) THEN w
    ELSE ipoe_session_terminate([w EXCEPT !.ses[s].state = "finishing"], s, hard)

ipoe_session_free(w, s) ==
    [w EXCEPT !.ses[s] = NoIpoe,
              !.stat_active = IF w.ses[s].started THEN @ - 1 ELSE @,
              !.stat_starting = IF w.ses[s].started THEN @ ELSE @ - 1]
-----------------------------------------------------------------------------
(* The start of a session.  A handler ends with "end" when the session is   *)
(* terminated last.                                                         *)

Ends(w, r) == [w |-> w, r |-> r]

\* The interface comes up when accounting has started.
ap_session_activate(w, s) ==
    IF w.shutdown \/ w.ses[s].state = "finishing" THEN w
    ELSE [w EXCEPT !.ses[s].state = "active", !.ses[s].acct = TRUE]

Redirected(w, s) == IF w.ses[s].l4_redirect THEN ipoe_change_l4_redirect(w, s, FALSE) ELSE w

\* The address of the session is the one of a database or its own; the Ack is
\* sent, and the timer, if one runs, becomes the one of the lease.
__ipoe_session_activate(w, s, f) ==
    IF w.ses[s].terminating \/ w.ses[s].started THEN Ends(w, "none")
    ELSE IF w.ses[s].ifindex # 0 /\ f = "modify" THEN Ends(w, "end")
    ELSE Ends([Redirected(ap_session_activate(
                    [w EXCEPT !.ses[s].started = TRUE, !.ses[s].ipv4 = IF @ = "none" THEN "own" ELSE @,
                              !.stat_starting = @ - 1, !.stat_active = @ + 1], s), s)
                 EXCEPT !.ses[s].request = FALSE,
                        !.ses[s].timer = IF @ = "none" THEN @ ELSE "lease"], "none")

\* An offer to a DHCP client, which has some time to request it; any other
\* session is activated.  A session without an address that was terminated for
\* it goes on all the same.
Answer(w, s, f) ==
    IF w.ses[s].request
    THEN IF w.ses[s].yiaddr = NoAddr \/ f = "router" THEN Ends(w, "end")
         ELSE Ends([w EXCEPT !.ses[s].request = FALSE, !.ses[s].timer = "offer"], "none")
    ELSE IF f = "router" THEN Ends(w, "end")
    ELSE __ipoe_session_activate([w EXCEPT !.ses[s].arph = FALSE,
                                           !.ses[s].wait = w.ses[s].arph /\ w.env.shared], s, f)

FromPool(w, s, f) ==
    IF w.ses[s].yiaddr # NoAddr THEN w
    ELSE IF f # "noaddr" THEN [w EXCEPT !.ses[s].ipv4 = "pool", !.ses[s].yiaddr = <<"pool", s>>]
    ELSE IF w.ses[s].up THEN ap_session_terminate(w, s, TRUE) ELSE w

__ipoe_session_start(w, s, f) ==
    Answer(FromPool(IF w.ses[s].yiaddr = NoAddr THEN dhcpv4_get_ip(w, s) ELSE w, s, f), s, f)

\* Another session, of any kind, that has the address.
check_exists(w, s) == \E t \in Slots \ {s} : /\ w.ses[t].linked /\ w.ses[t].state # "finishing"
                                             /\ w.ses[t].ipv4 # "none"
                                             /\ w.ses[t].yiaddr = w.ses[s].yiaddr

Authorized(w, s, f) ==
    IF w.ses[s].request /\ w.env.relay THEN Ends([w EXCEPT !.ses[s].timer = "relay"], "none")
    ELSE __ipoe_session_start(w, s, f)

auth_result(w, s, ok, f) ==
    LET w1 == [w EXCEPT !.ses[s].auth = FALSE]
        redirect == ~ok /\ w.env.reject
        w2 == IF ~redirect THEN w1
              ELSE IF ~w.ses[s].request THEN l4_redirect_list_add(w1, w.ses[s].yiaddr)
              ELSE [w1 EXCEPT !.ses[s].l4_redirect = TRUE, !.ses[s].l4_timer = TRUE]
    IN  IF \/ ~ok /\ ~(redirect /\ w.ses[s].request)
           \/ f = "username"
           \/ ok /\ check_exists(w, s)
        THEN Ends(w2, "end") ELSE Authorized(w2, s, f)

ap_session_starting(w, s) ==
    IF w.shutdown THEN w ELSE [w EXCEPT !.ses[s].state = "starting", !.ses[s].linked = TRUE]

HasInterface(w, s) == IF w.env.shared /\ w.ses[s].ifindex = 0 THEN Ends(w, "end")
                      ELSE Ends([w EXCEPT !.ses[s].auth = TRUE], "none")

ipoe_session_start(w, s, f) ==
    LET w1 == [w EXCEPT !.stat_starting = @ + 1, !.ses[s].begun = TRUE]
        w2 == ap_session_starting(w1, s)
    IN  IF f = "username" THEN Ends(ipoe_session_finished(w1, s), "none")
        ELSE HasInterface(IF w.env.shared THEN ipoe_create_interface(w2, s, f) ELSE w2, s)

\* When the session layer has the interface up.
ipoe_session_started(w, s) ==
    [w EXCEPT !.ses[s].acct = FALSE, !.ses[s].clientip = TRUE,
              !.ses[s].dhcpv4 = w.ses[s].ifindex # 0 /\ ~w.ses[s].up]

ipoe_session_keepalive(w, s) == [w EXCEPT !.ses[s].request = w.env.relay]

ipoe_session_activate(w, s, f) ==
    IF w.ses[s].state = "active" THEN Ends(ipoe_session_keepalive(w, s), "none")
    ELSE IF w.env.relay THEN Ends([w EXCEPT !.ses[s].request = TRUE], "none")
    ELSE __ipoe_session_activate([w EXCEPT !.ses[s].request = TRUE], s, f)

ipoe_ses_recv_dhcpv4_request(w, s, fits, f) ==
    IF ~fits THEN Ends(w, "end")
    ELSE IF w.ses[s].state = "starting" /\ w.ses[s].yiaddr # NoAddr THEN ipoe_session_activate(w, s, f)
    ELSE Ends(IF w.ses[s].state = "active" THEN ipoe_session_keepalive(w, s) ELSE w, "none")

\* The relay's server answers the packet kept for it.
ipoe_ses_recv_dhcpv4_relay(w, s, type, f) ==
    IF ~w.ses[s].request THEN Ends(w, "none")
    ELSE IF type = "nak" THEN Ends(w, "end")
    ELSE IF w.ses[s].state # "starting" THEN Ends(w, "none")
    ELSE IF type = "ack" THEN __ipoe_session_activate(w, s, f)
    ELSE __ipoe_session_start([w EXCEPT !.ses[s].timer = "none",
            !.ses[s].yiaddr = IF @ = NoAddr THEN <<"relay", s>> ELSE @], s, f)
-----------------------------------------------------------------------------
(* Sessions of the interface. *)

\* In the list, counted and on its way; the interface is not idle any more.
Added(w, s) ==
    Relisted([w EXCEPT !.ses[s].calls = <<"start">>, !.serv.timer = @ /\ w.ses[s].mac = "none"],
             Append(w.serv.sessions, s), 1)

NoRoom(w) == w.shutdown \/ \A s \in Slots : w.ses[s].used

\* The slot of the new session.
NewSlot(w) == CHOOSE s \in Slots : ~w.ses[s].used
ipoe_session_alloc(w, new) == [w EXCEPT !.ses[NewSlot(w)] = [new EXCEPT !.used = TRUE]]

Locked(w, new) == IF NoRoom(w) THEN w
                  ELSE Added(ipoe_session_alloc(w, new), NewSlot(w))

\* The same without serv->lock: what was read of the list and of the counter
\* may be old when they are written.
Unlocked(w, new) ==
    IF NoRoom(w) THEN w
    ELSE [ipoe_session_alloc(w, new) EXCEPT !.serv.adding.ses = NewSlot(w)]

\* A change in between is overwritten in the counter, or tears the list, or
\* neither.
UnlockedDone(w) ==
    LET w1 == Added([w EXCEPT !.serv.adding = NoAdding], w.serv.adding.ses) IN
    {w1} \cup (IF w.serv.adding.met
               THEN {[w1 EXCEPT !.serv.sess_cnt = Wrong], [w1 EXCEPT !.crash = TRUE]} ELSE {})

ipoe_session_create_dhcpv4(w, pack) ==
    Locked(w, [NoIpoe EXCEPT !.mac = pack.mac, !.circuit = pack.circuit, !.request = TRUE])

l4_redirect_list_check(w, addr) == addr \in w.l4_list

UpSession(mac, arp) == [NoIpoe EXCEPT !.mac = mac, !.up = TRUE, !.arph = arp, !.yiaddr = <<"up", mac>>]

ipoe_session_create_up(w, mac, arp) ==
    IF l4_redirect_list_check(w, <<"up", mac>>) THEN w ELSE Locked(w, UpSession(mac, arp))

\* The session of an interface, which has no client; the timer of the
\* interface, if it runs, goes on.
ipoe_session_create_auto(w) == Unlocked(w, [NoIpoe EXCEPT !.up = TRUE])

First(q, P(_)) == LET r == SelectSeq(q, P) IN IF r = <<>> THEN 0 ELSE Head(r)

\* The session of the client, and the one of its port (option 82), which the
\* loop looks for up to the client's session.  When the client has a session
\* but none before it is on the port, a second loop takes the first session
\* with an option 82: what it compares is switched off by the value that the
\* first loop left in opt82_match.
ipoe_session_lookup(w, pack) ==
    LET q == w.serv.sessions
        res == First(q, LAMBDA s : w.ses[s].mac = pack.mac)
        upto == IF res = 0 THEN q
                ELSE SubSeq(q, 1, CHOOSE k \in DOMAIN q : q[k] = res)
        port == First(Reverse(upto), LAMBDA s : w.env.check /\ pack.circuit # "none"
                                                /\ w.ses[s].circuit = pack.circuit)
        other == First(q, LAMBDA s : ~w.env.check \/ w.ses[s].circuit # "none")
    IN  IF q = <<>> THEN [ses |-> 0, opt82 |-> 0]
        ELSE IF ~w.env.shared THEN [ses |-> Head(q), opt82 |-> Head(q)]
        ELSE [ses |-> res,
              opt82 |-> IF res = 0 \/ pack.circuit = "none" \/ port # 0 THEN port ELSE other]

ipoe_drop_sessions(w, skip) ==
    LET Drop(x, s) == IF s = skip THEN x
                      ELSE IpoeCall([x EXCEPT !.ses[s].terminating = TRUE], s, "end")
    IN  FoldLeft(Drop, w, w.serv.sessions)

\* The client changed its port, or another client took it over.
PortChanged(pack, l) == \/ l.opt82 # 0 /\ l.ses # l.opt82
                        \/ l.opt82 = 0 /\ pack.circuit # "none"

HasMoved(w, pack, l) == w.env.check /\ (PortChanged(pack, l) \/ w.ses[l.ses].mac # pack.mac)

Moved(w, pack, l) ==
    IF PortChanged(pack, l) /\ l.opt82 # 0 THEN IpoeCall(IpoeCall(w, l.ses, "end"), l.opt82, "end")
    ELSE IpoeCall(w, l.ses, "end")

\* The session that another client had on the port.
Strangers(w, l) == IF l.opt82 # 0 THEN IpoeCall(w, l.opt82, "end") ELSE w

\* By the number of active sessions.
get_offer_delay(w) == w.env.delay[w.stat_active]

ipoe_serv_add_disc(w, pack) ==
    [w EXCEPT !.serv.disc = Append(@, pack), !.serv.disc_timer = TRUE]

RecvDiscover(w, pack, l, force) ==
    IF l.ses = 0
    THEN IF w.shutdown \/ get_offer_delay(w) = "never" THEN Strangers(w, l)
         ELSE IF get_offer_delay(w) = "later" /\ ~force THEN ipoe_serv_add_disc(Strangers(w, l), pack)
         ELSE ipoe_session_create_dhcpv4(Strangers(w, l), pack)
    ELSE IF w.ses[l.ses].terminate THEN IpoeCall(w, l.ses, "end")
    ELSE IF HasMoved(w, pack, l) THEN Moved(w, pack, l)
    ELSE IpoeCall(w, l.ses, "discover")

\* The Request that answers the offer of another server, for a Discover that
\* this one still delays.
ipoe_serv_check_disc(w, mac) == \E k \in DOMAIN w.serv.disc : w.serv.disc[k].mac = mac

\* A Request without a session changes nothing here: repeated, it is answered
\* with a Nak.
RecvRequest(w, pack, l) ==
    IF l.ses = 0
    THEN IF pack.fits THEN Strangers(w, l) ELSE w
    ELSE IF w.ses[l.ses].terminate THEN IpoeCall(w, l.ses, "end")
    ELSE IF HasMoved(w, pack, l) THEN Moved(w, pack, l)
    ELSE IpoeCall(IF w.env.shared THEN w ELSE ipoe_drop_sessions(w, l.ses), l.ses,
                  IF pack.fits THEN "request" ELSE "wrong")

\* A session of an interface of its own loses its UP mark when looked up.
LookedUp(w, l) == IF l.ses # 0 /\ ~w.env.shared THEN [w EXCEPT !.ses[l.ses].up = FALSE] ELSE w

\* A second server of the network that offers at a lower weight.
check_notify(w, mac) ==
    LET s == First(w.serv.sessions, LAMBDA t : w.ses[t].mac = mac) IN
    IF s = 0 THEN w ELSE IpoeCall(w, s, "end")

__ipoe_recv_dhcpv4(w, pack, force) ==
    LET R(w1, l) ==
            CASE pack.type = "discover" -> RecvDiscover(w1, pack, l, force)
              [] pack.type = "request" -> RecvRequest(w1, pack, l)
              [] pack.type = "release" -> IF l.ses = 0 THEN w1 ELSE IpoeCall(w1, l.ses, "end")
        L(l) == R(LookedUp(w, l), l)
        mine == First([k \in DOMAIN w.serv.disc |-> k], LAMBDA k : w.serv.disc[k].mac = pack.mac)
    IN  IF pack.type = "notify" THEN check_notify(w, pack.mac)
        ELSE IF pack.type = "request" /\ ipoe_serv_check_disc(w, pack.mac)
        THEN [w EXCEPT !.serv.disc = RemoveAt(@, mine)]
        ELSE L(ipoe_session_lookup(w, pack))

\* The packets that have waited long enough, the first n; or an ARP request,
\* one a step for others run between two of them.  The latter makes its session
\* without serv->lock.
ipoe_serv_disc_timer(w, n, arp) ==
    LET Force(x, pack) == __ipoe_recv_dhcpv4(x, pack, TRUE)
        Timer(x) == [x EXCEPT !.serv.disc_timer = x.serv.disc # <<>> \/ x.serv.arp # <<>>]
        Sent(x) == [x EXCEPT !.serv.disc = SubSeq(@, n + 1, Len(@))]
        Up(x) == IF l4_redirect_list_check(x, <<"up", Head(x.serv.arp)>>) THEN x
                 ELSE Unlocked(x, UpSession(Head(x.serv.arp), TRUE))
        Rest(x) == [x EXCEPT !.serv.arp = Tail(@)]
    IN  Timer(IF arp THEN Rest(Up(w)) ELSE Sent(FoldLeft(Force, w, SubSeq(w.serv.disc, 1, n))))

ipoe_serv_add_disc_arp(w, mac) ==
    [w EXCEPT !.serv.arp = Append(@, mac), !.serv.disc_timer = TRUE]

ipoe_serv_recv_arp(w, mac) ==
    IF get_offer_delay(w) = "never" \/ mac \in ToSet(w.serv.arp) THEN w
    ELSE IF get_offer_delay(w) = "later" THEN ipoe_serv_add_disc_arp(w, mac)
    ELSE ipoe_session_create_up(w, mac, TRUE)

HasAddr(w, mac) == \E k \in DOMAIN w.serv.sessions : w.ses[w.serv.sessions[k]].yiaddr = <<"up", mac>>

\* A client asks who has an address: the client of a session is answered.
arp_ctx_read(w, mac) ==
    IF ~HasAddr(w, mac) /\ w.env.up THEN ipoe_serv_recv_arp(w, mac) ELSE w

\* Another host answered: the client is not ours.
ArpReply(w, mac) == [w EXCEPT !.serv.arp = SelectSeq(@, LAMBDA x : x # mac)]

\* A packet of a client without a session, from the kernel.
ipoe_recv_up(w, mac) ==
    LET s == First(w.serv.sessions, LAMBDA t : w.ses[t].yiaddr = <<"up", mac>>) IN
    IF ~w.env.up THEN w
    ELSE IF s = 0 THEN ipoe_session_create_up(w, mac, FALSE)
    ELSE IF w.ses[s].wait THEN IpoeCall([w EXCEPT !.ses[s].wait = FALSE], s, "activate") ELSE w

ipoe_recv_dhcpv4_relay(w, mac, type) ==
    LET s == First(w.serv.sessions, LAMBDA t : w.ses[t].mac = mac) IN
    IF s = 0 THEN w ELSE IpoeCall(w, s, type)
-----------------------------------------------------------------------------
(* The server of the interface. *)

\* The interface of a monitored VLAN is kept for some time without sessions.
\* Otherwise the lock is dropped before the server leaves the list of servers.
ipoe_serv_release(w) ==
    IF w.serv.sessions # <<>> THEN w
    ELSE IF w.serv.vlan_mon /\ ~w.serv.need_close /\ ~w.shutdown /\ ~w.env.auto
    THEN [w EXCEPT !.serv.timer = TRUE]
    ELSE [w EXCEPT !.serv.releasing = TRUE]

\* A session that was added in between refers to the freed server.
Released(w) == [w EXCEPT !.serv = NoIpoeServ, !.crash = @ \/ w.serv.sessions # <<>>]

ipoe_serv_close(w) == ipoe_serv_release([w EXCEPT !.serv.need_close = TRUE])
ipoe_serv_timeout(w) == ipoe_serv_release([w EXCEPT !.serv.need_close = TRUE, !.serv.timer = FALSE])

set_vlan_timeout(w) == IF w.serv.sessions = <<>> THEN [w EXCEPT !.serv.timer = TRUE] ELSE w

\* A new server, or the same interface with another way of sharing it.
add_interface(w, shared) ==
    LET w1 == [w EXCEPT !.serv = [NoIpoeServ EXCEPT !.alive = TRUE, !.vlan_mon = w.env.vlan,
                                    !.calls = IF w.env.auto /\ ~w.env.shared THEN <<"auto">> ELSE <<>>]]
    IN  IF w.serv.alive
        THEN IF shared = w.env.shared THEN w
             ELSE [ipoe_drop_sessions(w, 0) EXCEPT !.env.shared = shared]
        ELSE IF w.env.vlan THEN set_vlan_timeout(w1) ELSE w1

\* The interface is not in the configuration any more.
load_interfaces(w) == ServCall([ipoe_drop_sessions(w, 0) EXCEPT !.serv.need_close = TRUE], "release")

\* A packet on a VLAN that the kernel monitors.
ipoe_vlan_mon_notify(w) ==
    IF ~w.serv.alive THEN add_interface(w, w.env.shared)
    ELSE IF w.serv.vlan_mon THEN w ELSE set_vlan_timeout([w EXCEPT !.serv.vlan_mon = TRUE])
-----------------------------------------------------------------------------
(* Timers and other events of a session. *)

ipoe_relay_timeout(w, s) ==
    IF ~w.ses[s].request THEN Ends([w EXCEPT !.ses[s].timer = "none"], "none")
    ELSE IF w.ses[s].retr + 1 > Retransmit THEN Ends([w EXCEPT !.ses[s].timer = "none"], "end")
    ELSE Ends([w EXCEPT !.ses[s].retr = @ + 1], "none")

ipoe_session_timeout(w, s) == Ends([w EXCEPT !.ses[s].timer = "none"], "end")
ipoe_session_l4_redirect_timeout(w, s) == Ends([w EXCEPT !.ses[s].l4_timer = FALSE], "end")

\* DHCP on the interface of the session.
ipoe_ses_recv_dhcpv4(w, s, type) ==
    IF w.ses[s].terminate \/ type \in {"moved", "wrong", "release"} THEN IpoeCall(w, s, "end")
    ELSE IF type = "request" \/ (w.env.relay /\ w.ses[s].yiaddr # NoAddr)
    THEN ipoe_session_keepalive(w, s) ELSE w

ev_radius_coa(w, s) ==
    IF w.ses[s].state # "active" THEN w
    ELSE [ipoe_change_l4_redirect(w, s, w.ses[s].l4_redirect) EXCEPT !.ses[s].l4_redirect = ~@]

l4_redirect_list_timer(w) == [w EXCEPT !.l4_list = {}]

\* The close of the context: a session that is not begun, or was begun during
\* a shutdown, has no state.
ipoe_session_close(w, s) ==
    IF w.ses[s].state = "none" THEN Ends(ipoe_session_finished(w, s), "none") ELSE Ends(w, "end")

Faults(w, s, e) ==
    CASE e = "start" -> {"none", "username", "create", "ifname"}
      [] e = "accept" -> {"none", "username", "noaddr", "router", "modify"}
      [] e \in {"reject", "offer"} -> {"none", "noaddr", "router"}
      [] e \in {"request", "ack", "activate"} -> {"none", "modify"}
      [] OTHER -> {"none"}

\* What may happen to session s next, besides the call at the head of its queue.
\* Packets of its own interface are read while few calls wait (env.calls).
SesEvents(w, s) ==
    (IF w.ses[s].auth THEN {"accept", "reject"} ELSE {})
    \cup (IF w.ses[s].timer # "none" THEN {"timer"} ELSE {})
    \cup (IF w.ses[s].l4_timer THEN {"l4_timer"} ELSE {})
    \cup (IF w.ses[s].acct /\ w.ses[s].state = "active" THEN {"started"} ELSE {})
    \cup (IF w.ses[s].dhcpv4 /\ Len(w.ses[s].calls) < w.env.calls THEN {"own discover", "own request", "own moved"} ELSE {})
    \cup (IF w.env.soft /\ w.ses[s].state \in {"starting", "active"} THEN {"soft"} ELSE {})
    \cup (IF w.env.reject /\ w.ses[s].state = "active" THEN {"coa"} ELSE {})
    \cup (IF w.shutdown /\ w.ses[s].used /\ ~w.ses[s].closed THEN {"close"} ELSE {})

SesEvent(w, s, e, f) ==
    CASE e = "start" -> ipoe_session_start(w, s, f)
      [] e = "discover" -> Ends(w, "none")
      [] e \in {"request", "wrong"} -> ipoe_ses_recv_dhcpv4_request(w, s, e = "request", f)
      [] e = "end" -> Ends(w, "end")
      [] e = "activate" -> __ipoe_session_activate(w, s, f)
      [] e \in {"offer", "ack", "nak"} -> ipoe_ses_recv_dhcpv4_relay(w, s, e, f)
      [] e \in {"accept", "reject"} -> auth_result(w, s, e = "accept", f)
      [] e = "timer" -> IF w.ses[s].timer = "relay" THEN ipoe_relay_timeout(w, s)
                        ELSE ipoe_session_timeout(w, s)
      [] e = "l4_timer" -> ipoe_session_l4_redirect_timeout(w, s)
      [] e = "started" -> Ends(ipoe_session_started(w, s), "none")
      [] e = "own discover" -> Ends(ipoe_ses_recv_dhcpv4(w, s, "discover"), "none")
      [] e = "own request" -> Ends(ipoe_ses_recv_dhcpv4(w, s, "request"), "none")
      [] e = "own moved" -> Ends(ipoe_ses_recv_dhcpv4(w, s, "moved"), "none")
      [] e = "coa" -> Ends(ev_radius_coa(w, s), "none")
      [] e = "soft" -> Ends(w, "soft")
      [] e = "free" -> Ends(ipoe_session_free(w, s), "none")
      [] e = "close" -> ipoe_session_close([w EXCEPT !.ses[s].closed = TRUE], s)

Concluded(o, s) == IF o.r = "none" THEN o.w ELSE ap_session_terminate(o.w, s, o.r = "end")

SessionStep ==
    \E s \in Slots :
       \/ ipoe.ses[s].caching /\ ipoe' = Finished(ipoe, s)
       \/ /\ ~ipoe.ses[s].caching /\ ipoe.ses[s].calls # <<>>
          /\ \E f \in Faults(ipoe, s, Head(ipoe.ses[s].calls)) :
                ipoe' = Concluded(SesEvent([ipoe EXCEPT !.ses[s].calls = Tail(@)], s,
                                           Head(ipoe.ses[s].calls), f), s)
       \/ /\ ~ipoe.ses[s].caching
          /\ \E e \in SesEvents(ipoe, s) : \E f \in Faults(ipoe, s, e) :
                ipoe' = Concluded(SesEvent(ipoe, s, e, f), s)

\* Bound: packets are read while few of them wait.
Calm(w) == /\ \A s \in Slots : Len(w.ses[s].calls) < w.env.calls
           /\ Len(w.serv.calls) < 2 /\ Len(w.serv.disc) + Len(w.serv.arp) < 2

Packets(w) ==
    {Pack("discover", m, c, TRUE) : m \in w.env.macs, c \in w.env.circuits}
    \cup {Pack("request", m, c, fits) : m \in w.env.macs, c \in w.env.circuits, fits \in BOOLEAN}
    \cup {Pack(t, m, "none", TRUE) : t \in {"release", "notify"}, m \in w.env.macs}

\* The server's context is in the middle of a handler.
InHandler(w) == w.serv.adding # NoAdding \/ w.serv.releasing

\* A packet of the kernel is handled in another context.
UpStep ==
    /\ ipoe.serv.alive /\ Calm(ipoe)
    /\ \E mac \in ipoe.env.macs : ipoe' = ipoe_recv_up(ipoe, mac)

PacketStep ==
    /\ ipoe.serv.alive /\ Calm(ipoe) /\ ~InHandler(ipoe)
    /\ \/ \E pack \in Packets(ipoe) : ipoe' = __ipoe_recv_dhcpv4(ipoe, pack, FALSE)
       \/ \E mac \in ipoe.env.macs : ipoe' = arp_ctx_read(ipoe, mac)
       \/ \E mac \in ipoe.env.macs : mac \in ToSet(ipoe.serv.arp) /\ ipoe' = ArpReply(ipoe, mac)
       \/ /\ ipoe.env.relay
          /\ \E mac \in ipoe.env.macs, t \in {"offer", "ack", "nak"} : ipoe' = ipoe_recv_dhcpv4_relay(ipoe, mac, t)

HandlerEnds ==
    \/ ipoe.serv.adding # NoAdding /\ ipoe' \in UnlockedDone(ipoe)
    \/ ipoe.serv.releasing /\ ipoe' = Released(ipoe)

ServerStep ==
    /\ ipoe.serv.alive /\ ~InHandler(ipoe)
    /\ \/ /\ ipoe.serv.disc_timer
          /\ \/ \E n \in 0..Len(ipoe.serv.disc) : ipoe' = ipoe_serv_disc_timer(ipoe, n, FALSE)
             \/ ipoe.serv.arp # <<>> /\ ipoe' = ipoe_serv_disc_timer(ipoe, 0, TRUE)
       \/ ipoe.serv.timer /\ ipoe' = ipoe_serv_timeout(ipoe)
       \/ /\ ipoe.serv.calls # <<>>
          /\ ipoe' = LET w == [ipoe EXCEPT !.serv.calls = Tail(@)] IN
                     IF Head(ipoe.serv.calls) = "auto" THEN ipoe_session_create_auto(w)
                     ELSE ipoe_serv_release(w)
       \/ ipoe.shutdown /\ ~ipoe.serv.need_close /\ ipoe' = ipoe_serv_close(ipoe)
       \/ ipoe.env.close /\ ~ipoe.serv.need_close /\ ipoe' = load_interfaces(ipoe)
       \/ /\ ipoe.env.close /\ ~ipoe.serv.need_close /\ Calm(ipoe)
          /\ ipoe' = add_interface(ipoe, ~ipoe.env.shared)

WorldStep ==
    \/ ipoe.env.vlan /\ ~ipoe.shutdown /\ ipoe' = ipoe_vlan_mon_notify(ipoe)
    \/ ipoe.l4_list # {} /\ ipoe' = l4_redirect_list_timer(ipoe)
    \/ ipoe.env.stop /\ ~ipoe.shutdown /\ ipoe' = [ipoe EXCEPT !.shutdown = TRUE]

IpoeInit ==
    \E env \in IpoeScenarios :
       ipoe = [serv |-> [NoIpoeServ EXCEPT !.alive = TRUE, !.vlan_mon = env.vlan, !.timer = env.vlan,
                            !.calls = IF env.auto THEN <<"auto">> ELSE <<>>],
               ses |-> [s \in Slots |-> NoIpoe], stat_starting |-> 0, stat_active |-> 0, uc |-> <<>>,
               range |-> IF env.range THEN Range0 ELSE {}, rules |-> {}, l4_list |-> {},
               shutdown |-> FALSE, crash |-> FALSE, env |-> env]

IpoeNext == ~ipoe.crash /\ (SessionStep \/ PacketStep \/ UpStep \/ ServerStep \/ HandlerEnds \/ WorldStep)

IpoeSpec == IpoeInit /\ [][IpoeNext]_ipoe
-----------------------------------------------------------------------------
Listed == ToSet(ipoe.serv.sessions)

\* The statistics and the length of the list count the sessions of the
\* interface, whichever way each of them came to its end; the length until an
\* addition without the lock has met another change of the list.
IpoeCountersExact ==
    ~ipoe.crash /\ ~ipoe.shutdown =>
       /\ ipoe.serv.alive => ipoe.serv.sess_cnt \in {Len(ipoe.serv.sessions), Wrong}
       /\ ipoe.stat_active = Cardinality({s \in Slots : ipoe.ses[s].started})
       /\ ipoe.stat_starting = Cardinality({s \in Slots : ipoe.ses[s].begun /\ ~ipoe.ses[s].started})

\* An address of the range is free or leased to one session; a session
\* interface is in the cache or in use by one session, and the cache exceeds its
\* limit by no more than the sessions that end at the same time.
LeasesExact ==
    ~ipoe.crash /\ ~ipoe.shutdown =>
       /\ \A s \in Listed : ipoe.ses[s].dhcp_addr =>
             /\ ipoe.ses[s].yiaddr[2] \notin ipoe.range
             /\ \A t \in Listed \ {s} : ipoe.ses[t].yiaddr # ipoe.ses[s].yiaddr
       /\ ipoe.env.range => Cardinality(ipoe.range)
             + Cardinality({s \in Listed : ipoe.ses[s].dhcp_addr}) = RangeSize
       /\ IsInjective(ipoe.uc) /\ Len(ipoe.uc) <= ipoe.env.cache + NSlots - 1
       /\ \A s \in Listed : ipoe.ses[s].ifindex # 0 =>
             /\ ipoe.ses[s].ifindex \notin ToSet(ipoe.uc)
             /\ \A t \in Listed \ {s} : ipoe.ses[t].ifindex # ipoe.ses[s].ifindex

\* A client has one session by DHCP, though Discovers are delayed and queued.
OneSessionPerClient ==
    \A s, t \in Listed : (s # t /\ ~ipoe.ses[s].up /\ ~ipoe.ses[t].up /\ ~ipoe.env.close) =>
                            ipoe.ses[s].mac # ipoe.ses[t].mac

\* A session that is not up yet has something that will take it on or end it,
\* and an idle interface of a monitored VLAN has its timer or its release.
WaitsAreTimed ==
    ~ipoe.crash /\ ~ipoe.shutdown =>
       /\ \A s \in Listed : ~ipoe.ses[s].started =>
             \/ ipoe.ses[s].auth \/ ipoe.ses[s].timer # "none" \/ ipoe.ses[s].calls # <<>>
             \/ ipoe.ses[s].terminate \/ ipoe.ses[s].caching
       /\ ipoe.serv.alive /\ ipoe.serv.vlan_mon /\ Listed = {} =>
             ipoe.serv.timer \/ ipoe.serv.calls # <<>> \/ InHandler(ipoe)
       /\ ipoe.serv.disc # <<>> \/ ipoe.serv.arp # <<>> => ipoe.serv.disc_timer

\* A redirection rule belongs to a session or to the list of rejected clients.
RedirectsExact ==
    ~ipoe.crash => ipoe.rules = {ipoe.ses[s].yiaddr : s \in {t \in Slots : ipoe.ses[t].l4_set}}

\* Does not hold: no handler reads an address that the session no longer has, or unlinks a
\* session that is in no list.
IpoeNoCrash == ~ipoe.crash
=============================================================================
