-------------------------------- MODULE Pppoe --------------------------------
(***************************************************************************)
(* PPPoE discovery on one interface (ctrl/pppoe): the two raw sockets that *)
(* all interfaces share (disc.c), the server of the interface with its     *)
(* queue of packets and calls, the connections it hands to PPP, the delays *)
(* of PADO that follow the number of connections (dpado.c), the MAC filter *)
(* and the commands of the administrator.                                  *)
(*                                                                         *)
(* The C functions are operators on the world w.  Every context (the       *)
(* server, each connection) runs its own steps; dpado_check_next and       *)
(* dpado_check_prev are steps of their own, since they run after the       *)
(* atomic operation whose result they are given.  A step that touches      *)
(* freed memory sets w.crash, and nothing is said of what follows.  The    *)
(* limits of the session layer are module Session's, session identifiers   *)
(* module PppoeSid's and the PPP session module Ppp's.                     *)
(***************************************************************************)
EXTENDS Integers, Sequences, SequencesExt, FiniteSets

CONSTANTS PppoeConns,       \* connections, by session identifier
          PadoRanges,       \* pado-delay: <<[delay, conn_cnt], ...>>
          IfaceRanges,      \* pado-delay of the interface, <<>> for none
          PppoeScenarios    \* set of situations, see PppoeIdle

VARIABLE pppoe

NoCookie == <<>>
NoConn == [used |-> FALSE, cookie |-> NoCookie, ppp_started |-> FALSE, session_started |-> 0,
           ses |-> "none", calls |-> <<>>, then |-> "none", seen |-> 0, closed |-> FALSE,
           orphan |-> FALSE]
NoServ == [alive |-> FALSE, stopping |-> FALSE, vlan_mon |-> FALSE, timer |-> FALSE, conn_cnt |-> 0,
           calls |-> <<>>, pado |-> {}, padi |-> <<>>, cookies |-> {}, closed |-> FALSE,
           cookie_2_conn |-> {}, mac_sessid_2_conn |-> {}]
NoNet == [up |-> FALSE, open |-> FALSE, refs |-> 0, tree |-> FALSE]

Mac(cookie) == cookie[1]
MacsOf(w) == {Mac(k) : k \in w.env.clients}
Crashed(w) == [w EXCEPT !.crash = TRUE]
-----------------------------------------------------------------------------
(* Delays of PADO: at is the position of dpado_range_prev in the list.     *)

RangeFor(ranges, n) ==
    LET reached == {i \in DOMAIN ranges : i = 1 \/ n >= ranges[i].conn_cnt}
    IN IF reached = {} THEN 0 ELSE CHOOSE i \in reached : \A j \in reached : j <= i

Advance(ranges, at, n) ==
    IF at < Len(ranges) /\ at > 0 /\ ranges[at + 1].conn_cnt = n THEN at + 1 ELSE at

\* The first range has no count (INT_MAX) and is never left downwards.
Retreat(ranges, at, n) ==
    IF at > 1 /\ ranges[at].conn_cnt = n THEN at - 1 ELSE at

dpado_check_next(w, n) ==
    [w EXCEPT !.iface_at = Advance(IfaceRanges, @, n), !.at = Advance(PadoRanges, @, n)]
dpado_check_prev(w, n) ==
    [w EXCEPT !.iface_at = Retreat(IfaceRanges, @, n), !.at = Retreat(PadoRanges, @, n)]

dpado_parse(w) == [w EXCEPT !.at = RangeFor(PadoRanges, w.active)]
set_pado_delay_data(w) == [w EXCEPT !.iface_at = RangeFor(IfaceRanges, w.active)]

DelayAt(ranges, at) == IF at = 0 THEN 0 ELSE ranges[at].delay
-----------------------------------------------------------------------------
(* MAC filter: type -1 is no filter, 0 denies the listed addresses, 1 the  *)
(* others.                                                                 *)

mac_filter_check(w, m) ==
    w.env.type # -1 /\ IF \E i \in DOMAIN w.macs : w.macs[i] = m THEN w.env.type = 0 ELSE w.env.type = 1
mac_filter_add(w, m) == [w EXCEPT !.macs = Append(@, m)]
mac_filter_del(w, m) ==
    LET found == {i \in DOMAIN w.macs : w.macs[i] = m}
    IN IF found = {} THEN w
       ELSE [w EXCEPT !.macs = RemoveAt(@, CHOOSE i \in found : \A j \in found : i <= j)]
-----------------------------------------------------------------------------
(* The shared sockets.  A network is referred to by itself, while its      *)
(* socket is served, and by every server in its tree.                      *)

NetOpened(w, k) == [w EXCEPT !.net[k] = [NoNet EXCEPT !.up = TRUE, !.open = TRUE, !.refs = 1]]

Release(net) == IF net.refs = 1 THEN NoNet ELSE [net EXCEPT !.refs = @ - 1]

init_net(w) == NetOpened(w, "disc")
init_ppp_net(w) == NetOpened(w, "ses")

Joined(w, k, ok) ==
    LET x == IF w.net[k].up \/ ~ok THEN w
             ELSE IF k = "disc" THEN init_net(w) ELSE init_ppp_net(w)
    IN IF ~x.net[k].open \/ x.net[k].tree THEN [w |-> x, r |-> -1]
       ELSE [w |-> [x EXCEPT !.net[k].tree = TRUE, !.net[k].refs = @ + 1], r |-> 0]

pppoe_disc_start(w, ok) == Joined(w, "disc", ok)
pppoe_ppp_ses_start(w, ok) == Joined(w, "ses", ok)

Left(w, k) ==
    IF ~w.net[k].up THEN w ELSE [w EXCEPT !.net[k] = Release([@ EXCEPT !.tree = FALSE])]

pppoe_disc_stop(w) == Left(w, "disc")
pppoe_ppp_ses_stop(w) == Left(w, "ses")

Stopped(w) == pppoe_ppp_ses_stop(pppoe_disc_stop(w))

\* A server freed while it is in the tree is reached through the tree.
CallServ(w, call) ==
    IF ~w.serv.alive THEN Crashed(w) ELSE [w EXCEPT !.serv.calls = Append(@, call)]

forward(w, call) == CallServ(w, call)
notify_down(w) == IF w.net["disc"].tree THEN CallServ(w, <<"stop">>) ELSE w
disc_stop(w, k) ==
    LET x == IF w.net[k].tree THEN CallServ(w, <<"stop">>) ELSE w
    IN [x EXCEPT !.net[k] = Release([@ EXCEPT !.open = FALSE])]
disc_close(w, k) == [w EXCEPT !.net[k].open = FALSE]
-----------------------------------------------------------------------------
(* The server.                                                             *)

\* The packets on padi_list stay counted in total_padi_cnt, and connections
\* that are left (a PADR was queued before the call) keep a dangling pointer.
pppoe_server_free(w) ==
    [w EXCEPT !.delayed = @ - Cardinality(w.serv.pado), !.serv = NoServ,
              !.conns = [c \in PppoeConns |-> [@[c] EXCEPT !.orphan = w.conns[c].used]]]

pppoe_serv_start_timer(w) ==
    IF w.serv.conn_cnt > 0 THEN w ELSE [w EXCEPT !.serv.timer = TRUE]

pppoe_serv_timeout(w) ==
    LET x == [w EXCEPT !.serv.timer = FALSE]
    IN IF w.serv.conn_cnt > 0 THEN x ELSE pppoe_server_free(Stopped(x))

Stopping(w) == Stopped([w EXCEPT !.serv.stopping = TRUE])

pppoe_serv_close(w) ==
    IF w.serv.stopping THEN w
    ELSE IF w.serv.conn_cnt = 0 THEN pppoe_server_free(Stopping(w)) ELSE Stopping(w)

\* _conn_stop is called in every connection the table of cookies holds.
server_stop(w) ==
    IF w.serv.stopping THEN w
    ELSE IF w.serv.conn_cnt = 0 THEN pppoe_server_free(Stopping(w))
    ELSE [Stopping(w) EXCEPT !.conns = [c \in PppoeConns |->
             IF \E e \in w.serv.cookie_2_conn : e[2] = c
             THEN [@[c] EXCEPT !.calls = Append(@, "stop")] ELSE @[c]]]

set_vlan_timeout(w) == IF w.serv.conn_cnt > 0 THEN w ELSE [w EXCEPT !.serv.timer = TRUE]

\* f is the step of the start that fails.  A server whose second socket fails
\* is freed without leaving the tree of the first.
pppoe_server_start(w, vlan_mon, f) ==
    LET d == pppoe_disc_start(w, f # "disc")
        s == pppoe_ppp_ses_start(d.w, f # "ses")
        x == [s.w EXCEPT !.serv = [NoServ EXCEPT !.alive = TRUE, !.vlan_mon = vlan_mon]]
    IN IF f = "ioctl" \/ w.serv.alive THEN w
       ELSE IF d.r < 0 THEN d.w
       ELSE IF s.r < 0 THEN s.w
       ELSE IF vlan_mon THEN set_vlan_timeout(x) ELSE x

pppoe_vlan_mon_notify(w, f) ==
    IF ~w.serv.alive THEN pppoe_server_start(w, TRUE, f)
    ELSE IF w.serv.vlan_mon THEN w
    ELSE set_vlan_timeout([w EXCEPT !.serv.vlan_mon = TRUE])

pppoe_server_stop(w) == IF w.serv.alive THEN CallServ(w, <<"stop">>) ELSE w
-----------------------------------------------------------------------------
(* Discovery packets.  limit: the session layer's limits refuse; tags: the *)
(* packet is malformed or its service is not offered.                      *)

\* A cookie is made of the client's address, the present second and the
\* server's secret: only this server accepts it, and only for a while.
generate_cookie(w, cookie) == [w EXCEPT !.serv.cookies = @ \cup {cookie}]
check_cookie(w, cookie, expired) == cookie \in w.serv.cookies /\ ~expired

pppoe_send_PADO(w, cookie) == generate_cookie(w, cookie)

free_delayed_pado(w, cookie) == [w EXCEPT !.delayed = @ - 1, !.serv.pado = @ \ {cookie}]

pado_timer(w, cookie) ==
    free_delayed_pado(IF w.shutdown THEN w ELSE pppoe_send_PADO(w, cookie), cookie)

\* The first old entries are more than a second old.
check_padi_limit(w, m, old) ==
    LET x == [w EXCEPT !.serv.padi = SubSeq(@, old + 1, Len(@)), !.total_padi_cnt = @ - old]
    IN IF w.env.padi = 0 THEN [w |-> w, r |-> 0]
       ELSE IF Len(x.serv.padi) = w.env.padi \/ x.total_padi_cnt >= w.env.padi \/ Contains(x.serv.padi, m)
       THEN [w |-> x, r |-> -1]
       ELSE [w |-> [x EXCEPT !.serv.padi = Append(@, m), !.total_padi_cnt = @ + 1], r |-> 0]

OfferPado(w, cookie, delay) ==
    IF delay = 0 THEN pppoe_send_PADO(w, cookie)
    ELSE IF \E k \in w.serv.pado : Mac(k) = Mac(cookie) THEN w
    ELSE [w EXCEPT !.serv.pado = @ \cup {cookie}, !.delayed = @ + 1]

pppoe_recv_PADI(w, cookie, limit, tags, old) ==
    LET iface == DelayAt(IfaceRanges, w.iface_at)
        delay == DelayAt(PadoRanges, w.at)
        o == check_padi_limit(w, Mac(cookie), old)
    IN IF iface = -1 \/ w.shutdown \/ delay = -1 \/ limit THEN w
       ELSE IF o.r < 0 \/ tags THEN o.w
       ELSE OfferPado(o.w, cookie, IF iface = 0 THEN delay ELSE iface)

allocate_channel(w, c, cookie) ==
    [w EXCEPT !.conns[c] = [NoConn EXCEPT !.used = TRUE, !.cookie = cookie, !.calls = <<"connect">>],
              !.serv.cookie_2_conn = @ \cup {<<cookie, c>>},
              !.serv.mac_sessid_2_conn = @ \cup {<<Mac(cookie), c>>},
              !.serv.timer = FALSE, !.serv.conn_cnt = @ + 1]

\* A request whose cookie is in the table is a
\* duplicate and at most answered again.
pppoe_recv_PADR(w, cookie, limit, tags, expired) ==
    LET free == {c \in PppoeConns : ~w.conns[c].used}
    IN IF w.shutdown \/ limit \/ tags \/ ~check_cookie(w, cookie, expired)
          \/ (\E e \in w.serv.cookie_2_conn : e[1] = cookie) \/ free = {}
       THEN w
       ELSE allocate_channel(w, CHOOSE c \in free : TRUE, cookie)

pppoe_recv_PADT(w, m, c) ==
    IF <<m, c>> \in w.serv.mac_sessid_2_conn
    THEN [w EXCEPT !.conns[c].calls = Append(@, "disconnect")] ELSE w
-----------------------------------------------------------------------------
(* A connection.                                                           *)

Settle(w, c) ==
    CASE w.conns[c].session_started = 0 ->
            [w EXCEPT !.starting = @ - 1, !.conns[c].session_started = 2]
      [] w.conns[c].session_started = 1 ->
            [w EXCEPT !.session_active = @ - 1, !.conns[c].session_started = 2]
      [] OTHER -> w

\* stat_active has changed, and dpado_check_* is still to run; after it the
\* connection goes on with then.
LeaveActive(w, c, then) ==
    [w EXCEPT !.active = @ - 1, !.conns[c].ppp_started = FALSE, !.conns[c].then = then,
              !.conns[c].seen = w.active]

\* The last connection tells the server, whose end it may be.
Disconnected(w, c) ==
    LET n == w.serv.conn_cnt - 1
        call == IF n > 0 THEN <<>>
                ELSE IF w.serv.stopping THEN <<<<"free">>>>
                ELSE IF w.serv.vlan_mon THEN <<<<"start_timer">>>> ELSE <<>>
    IN IF w.conns[c].orphan THEN Crashed(w)
       ELSE [Settle(w, c) EXCEPT !.serv.conn_cnt = n, !.serv.calls = @ \o call, !.conns[c] = NoConn]

\* Mutant: the connection stays in the table of the sessions.
Unlinked_CookieOnly(w, c) ==
    [w EXCEPT !.serv.cookie_2_conn = @ \ {<<w.conns[c].cookie, c>>}]

Unlinked(w, c) ==
    [w EXCEPT !.serv.cookie_2_conn = @ \ {<<w.conns[c].cookie, c>>},
              !.serv.mac_sessid_2_conn = @ \ {<<Mac(w.conns[c].cookie), c>>}]

pppoe_disconnect(w, c) ==
    IF w.conns[c].orphan THEN Crashed(w)
    ELSE IF w.conns[c].ppp_started THEN LeaveActive(Unlinked(w, c), c, "disconnect")
    ELSE Disconnected(Unlinked(w, c), c)

pppoe_ppp_started(w, c) ==
    [w EXCEPT !.conns[c].session_started = 1, !.starting = @ - 1, !.session_active = @ + 1]

\* The session is over.
pppoe_ppp_finished(w, c) ==
    LET x == [w EXCEPT !.conns[c].ses = "none"]
    IN IF w.conns[c].ppp_started THEN LeaveActive(x, c, "finished") ELSE Settle(x, c)

connect_channel(w, c, ok) ==
    LET x == [w EXCEPT !.starting = @ + 1]
    IN IF ~ok THEN pppoe_disconnect(x, c)
       ELSE [x EXCEPT !.conns[c].ppp_started = TRUE, !.conns[c].ses = "up", !.active = @ + 1,
                      !.conns[c].then = "connected", !.conns[c].seen = x.active + 1]

\* ap_session_terminate, soft: PPP says goodbye and then finishes.
conn_stop(w, c) == IF w.conns[c].ses = "up" THEN [w EXCEPT !.conns[c].ses = "leaving"] ELSE w

pppoe_conn_close(w, c) ==
    LET x == [w EXCEPT !.conns[c].closed = TRUE]
    IN IF w.conns[c].ppp_started THEN conn_stop(x, c) ELSE pppoe_disconnect(x, c)

\* What follows dpado_check_next or dpado_check_prev.
Checked(w, c) ==
    LET k == w.conns[c]
        x == [w EXCEPT !.conns[c].then = "none", !.conns[c].seen = 0]
    IN CASE k.then = "connected" -> dpado_check_next(x, k.seen)
         [] k.then = "finished" ->
               Settle([dpado_check_prev(x, k.seen) EXCEPT !.conns[c].calls = Append(@, "disconnect")], c)
         [] k.then = "disconnect" -> Disconnected(dpado_check_prev(x, k.seen), c)
-----------------------------------------------------------------------------
(* A situation has the clients' cookies (<<mac, second>>), the kind of     *)
(* server (vlan), the padi-limit (of the server and overall), the type of  *)
(* the filter and the commands, failures and bounds: starts of the server, *)
(* packets and commands queued at once.                                    *)

PppoeIdle(e) ==
    [env |-> e, starts |-> 0, serv |-> NoServ, net |-> [k \in {"disc", "ses"} |-> NoNet],
     conns |-> [c \in PppoeConns |-> NoConn], starting |-> 0, session_active |-> 0, active |-> 0,
     delayed |-> 0, total_padi_cnt |-> 0, at |-> RangeFor(PadoRanges, 0),
     iface_at |-> RangeFor(IfaceRanges, 0), macs |-> <<>>, shutdown |-> FALSE, crash |-> FALSE]
PppoeInit == \E e \in PppoeScenarios : pppoe = PppoeIdle(e)

\* The sockets of the two networks, read by contexts of their own.
Received(w, x) ==
    \E cookie \in w.env.clients :
       /\ ~mac_filter_check(w, Mac(cookie)) /\ w.net["disc"].tree /\ w.net["disc"].open
       /\ Len(w.serv.calls) < w.env.queue
       /\ \E call \in {<<"PADI", cookie>>, <<"PADR", cookie>>}
                      \cup {<<"PADT", Mac(cookie), c>> :
                              c \in {d \in PppoeConns : Len(w.conns[d].calls) < w.env.queue}} :
             x = forward(w, call)

Sockets(w, x) ==
    \/ Received(w, x)
    \/ \E k \in {"disc", "ses"} :
          /\ w.net[k].open
          /\ \/ "net" \in w.env.cmds /\ Len(w.serv.calls) < w.env.queue /\ x = disc_stop(w, k)
             \/ w.shutdown /\ x = disc_close(w, k)
    \/ "down" \in w.env.cmds /\ w.net["disc"].open /\ Len(w.serv.calls) < w.env.queue /\ x = notify_down(w)

\* The administrator, the VLAN monitor and the shutdown.
Commands(w, x) ==
    \/ \E f \in {"none"} \cup (w.env.cmds \cap {"ioctl", "disc", "ses"}) :
          /\ ~w.shutdown /\ w.starts < w.env.starts
          /\ x = LET y == [w EXCEPT !.starts = @ + 1]
                 IN IF w.env.vlan THEN pppoe_vlan_mon_notify(y, f) ELSE pppoe_server_start(y, FALSE, f)
    \/ "monitor" \in w.env.cmds /\ w.serv.alive /\ x = pppoe_vlan_mon_notify(w, "none")
    \/ "stop" \in w.env.cmds /\ Len(w.serv.calls) < w.env.queue /\ x = pppoe_server_stop(w)
    \/ "delay" \in w.env.cmds /\ (x = dpado_parse(w) \/ x = set_pado_delay_data(w))
    \/ \E m \in MacsOf(w) :
          /\ "filter" \in w.env.cmds
          /\ \/ x = mac_filter_del(w, m)
             \/ Len(w.macs) < w.env.queue /\ x = mac_filter_add(w, m)
    \/ "shutdown" \in w.env.cmds /\ ~w.shutdown /\ x = [w EXCEPT !.shutdown = TRUE]

\* The head of the server's queue.
ServCall(w, call, x) ==
    \/ call[1] = "PADI" /\ \E limit, tags \in BOOLEAN, old \in 0..Len(w.serv.padi) :
          x = pppoe_recv_PADI(w, call[2], limit, tags, old)
    \/ call[1] = "PADR" /\ \E limit, tags, expired \in BOOLEAN :
          x = pppoe_recv_PADR(w, call[2], limit, tags, expired)
    \/ call[1] = "PADT" /\ x = pppoe_recv_PADT(w, call[2], call[3])
    \/ call[1] = "stop" /\ x = server_stop(w)
    \/ call[1] = "free" /\ x = pppoe_server_free(w)
    \/ call[1] = "start_timer" /\ x = pppoe_serv_start_timer(w)

ServStep(w, x) ==
    \/ w.serv.calls # <<>> /\ ServCall([w EXCEPT !.serv.calls = Tail(@)], Head(w.serv.calls), x)
    \/ w.serv.timer /\ x = pppoe_serv_timeout(w)
    \/ \E k \in w.serv.pado : x = pado_timer(w, k)
    \/ /\ w.shutdown /\ ~w.serv.closed /\ w.serv.calls = <<>>
       /\ x = pppoe_serv_close([w EXCEPT !.serv.closed = TRUE])

ConnCall(w, c, call, x) ==
    \/ call = "connect" /\ \E ok \in BOOLEAN : x = connect_channel(w, c, ok)
    \/ call = "disconnect" /\ x = pppoe_disconnect(w, c)
    \/ call = "stop" /\ x = conn_stop(w, c)

PppoeConnStep(w, c, x) ==
    \/ w.conns[c].then # "none" /\ x = Checked(w, c)
    \/ /\ w.conns[c].then = "none"
       /\ \/ /\ w.conns[c].calls # <<>>
             /\ ConnCall([w EXCEPT !.conns[c].calls = Tail(@)], c, Head(w.conns[c].calls), x)
          \/ w.conns[c].ses = "up" /\ w.conns[c].session_started = 0 /\ x = pppoe_ppp_started(w, c)
          \/ w.conns[c].ses # "none" /\ x = pppoe_ppp_finished(w, c)
          \/ /\ w.shutdown /\ ~w.conns[c].closed /\ w.conns[c].calls = <<>>
             /\ x = pppoe_conn_close(w, c)

PppoeSockets == Sockets(pppoe, pppoe')
PppoeCommands == Commands(pppoe, pppoe')
PppoeServer == pppoe.serv.alive /\ ServStep(pppoe, pppoe')
PppoeConn == \E c \in PppoeConns : pppoe.conns[c].used /\ PppoeConnStep(pppoe, c, pppoe')

PppoeNext == ~pppoe.crash /\ (PppoeSockets \/ PppoeCommands \/ PppoeServer \/ PppoeConn)
PppoeSpec == PppoeInit /\ [][PppoeNext]_pppoe
-----------------------------------------------------------------------------
CountConns(P(_)) == Cardinality({c \in PppoeConns : pppoe.conns[c].used /\ P(pppoe.conns[c])})

\* Every connection is counted once, as starting, as having a session or no
\* more, and as active between establish_ppp and the end of PPP, however its
\* end comes about (PADT, PPP, administrator, shutdown, failure of the start);
\* a delayed PADO is counted while its timer runs (disconnect, ppp_started,
\* ppp_finished, connect_channel, free_delayed_pado).
PppoeCountersExact ==
    ~pppoe.crash =>
       /\ pppoe.starting = CountConns(LAMBDA k : k.session_started = 0 /\ ~Contains(k.calls, "connect"))
       /\ pppoe.session_active = CountConns(LAMBDA k : k.session_started = 1)
       /\ pppoe.active = CountConns(LAMBDA k : k.ppp_started)
       /\ pppoe.delayed = Cardinality(pppoe.serv.pado)

\* The server's tables and its connection count say which connections it
\* serves: a connection is found under its cookie and under its address until
\* its disconnect begins, and counted until it ends.
PppoeTablesExact ==
    pppoe.serv.alive /\ ~pppoe.crash =>
       LET served == {c \in PppoeConns :
                        pppoe.conns[c].used /\ ~pppoe.conns[c].orphan /\ pppoe.conns[c].then # "disconnect"}
       IN /\ {e[2] : e \in pppoe.serv.cookie_2_conn} = served
          /\ {e[2] : e \in pppoe.serv.mac_sessid_2_conn} = served
          /\ pppoe.serv.conn_cnt = CountConns(LAMBDA k : ~k.orphan)

\* A server made for a VLAN does not outlive its use: with no connection its
\* timer runs, or the call that starts it or frees it is queued
\* (pppoe_serv_start_timer, set_vlan_timeout).
IdleVlanIsTimed ==
    pppoe.serv.alive /\ pppoe.serv.vlan_mon /\ pppoe.serv.conn_cnt = 0 /\ ~pppoe.serv.closed =>
       \/ pppoe.serv.timer
       \/ Contains(pppoe.serv.calls, <<"start_timer">>) \/ Contains(pppoe.serv.calls, <<"free">>)

\* The shared sockets live as long as somebody refers to them
\* (pppoe_disc_start, pppoe_disc_stop, disc_stop).
NetRefsExact ==
    \A k \in {"disc", "ses"} :
       LET n == pppoe.net[k]
       IN n.up => n.refs >= (IF n.open THEN 1 ELSE 0) + (IF n.tree THEN 1 ELSE 0) /\ n.refs > 0

\* Does not hold: the delay of PADO is the one configured for the present number of
\* connections when no check is under way (dpado_check_next, dpado_check_prev).
PadoDelayFollowsCount ==
    (\A c \in PppoeConns : pppoe.conns[c].then = "none") => pppoe.at = RangeFor(PadoRanges, pppoe.active)

\* Does not hold: the limit of PADI packets is a limit on the packets of one second:
\* total_padi_cnt counts what the servers have on their lists.
PadiLimitIsPerSecond == pppoe.total_padi_cnt = Len(pppoe.serv.padi)

\* Does not hold: no handler reaches a server that was freed.
PppoeNoCrash == ~pppoe.crash
=============================================================================
