------------------------------ MODULE MCAccess ------------------------------
(***************************************************************************)
(* Small instances of the access protocols (an L2TP tunnel, SSTP and PPTP  *)
(* connections, an IPoE interface and a PPPoE interface), of the kernel    *)
(* drivers beneath them, and of what is done for every session (CHAP, rate *)
(* limits, the state kept in VPP, log files, scripts), of the clients of   *)
(* the CLI and of the descriptors and timers all of them use.  They share  *)
(* no state, so a behaviour is one of one of them.                         *)
(***************************************************************************)
EXTENDS Integers, TLC

CONSTANTS s1, s2, m1, m2, c1, c2, c3, u1, u2, i1, i3, a1, a2, NoAddress

VARIABLES part,     \* which of them
          world     \* its state
-----------------------------------------------------------------------------
Lt == INSTANCE L2tp WITH l2tp <- world, Sids <- {s1, s2}, Secret <- TRUE

Ch == INSTANCE Chap WITH chap <- world, Schemes <- {"md5", "v1", "v2"}, IdMod <- 3, MaxFailure <- 2,
                         MaxValues <- 4, Logins <- {"radius", "local", "unknown", "any"}

Ss == INSTANCE Sstp WITH sstp <- world, SstpConns <- {c1}, ProxyProto <- TRUE, HelloInterval <- TRUE,
                         MaxNak <- 1, MaxDeferred <- 2

Pp == INSTANCE Pptp WITH pptp <- world, EchoFailure <- 2

Two == 0..2
Now == [n \in Two |-> "now"]
Never == [n \in Two |-> "never"]
Later == [n \in Two |-> IF n = 0 THEN "later" ELSE "never"]
Plain == [shared |-> TRUE, up |-> FALSE, auto |-> FALSE, relay |-> FALSE, range |-> TRUE,
          check |-> FALSE, delay |-> Now, vlan |-> FALSE, reject |-> FALSE, soft |-> FALSE,
          close |-> FALSE, stop |-> FALSE, cache |-> 1, macs |-> {m1}, calls |-> 1, circuits |-> {"none"}]

\* Two clients of a shared interface; a client whose requests pile up; sessions
\* started by traffic with delayed offers; an interface per client, one that
\* comes with its VLAN; a relay; a rejected client that is redirected; soft
\* termination with option 82; the interface going away; a VLAN released beside
\* the packets of its clients; the daemon's end.
IpoeCases ==
    {[Plain EXCEPT !.macs = {m1, m2}],
     [Plain EXCEPT !.calls = 2],
     [Plain EXCEPT !.up = TRUE, !.delay = Later],
     [Plain EXCEPT !.shared = FALSE, !.macs = {m1, m2}, !.calls = 2],
     [Plain EXCEPT !.shared = FALSE, !.macs = {m1, m2}, !.auto = TRUE, !.vlan = TRUE],
     [Plain EXCEPT !.relay = TRUE, !.range = FALSE],
     [Plain EXCEPT !.reject = TRUE, !.up = TRUE],
     [Plain EXCEPT !.macs = {m1, m2}, !.soft = TRUE, !.check = TRUE, !.cache = 0, !.circuits = {"none", c1}],
     [Plain EXCEPT !.close = TRUE, !.vlan = TRUE],
     [Plain EXCEPT !.vlan = TRUE, !.up = TRUE, !.cache = 0, !.delay = Never],
     [Plain EXCEPT !.stop = TRUE]}

Ip == INSTANCE Ipoe WITH ipoe <- world, Macs <- {m1, m2}, NSlots <- 2, RangeSize <- 1,
                         Retransmit <- 1, IpoeScenarios <- IpoeCases

Case(clients, vlan, padi, type, starts, queue, cmds) ==
    [clients |-> clients, vlan |-> vlan, padi |-> padi, type |-> type, starts |-> starts,
     queue |-> queue, cmds |-> cmds]

\* A VLAN's server stopped by command; two connections of one client around a
\* change of the PADO delay; shutdown and the interface going down; the MAC
\* filter; the PADI limit; failures of the sockets.
PppoeCases ==
    {Case({<<m1, 1>>}, TRUE, 0, -1, 1, 2, {"stop"}),
     Case({<<m1, 1>>, <<m1, 2>>}, FALSE, 0, -1, 1, 1, {"delay"}),
     Case({<<m1, 1>>}, FALSE, 0, -1, 1, 1, {"shutdown", "net", "down"}),
     Case({<<m1, 1>>}, FALSE, 0, 0, 1, 1, {"filter", "monitor"}),
     Case({<<m1, 1>>}, TRUE, 1, -1, 2, 1, {}),
     Case({<<m1, 1>>}, FALSE, 0, -1, 2, 1, {"disc", "ses", "ioctl"})}

Delays == <<[delay |-> 0, conn_cnt |-> 99], [delay |-> 1, conn_cnt |-> 1],
            [delay |-> -1, conn_cnt |-> 2]>>

Pe == INSTANCE Pppoe WITH pppoe <- world, PppoeConns <- {c1, c2}, PadoRanges <- Delays, IfaceRanges <- <<>>,
                          PppoeScenarios <- PppoeCases
-----------------------------------------------------------------------------
(* Rate limits with one time range; VPP with one address in the pool: two   *)
(* PPP sessions, one and an IPoE session that changes its address, PPP and *)
(* IPoE sessions with prefixes.                                            *)

Sh == INSTANCE Shaper WITH shp <- world, Users <- {u1, u2}, IfIndex <- (u1 :> 2 @@ u2 :> 5), Speeds <- {<<1, 0>>},
                           Ranges <- {1}, Default <- <<0, 0>>, IntBits <- 3,
                           MaxIdx <- 12, MaxCommands <- 2

Ppp == [kind |-> "ppp", plain |-> FALSE, differ |-> FALSE]
IpoeCfg(plain, differ) == [kind |-> "ipoe", plain |-> plain, differ |-> differ]
DpCase(c, d, rates, pd) == [cfg |-> (u1 :> c @@ u2 :> d), rates |-> rates, pd |-> pd]
DpCases == {DpCase(Ppp, Ppp, TRUE, FALSE), DpCase(Ppp, IpoeCfg(TRUE, FALSE), TRUE, FALSE),
            DpCase(Ppp, IpoeCfg(FALSE, FALSE), FALSE, TRUE), DpCase(IpoeCfg(TRUE, TRUE), IpoeCfg(FALSE, TRUE), FALSE, TRUE)}

Dp == INSTANCE Dataplane WITH dp <- world, Sessions <- {u1, u2}, DpScenarios <- DpCases,
    MacOf <- (u1 :> m1 @@ u2 :> m2), Addr6 <- (u1 :> a1 @@ u2 :> a2),
    Fixed <- (u1 :> i3 @@ u2 :> i3), Offered <- (u1 :> c1 @@ u2 :> c2), Prefixes <- {c3},
    Pool <- {i1}, Rates <- {1}, DfltRate <- 2

\* The IPoE driver: two devices behind a gateway, unknown clients with an
\* excluded and an allowed address, a device beside unknown clients.
KernCase(devs, addrs, mode, gw, excl, nets) ==
    [devs |-> devs, addrs |-> addrs, mode |-> mode, gw |-> gw, excl |-> excl, nets |-> nets]
KernCases == {KernCase({u1, u2}, {i1}, 0, TRUE, {}, {}), KernCase({}, {i1, i3}, 1, FALSE, {i1}, {i3}),
              KernCase({u1}, {i1}, 1, FALSE, {}, {})}

Ke == INSTANCE KernelIpoe WITH kern <- world, Devs <- {u1, u2}, Addrs <- {i1, i3}, NoIp <- NoAddress,
                               Hws <- {m1, m2}, NoHw <- NoAddress, QueueLen <- 0, MaxPackets <- 2,
                               KernelScenarios <- KernCases

\* VLANs on demand: two CPUs and both protocols; reports lost and starts that
\* fail, with a reload; a server by name on a VLAN of which the other protocol
\* sees frames; vlan-timeout 0.
Frame(k, v) == [kind |-> k, vid |-> v]
VlanCase(cpus, ranges, seen, frames, faults, plain) ==
    [cpus |-> cpus, ranges |-> ranges, conf |-> [ip |-> {1, 2}, pppoe |-> {1}], seen |-> seen,
     frames |-> frames, reloads |-> 1, faults |-> faults, plain |-> plain, timeout |-> TRUE]
VlanCases == {VlanCase({1, 2}, {}, {Frame("ip", 1), Frame("pppoe", 1)}, 3, FALSE, {}),
              VlanCase({1}, {<<1, 1>>}, {Frame("arp", 1), Frame("pppoe", 1)}, 4, TRUE, {}),
              VlanCase({1}, {<<1, 2>>}, {Frame("pppoe", 2)}, 3, FALSE, {<<"ip", 2>>}),
              [VlanCase({1}, {}, {Frame("pppoe", 1), Frame("pppoe", 2)}, 3, FALSE, {}) EXCEPT !.timeout = FALSE]}

Vm == INSTANCE VlanMon WITH vmon <- world, Protos <- {"ip", "pppoe"}, Vids <- {1, 2}, Cpus <- {1, 2},
                            MaxIndex <- 3, VlanScenarios <- VlanCases

\* PPTP's data channel: three calls with two identifiers and one to spare; one
\* call with echoes; calls made anew beside packets; a call whose numbers wrap.
GreCase(socks, opens, sent, xmit, echo) ==
    [socks |-> socks, opens |-> opens, sent |-> sent, xmit |-> xmit, echo |-> echo]
GreCases == {GreCase({c1, c2, c3}, 4, 0, 0, FALSE), GreCase({c1}, 1, 5, 2, TRUE),
             GreCase({c1, c2}, 3, 1, 0, FALSE), GreCase({c1}, 1, 9, 1, FALSE)}

Gr == INSTANCE PptpGre WITH gre <- world, Socks <- {c1, c2, c3}, NoSock <- NoAddress, Peers <- {a1, a2},
                            NoPeer <- NoAddress, MaxCallid <- 3, SeqMod <- 8, Zone <- 2, GreScenarios <- GreCases

\* Log files: two threads beside two rotations; a session's files; a session
\* that fails; three that fail one after the other; more interface files than
\* may be open.
LogCase(files, msgs, opens, reopens, workers, sessions) ==
    [files |-> files, msgs |-> msgs, opens |-> opens, reopens |-> reopens, workers |-> workers,
     sessions |-> sessions]
LogCases == {LogCase({"main"}, 3, 0, 2, {"worker", "other"}, 0), LogCase({"user", "session"}, 3, 0, 0, {"session"}, 1),
             LogCase({"main", "fail", "user"}, 1, 0, 1, {"session"}, 1),
             LogCase({"fail"}, 4, 0, 1, {"session"}, 3),
             LogCase({"if1", "if2"}, 1, 5, 1, {"worker", "other"}, 0)}

Lg == INSTANCE LogFile WITH log <- world, Files <- {"main", "fail", "user", "session", "if1", "if2"},
                            IovMax <- 2, MaxOpen <- 1, LogScenarios <- LogCases

\* Scripts: two sessions with one slot and a fork that fails; ip-up killed at
\* the end, with a limit that shrinks; two CoA requests; a limit removed while
\* sessions wait; three sessions before they are up; a limit that is set.
AllScripts == {"ip-pre-up", "ip-up", "ip-down", "ip-change"}
ScriptCase(clients, conf, limit, limits, fails, coa) ==
    [clients |-> clients, conf |-> conf, limit |-> limit, limits |-> limits, fails |-> fails, coa |-> coa]
ScriptCases == {ScriptCase({u1, u2}, AllScripts, 1, {}, 1, 0),
                ScriptCase({u1, u2}, {"ip-up", "ip-down"}, 2, {1}, 0, 0),
                ScriptCase({u1}, AllScripts, 1, {}, 0, 2),
                ScriptCase({u1, u2}, {"ip-up"}, 1, {0}, 0, 0),
                ScriptCase({u1, u2, c3}, {"ip-pre-up"}, 1, {2}, 1, 0),
                ScriptCase({u1}, {"ip-down"}, 0, {1}, 0, 1)}

Sc == INSTANCE Scripts WITH scr <- world, Clients <- {u1, u2, c3}, ScriptScenarios <- ScriptCases

\* The CLI: tcp clients; telnet clients that leave with commands to remember;
\* telnet sequences before the password; the editor; a client that is slow.
Sends == {"ok", "again", "fail"}
CliCase(kind, passwd, clients, chars, sends, events, loaded, reload) ==
    [kind |-> kind, passwd |-> passwd, clients |-> clients, chars |-> chars, sends |-> sends, events |-> events,
     loaded |-> loaded, reload |-> reload]
CliCases == {CliCase("tcp", TRUE, {c1, c2}, {"ok", "exit", "eof", "error", "part"}, Sends, 6, 0, TRUE),
             CliCase("telnet", FALSE, {c1, c2}, {"a", "cr", "ctrl-c", "esc", "up"}, {"ok"}, 10, 1, FALSE),
             CliCase("telnet", TRUE, {c1}, {"a", "cr", "iac", "will", "sb", "se"}, Sends, 7, 1, TRUE),
             CliCase("telnet", FALSE, {c1}, {"a", "del", "esc", "left", "right", "up", "down", "cr"}, {"ok"}, 9, 2, FALSE),
             CliCase("telnet", FALSE, {c1}, {"eof", "error", "cr", "a"}, Sends, 6, 0, FALSE)}

Cl == INSTANCE Cli WITH cli <- world, CliClients <- {c1, c2}, LineSize <- 4, HistoryLen <- 1, MaxXmit <- 3,
                        CliScenarios <- CliCases

\* Descriptors, edge- and level-triggered, and timers.
IoCase(timer, level, edges, ops) == [timer |-> timer, level |-> level, edges |-> edges, ops |-> ops]
IoCases == {IoCase(FALSE, FALSE, 3, 4), IoCase(FALSE, TRUE, 2, 3), IoCase(TRUE, FALSE, 3, 5)}

Io == INSTANCE TritonIo WITH io <- world, Objects <- {1, 2}, IoScenarios <- IoCases
-----------------------------------------------------------------------------
AccessInit ==
    \/ part = "l2tp" /\ Lt!L2tpInit
    \/ part = "sstp" /\ Ss!SstpInit
    \/ part = "pptp" /\ Pp!PptpInit
    \/ part = "ipoe" /\ Ip!IpoeInit
    \/ part = "pppoe" /\ Pe!PppoeInit
    \/ part = "chap" /\ Ch!ChapInit
    \/ part = "shaper" /\ Sh!ShaperInit
    \/ part = "dataplane" /\ Dp!DpInit
    \/ part = "ipoe.ko" /\ Ke!KernInit
    \/ part = "vlan_mon" /\ Vm!VmonInit
    \/ part = "pptp.ko" /\ Gr!GreInit
    \/ part = "log" /\ Lg!LogInit
    \/ part = "scripts" /\ Sc!ScriptInit
    \/ part = "cli" /\ Cl!CliInit
    \/ part = "io" /\ Io!IoInit

AccessNext ==
    /\ UNCHANGED part
    /\ \/ part = "l2tp" /\ Lt!L2tpNext
       \/ part = "sstp" /\ Ss!SstpNext
       \/ part = "pptp" /\ Pp!PptpNext
       \/ part = "ipoe" /\ Ip!IpoeNext
       \/ part = "pppoe" /\ Pe!PppoeNext
       \/ part = "chap" /\ Ch!ChapNext
       \/ part = "shaper" /\ Sh!ShaperNext
       \/ part = "dataplane" /\ Dp!DpNext
       \/ part = "ipoe.ko" /\ Ke!KernNext
       \/ part = "vlan_mon" /\ Vm!VmonNext
       \/ part = "pptp.ko" /\ Gr!GreNext
       \/ part = "log" /\ Lg!LogNext
       \/ part = "scripts" /\ Sc!ScriptNext
       \/ part = "cli" /\ Cl!CliNext
       \/ part = "io" /\ Io!IoNext

AccessSpec == AccessInit /\ [][AccessNext]_<<part, world>>

Symmetric == Permutations({s1, s2})
-----------------------------------------------------------------------------
\* The counters behind "show stat", the shutdown and the limits count what
\* there is, in every protocol, whichever side ends a connection and however
\* often its end is brought about; fork_cnt counts the scripts.
AccessCountersExact ==
    /\ part = "l2tp" => Lt!L2tpCountersExact
    /\ part = "sstp" => Ss!SstpCountersExact
    /\ part = "pptp" => Pp!PptpCountersExact
    /\ part = "ipoe" => Ip!IpoeCountersExact
    /\ part = "pppoe" => Pe!PppoeCountersExact
    /\ part = "scripts" => Sc!ScriptSlotsExact

\* Nothing waits without an end: what is not in service has a timer that runs
\* or a queued call that takes it on or ends it (timeout_timer of SSTP and
\* PPTP, the timers of IPoE sessions, of idle VLANs and, until a stray response
\* stops them, of challenges), a log message is on its way to the log thread
\* (whose last write may still go astray, NothingUnwritten) and written in its
\* session's order, a session asleep on a script will be woken, what waits for
\* a CLI client is sent, and no event of a descriptor or a timer is lost.
AccessTimed ==
    /\ part = "sstp" => Ss!SstpTimed
    /\ part = "pptp" => Pp!PptpTimed
    /\ part = "ipoe" => Ip!WaitsAreTimed
    /\ part = "pppoe" => Pe!IdleVlanIsTimed
    /\ part = "chap" => Ch!ChallengeIsTimed
    /\ part = "ipoe.ko" => Ke!UnknownExpire
    /\ part = "log" => Lg!LogsAreWritten
    /\ part = "scripts" => Sc!ScriptWaiterServed
    /\ part = "cli" => Cl!CliDrains
    /\ part = "io" => Io!EventsDelivered

\* A tunnel, a call, the shared PPPoE sockets, an IPoE device, a log file, what
\* a script's handler uses and a context with descriptors live as long as
\* somebody refers to them (tunnel_put, session_put, disc_stop, need_free,
\* ip_up_hnd, freed_list), and a telnet client refers to places within its line
\* and its history.
AccessReferences ==
    /\ part = "l2tp" => Lt!L2tpReferences
    /\ part = "pppoe" => Pe!NetRefsExact
    /\ part = "ipoe.ko" => Ke!DeviceRefsExact
    /\ part = "log" => Lg!LogFilesAlive
    /\ part = "scripts" => Sc!ScriptPdAlive
    /\ part = "cli" => Cl!CliEditor
    /\ part = "io" => Io!IoReferences

\* Nothing is carried for a peer that has not proved what it must: an L2TP
\* tunnel is up only after the answer to our challenge, SSTP passes network
\* packets only after the crypto binding, and PPP starts its network protocols
\* only after a right response to the challenge in force; the CLI executes
\* nothing before the password.
ProvedBeforeUse ==
    /\ part = "l2tp" => Lt!TunnelAuthenticated
    /\ part = "sstp" => Ss!BoundBeforeTraffic
    /\ part = "chap" => Ch!NetworkAfterProof /\ Ch!RefusedIsUnused
    /\ part = "cli" => Cl!CliAuthorized

\* A closed L2TP call's data channel is being stopped, and a tunnel that is
\* being torn down has no calls.
CallsStopWithTunnel == part = "l2tp" => Lt!ClosedCallsStop

\* An IPoE client has one session, an address or an interface of the cache one
\* user, and a redirection rule one owner; the kernel finds a session's device
\* by its address and by its MAC.
IpoeClientsExact ==
    /\ part = "ipoe" => Ip!OneSessionPerClient /\ Ip!LeasesExact /\ Ip!RedirectsExact
    /\ part = "ipoe.ko" => Ke!DevicesFound

\* A packet finds its connection and no other.  A PPPoE server finds exactly
\* the connections it serves, by cookie and by address, and counts them
\* (cookie_2_conn, mac_sessid_2_conn, conn_cnt); a PPTP call is found by its
\* identifier (callid_sock), and until their numbers near the wrap its packets reach PPP
\* in order.
ConnectionsFound ==
    /\ part = "pppoe" => Pe!PppoeTablesExact
    /\ part = "pptp.ko" => Gr!GreCallsFound /\ Gr!GreInOrder

\* What limits a session's rate is its own and goes with it: a shaper's pd lives
\* while it is referenced and no two shaped sessions have one class; sessions
\* that are over leave nothing in VPP, and a CoA changes the policer of its
\* own session.
LimitsAreOwn ==
    /\ part = "shaper" => Sh!PdReferenced /\ Sh!IdxUnique
    /\ part = "dataplane" => Dp!NothingLeft /\ Dp!CoaIsOwn

\* Beyond reports that were lost, starts that failed and servers stopped with
\* vlan-timeout 0, a VLAN is never silenced for nothing: the kernel keeps quiet
\* about it only while a report is on its way or a server exists, and reports
\* nothing of a protocol whose monitoring is off.
VlansReported == part = "vlan_mon" => Vm!SilentIsServed /\ Vm!OffIsQuiet
=============================================================================
