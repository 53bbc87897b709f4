# TLA+ models of micro-bng

micro-bng is a broadband access server: it terminates PPPoE, PPTP, L2TP, SSTP
and IPoE sessions, authenticates them against RADIUS, gives them addresses and
programs a VPP data plane. This directory holds TLA+ models of it, the TLC
configurations that check them and TLAPS proofs about them.

## The system and its parts

| Part | Source | State | Operations | Module |
|---|---|---|---|---|
| worker pool | `triton/triton.c` | workers, run queues, contexts with flags, references and pending calls | register, unregister, call, cancel, wakeup, schedule, priority, reload, terminate | `Triton` |
| descriptors and timers | `triton/md.c`, `timer.c` | epoll and timerfd threads, handlers that are armed, marked, pending or freed | register, enable, disable, event, expire, modify, unregister | `TritonIo` |
| PPP automaton | `ppp/ppp_fsm.c` | state, restart timer, two counters | packet and administrative events, timeout | `PppFsm` |
| PPP session | `ppp/`, `auth/auth_pap.c` | tree of layers, echo and authentication timers, the pending password check | packets, timers, late answers, termination | `Ppp` |
| CHAP | `auth/auth_chap_md5.c`, `auth_mschap_v1.c`, `auth_mschap_v2.c` | challenge in force, counters, timer, interval | challenge, response, timeout, answer, restart | `Chap` |
| session layer, start and stop | `session.c`, `main.c`, `cli/std_cmd.c` | `ses_list`, `ap_session_stat`, `ap_shutdown`, sleeping sessions | starting, set_username, activate, terminate, finished, shutdown | `Session` |
| PPPoE | `ctrl/pppoe` | servers, two tables of connections, `sid_map`, shared sockets, MAC filter, delayed PADOs | PADI, PADR, PADT, server start and stop, disconnect | `Pppoe`, `PppoeSid`, `Hashtable` |
| L2TP | `ctrl/l2tp/l2tp.c` | tunnels, calls, reference counts, queues, window | control messages, close, retransmission | `L2tp`, `L2tpChannel` |
| SSTP, PPTP | `ctrl/sstp`, `ctrl/pptp` | connection, its timers, deferred packets | control messages, PPP's events, hello and echo, disconnect | `Sstp`, `Pptp` |
| IPoE | `ctrl/ipoe` | interfaces, sessions, leases, cached units, redirection | DHCP, ARP, traffic, timers, interface events | `Ipoe` |
| RADIUS | `radius/` | requests, per-server slots and queues, failure times, accounting | send, retransmit, fail over, answer, CoA, Disconnect, reload | `Radius` |
| addresses and prefixes | `ipdb.c`, `extra/ippool.c`, `extra/ipv6pool.c`, `ppp/ipv6*`, `ipv6/` | pools, leases, routes | get, put, DHCPv6 messages, announcements | `Leases` |
| shaper | `shaper/` | limits per session and time range, class bitmap | attach, CoA, commands, time range, end | `Shaper` |
| VPP control plane | `vppapi.c` and its callers | interfaces, addresses, routes, policers | set up, CoA, tear down, and their failures | `Dataplane` |
| kernel drivers | `drivers/ipoe`, `drivers/vlan_mon`, `drivers/pptp`, `vlan-mon/` | devices, unknown clients, VLAN bitmaps, call identifiers, sequence numbers | packets under RCU, netlink commands, reports, sockets | `KernelIpoe`, `VlanMon`, `PptpGre` |
| log files | `logs/log_file.c` | per-file queues, descriptors, the log thread | write, rotate, end of session | `LogFile` |
| scripts | `extra/pppd_compat.c`, `extra/sigchld.c` | handlers, fork slots and queues | fork, child's end, kill, reload | `Scripts` |
| CLI | `cli/` | clients, output queues, line editor, history | input, output, password, disconnect | `Cli` |
| connection limits, secrets file, backup, license, Lua, SNMP, other log targets, cryptography | | | | not modelled |

How they interact. Every connection owns a triton context, and all its
handlers (packets, timers, posted calls) run in that context, one at a time but
on any worker. Code in one context reaches another only by posting a call
(`triton_context_call`) or waking it (`triton_context_wakeup`), and through
shared data: the counters and the list of sessions, session identifiers, tables
of connections, RADIUS servers, pools, the configuration. The md and timer
threads wake a context when a descriptor is ready or a timer runs out. The
kernel drivers talk to the daemon by netlink and sockets.

What is hard in this code: posts and wakeups race with workers that go to
sleep and with contexts that are unregistered; handlers re-enter themselves
through callbacks and may free what they are still using; timers race with late
answers; a tunnel, its calls and their PPP sessions end in three contexts in any
order; sessions of one name replace each other and sleep until the other has
gone; the end of a shutdown rests on counters that several threads change;
limits and slots are taken in one context and given back in another; control
messages and reports are lost, repeated and reordered. `PROJECT.json` lists
these hazards line by line, each with the properties that are about it.

## Modules

### `Triton`: the worker pool

One action per critical section of a spinlock (`threads_lock`, `ctx_list_lock`,
`ctx->lock`), and separate actions for what the code does between two of them:
a worker is given a context under the lock and signalled after it
(`ContextCall`, then `Kick`), it enters `sleep_threads` under the lock and
sigwait after it (`GoToSleep`, `CheckTerminate`, `SigWake`). `tpc[t]` is the
place of worker t in `triton_thread` and `ctx_thread`. A callback is a
nondeterministic choice of what callbacks do to the scheduler: return, suspend
the context, change its priority, unregister it, ask for a reload. The work of a
context is a set of numbered calls. Posters are the threads that post: the
epoll and timer threads, other workers, the CLI.

`TritonIo` is the part of ctx_thread that serves descriptors and timers, with
the two threads that feed it: a handler's interest, its events and its
deferred changes (`mod`, `armed`, `pending`), edge and level triggers, timers
that are modified or deleted while they run out, and the freed list that keeps
memory until epoll can no longer return it.

### `PppFsm`, `Ppp`, `Chap`: one PPP session

`PppFsm` translates the handlers of `ppp_fsm.c` to operators that map an
automaton to its next state and name the callback it makes. `Ppp` composes the
automata of LCP and the network protocols with the tree of layers, PAP
authentication, the session and the PPPoE connection that owns it. All of it
runs in one context, so a handler is one step; but handlers re-enter the code
through callbacks, so a handler is an operator on the whole state and callbacks
are applied where the code makes them. Writing to a layer that was freed is
recorded (`ses.bad`) and reported by `NoUseAfterFree`. The peer sends any packet
at any time, or falls silent for good. Options are abstracted to the answer
they lead to; addresses may run out; the interface may fail to come up or a
shutdown keep it down; `establish_ppp` may fail; the password check may answer at
once or later, and a request that is too short leaves the authentication without
its timeout. `EchoTimeout` adds lcp-echo-timeout, with which packets of the
peer put the echo off (`ppp_link`). Unregistering a context with an armed timer
is refused, as `triton_context_unregister` does (`Unregister`).

`Chap` has the three challenge protocols: identifiers that wrap, a response to
the challenge in force, to an earlier one, or repeated, the timeout, the
re-challenge interval, and the answer of RADIUS or of the local secrets, which
may come late. A digest is right or wrong.

### `Session`: all sessions together

Here the interleaving between contexts matters, so each atomic operation on a
counter, each section under `ses_lock` and each unprotected read is a step, and
`pc[s]` is the place reached in the handler that session s is running. Sessions
are of three kinds, which differ in how they are admitted and counted: PPPoE
(`incoming` is taken by the PADR handler), tunnels and IPoE (which counts itself
again when it activates). The counters are unsigned (`UIntMod`). The main
thread and a CLI client may run `ap_shutdown_soft`.

### `Pppoe`, `PppoeSid`, `Hashtable`: PPPoE

`Pppoe` has the servers of an interface: PADI with its limit and the delayed
PADO, PADR with cookies, the tables `cookie_2_conn` and `mac_sessid_2_conn`,
connections that start and end in their own context, the stop of a server, the
sockets shared by all servers, the MAC filter and servers of VLANs that end when
idle. `PppoeSid` is `sid_map` with the widths of `int` and `long` as parameters:
the map's words are longs, and `disconnect` gives an identifier back with an int
shift. `Hashtable` is the chained table with one mutex per bucket that finds
connections; its abstract specification is `HashMap`, a map whose entries stay
while a thread has them pinned. `load_pado_delay_iface` is what a reload of the
configuration does to the table of PADO delays, while no worker runs: its loop and
that of `obj_hashtable_ts_destroy` stop at `num_elements` instead of `size`, and the
first reads the data of a node that is not there as soon as one of the buckets it
reaches holds anything (`alive`, `leaked`).

### `L2tp`, `L2tpChannel`, `Sstp`, `Pptp`: tunnels

`L2tpChannel` is the reliable control channel, run by both ends over a network
that loses, repeats and reorders: Ns and Nr modulo `SeqSpace`, send,
retransmission and receive queues, the peer's window, the timer and its limit.
Messages that were accepted and not sent yet are withdrawn: those of a call that
is disconnected (`l2tp_session_clear_sendqueue`), and all of them before a StopCCN
and when one is received (`l2tp_tunnel_clear_sendqueue`); an end that is closing
(`FIN`, `FIN_WAIT`) acknowledges what comes without processing it. Its abstract
specification is `L2tpFifo`, a FIFO with withdrawal: what one end has accepted and
not withdrawn the other hands to its handlers in order and once, until an end gives
the tunnel up. Each datagram carries its number of messages unwrapped beside Ns and
Nr (`ns`, `nr`), only to say how old it is: the network drops one before `Lifetime`
further messages were sent, and `Lifetime` is less than half the sequence space. That
bounds the age of a datagram, not the life of a tunnel. `L2tp` is what is built on
it: a tunnel and
its calls in both directions, authentication, the data channels and PPP
sessions with their contexts, the reference counts (`tunnel_put`,
`session_put`), and every way to end them. A tunnel's context runs as soon as
`l2tp_tunnel_start` has woken it, while the starter still adds its timer and its
call (`StartTimer`, `StartCall`), and a data channel while its call goes on
(`ChannelCall`, `ChannelCount`); a starter that uses what has gone in between is
recorded (`stale`). `Sstp` and `Pptp` are one control
connection each with its state machine, timers, echo or hello, the PPP session
above and, for SSTP, the deferred packets, crypto binding and proxy header.

### `Ipoe`, `KernelIpoe`, `VlanMon`: IP over Ethernet

`Ipoe` is one interface with its sessions: discover, request, relayed messages,
delayed offers, sessions started by traffic, leases from a range or from RADIUS,
the cache of kernel interfaces, rejected clients that are redirected, soft
termination, option 82, an interface per VLAN, and the end of the interface or
the daemon. Calls that are queued behind the end of a session are kept in order.
The handlers that hold `serv->lock` are one step. Those that do not are split: the
delayed ARP start adds its session to the list without the lock (`Unlocked`, then
`UnlockedDone`, after which the count or the list may be wrong if another change
came between), the limit of the interface cache is tested before `uc_lock` is taken
(`GoesToCache`, then `ReleaseIf`), and `ipoe_serv_release` frees the interface after
it has dropped the lock (`Released`).
`KernelIpoe` is the driver: devices found by address and by MAC, unknown clients
and their queue, with packets on several CPUs under RCU beside the netlink
commands; `VlanMon` is the path from a frame of an unknown VLAN through
`vlan_mon` and netlink to the servers that are started for it, and back when
they end.

### `PptpGre`: PPTP's data channel

The call identifiers, the sockets bound to them and the sequence numbers of the
kernel driver, whose packets the network loses, repeats and reorders. `SeqMod` and
`Zone` stand for 2^32 and the window of WRAPPED.

### `Radius`, `Leases`, `Shaper`, `Dataplane`: what sessions use

`Radius` has requests with their timers and retries, servers with slots
(`req_cnt`), two queues and failure times, fail-over, accounting from Start to a
deferred Stop, CoA and Disconnect requests, Accounting-On and a reload that
removes a server. `Leases` has pools of numbers of `AddrBits` bits with the
generators of the code, and who holds which address, prefix and route through
PPP, DHCPv6 and IPoE; an item that is put into a pool that has it already is
recorded (`twice`). `Shaper` has the rate limits of sessions with their class
index, changed by CoA, by command and by time ranges. `Dataplane` has what a
session leaves in VPP: interfaces, policers, classifiers and the routes of its
address, of an offered address that differs, and of a delegated prefix. VPP is
external and may refuse each call.

### `LogFile`, `Scripts`, `Cli`: around the sessions

`LogFile` is the log thread, the files' queues and descriptors, and rotation;
`Scripts` the processes started for a session, the fork limit with its two
queues and the thread that collects children; `Cli` the tcp and telnet clients
with their output, line editor and history.

## Runs

Passing runs:

| Run | Instance | What it shows |
|---|---|---|
| `triton_pool` | 2 workers, 2 contexts (one suspends itself), 2 posters, 2 priorities, 3 operations, registration, reload, termination | contexts are serial, queues well formed, no call, close request or signal is lost (`NoWorkLost`), nothing reachable is freed |
| `triton_live` | the same with 1 poster and 2 operations, under fairness | posted work, wakeups and reloads complete; `triton_terminate` returns |
| `ppp_link` | IPv4, with PAP and with `noauth`, echo and session timer, a peer that may disappear, under fairness | `TeardownIsClean`: nothing freed is used or left armed and a finished session's connection is released; the link never waits without its timer; a termination under way completes without the peer's help; a silent peer is dropped, also with lcp-echo-timeout |
| `ppp_layers` | IPv4 and a passive IPv6 protocol with PAP; and no authentication with CCP and IPv4 started inside LCP's callback; every packet | no use after free under re-entrancy; authentication first; an active session carries traffic; addresses are there when used |
| `sessions` | 2 PPPoE sessions of one name with single-session=deny, max-starting 1, CLI shutdown and cancel; one such session with SIGTERM as well; and 3 sessions of one name, one of each kind, with single-session=replace | the counters are exact and the limit holds (deny); never two active sessions; sleepers are always armed |
| `session_stop` | 2 PPPoE sessions of one name, single-session=replace, soft shutdown, under fairness | sleepers resume; the shutdown ends |
| `services` | 4 identifiers and 5 connections with int and long of one size; 2 sessions against a RADIUS server and its backup in five environments; 2 sessions of each pair of kinds on small pools | identifiers are unique and conserved; slots and queues are exact and everybody who waits is answered; every address and prefix is free or has one holder, but for the delegated prefix of an IPoE session, which two modules return; a route of a PPP session with IPv4 is its holder's |
| `access` | one small instance each of L2TP, SSTP, PPTP, IPoE, PPPoE, CHAP, shaper, VPP state, the three drivers, log files, scripts, CLI and descriptors and timers | see below |
| `refine` | the L2TP channel with 3 and 1 messages across the wrap of the numbers; the hash table with 2 threads, 3 keys, 2 buckets | the channel implements a FIFO with withdrawal and, under fairness, hands over what it accepted unless that is withdrawn or an end closes; the table implements a map |

`access` instantiates fifteen modules that share no state; `part` says which one
a behaviour belongs to. Its invariants state one thing for all of them:

| Invariant | Parts |
|---|---|
| `AccessCountersExact` | counters of tunnels, connections, sessions, script slots count what there is; not the sessions of an IPoE interface once an unlocked addition met another change, nor an L2TP tunnel that is opened again while it closes |
| `AccessTimed` | whatever waits has a timer that runs, a queued call or a thread that will serve it: SSTP, PPTP, IPoE, idle VLANs, challenges, unknown clients, log messages, sleepers on scripts, CLI output, events of descriptors and timers |
| `AccessReferences` | reference counts are exact and nothing is freed while referred to: tunnels, calls, PPPoE sockets, kernel devices, log files, scripts' data, contexts with descriptors; the CLI's editor stays within its line |
| `ProvedBeforeUse` | L2TP tunnel authentication, SSTP crypto binding, CHAP, the CLI password |
| `CallsStopWithTunnel` | calls of an L2TP tunnel that is torn down are stopped, unless their starter has already used freed memory (`stale`) |
| `IpoeClientsExact` | one session per client, one user per address, cached interface and redirection; the cache exceeds unit-cache by no more than the sessions that end together; the driver finds a device by both keys |
| `ConnectionsFound` | PPPoE's tables and PPTP's call identifiers lead to the connection and no other; GRE packets reach PPP in order |
| `LimitsAreOwn` | a shaper's data lives while referenced and its class is its own; finished sessions leave no policer or classifier in VPP, and no interface or route but those of delegated prefixes (IPoE, and PPP without an IPv4 interface) and of an IPoE address that differs from the peer's |
| `VlansReported` | a VLAN is kept silent only while it is being reported or served, or after one of the exits that forget it: a report that is lost, a device or server that cannot be set up, a server freed with vlan-timeout=0 |

Runs that end in a violation, each a finding in `PROJECT.json`:

| Run | What the code does |
|---|---|
| `ppp_code_reject` | Code-Reject in Opened leads to a wait for a Terminate-Ack without the restart timer: the session may stay in FINISHING |
| `session_ipoe` | IPoE counts its sessions twice, so a shutdown never completes |
| `sid_lp64` | with a 64-bit long, giving back one identifier frees another |

### What the code does not satisfy

While modelling, TLC refuted statements that a reader of the code would expect.
They are definitions in the modules, marked "Does not hold", and no run checks
them; the runs' invariants are about what holds beside them, and a step whose
outcome is undefined (use of freed memory, a NULL pointer) ends the behaviour of
its part. No document of the repository makes them, but for `ReloadFreesAll`,
which is the comment at myhashtable.c:425.

| Module | Definition | What happens |
|---|---|---|
| `Ipoe` | `IpoeNoCrash` | `ipoe_session_finished` reads the address that `ap_session_finished` has given up (ipoe.c:1305); a session whose `ap_session_starting` failed goes on (779); a list is damaged by an addition without the lock (1752); an interface is freed with a session in it (2707) |
| `KernelIpoe` | `KernNoCrash`, `WlockIsMutex` | a packet writes a MAC back that a modify cleared, and the delete unlinks twice; delete releases `ipoe_wlock` twice |
| `VlanMon` | `ServerHasDevice`, `NothingForgotten` | a lost report is not repeated; a frame of one protocol removes the device of the other's server |
| `PptpGre` | `CallidsUnique`, `OneCallPerPeer`, `OrderAcrossWrap` | a full table gives out the last identifier again; the peer is tested outside the lock; at the wrap all packets are accepted or dropped |
| `Pppoe` | `PppoeNoCrash`, `PadoDelayFollowsCount`, `PadiLimitIsPerSecond` | a stopped server is freed under a connection that is about to start; the PADO delay lags behind the count; `total_padi_cnt` drifts |
| `Hashtable` | `CountIsExact`, `ReloadSurvives`, `ReloadFreesAll` | `num_elements` is changed under different mutexes; `load_pado_delay_iface` reads beyond the last node of a bucket; destroy visits as many buckets as there are elements (myhashtable.c:435) and leaks those of the others |
| `Radius` | `CallHasRequest` | `req_wakeup_failed` is not cancelled when its request is freed |
| `Leases` | `DelegatedIsRouted` | a former holder removes the route of the new one |
| `L2tp` | `StarterOutlived`, `OpenedOnce` | a tunnel or a data channel that was woken ends before its starter is done with it (l2tp.c:1535, 1843); a tunnel that is closing is set to WAIT_SCCRP or WAIT_SCCCN again (2269, 2366) |
| `Ppp` | `EveryTerminationCompletes` | with `noauth`, LCP is marked Opened after a protocol that failed has closed it (ppp_fsm.c:346) |
| `Shaper` | `ShaperNoCrash`, `TempIsInstalled` | a time range ends under a command; a temporary limit is not given to every new session |
| `Dataplane` | `UpIsRouted`, `RateIsPoliced` | a refused VPP call is not noticed |
| `LogFile` | `FailedInOrder`, `FileIsQueued`, `NothingUnwritten`, `DescriptorsOwned` | the messages of a session that failed later go before those of an earlier one (log_file.c:301); the log thread takes a file from an empty queue after a spurious wakeup (186); the last vector is written after `queued` was cleared; a second rotation loses the first one's descriptor |
| `Scripts` | `AttributesRemoved`, `PdOutlivesHandler`, `KillsOwnChild`, `HandlerNotReused`, `QueuedIsServed` | a CoA before the session is active, or while it finishes, leaves its file of attributes; `ip_up_hnd` is tested outside its lock; a collected pid is killed; a new script loses its pid; removing the limit strands the queue |
| `TritonIo` | `InterestInstalled`, `ExpiresWhenDue`, `ContextCanEnd` | interest added before the first event is only marked; a timer set anew while pending expires at once; a failed `triton_timer_add` keeps a reference |
| `Cli` | `HistoryAlive`, `ClientAlive`, `PasswordIsSet`, `CpuUsageExact`, `HistoryCounted` | freed history entries are shown; a telnet sequence that is too long frees its client under the reader; a reload removes the password that is being compared |

Beside these: the delegated prefix of an IPoE session is returned by both DHCPv6
modules (ppp/dhcpv6.c:171, ipv6/dhcpv6.c:170), so that two sessions may get it
(`twice` in `Leases`, which `LeasedOnce` allows for this case only); one Echo-Request more than `lcp-echo-failure` is sent; a tunnel session
gives back an `incoming` slot it never took, so the unsigned counter wraps
(`CountersExact` is claimed where only PPPoE sessions
arrive); a session that starts during a
shutdown may be missed by it; PADRs handled before their sessions are counted
may together exceed max-sessions, which no run therefore limits
(`MaxSessions = 0`). In L2TP two tests join their conditions by `&&` where the
messages they print suggest `||` (l2tp.c:3299, 3605); the model does what the
code does. `RECV_WINDOW_SIZE_MAX` (32768, l2tp.c:69) lets a peer advertise exactly
half the sequence space; `nsnr_cmp(Ns, Nr_max)` is then positive for an idle tunnel
and `l2tp_tunnel_push_sendqueue` (l2tp.c:621) never sends. TLC shows it with
`Window = 4`, `SeqSpace = 8`; `ChannelAssumption` excludes that window. In `ppp_link` the peer sends neither a Terminate-Ack nor a
Code-Reject: the first stops the restart timer in every state (`ppp_fsm.c:429`),
the second starts none (`ppp_fsm.c:478`), and both would leave a silent peer
unnoticed; `ppp_layers` includes them.

### Bounds and why they are enough

`MaxOps` bounds the operations posted in a run of `Triton`: each hazard needs
two racing operations and one that interferes, so three with two posters show
every pair of critical sections in both orders; the liveness run needs a call and
a wakeup. Two workers and two contexts give the case that all workers are busy,
the case that one is idle, and a suspended context whose worker serves another
one. Workers and posters are interchangeable, which the safety runs use as
symmetry; the liveness runs do not. In `Ppp` the restart counters are 1 or 2 (the
code tests only whether they reach zero), one disconnect may be queued by a PADT
besides the session's own (`MaxPadt`), and the peer is unbounded. In `Session`
each session arrives once; three sessions are needed for a chain of
replacements, two for every race on the counters. `UIntMod` is 8, more than any
count that occurs, so that a value above the number of sessions can only be a
wrapped one.

The modules of `access` and `services` take a set of scenarios, each of which
turns on the features that meet in one hazard (the comments in `MCAccess` and
`MCServices` say which): two clients, one feature or failure each, and one or two
of every countable thing. Their bounds are `MaxNak`, `MaxDeferred` (SSTP),
`EchoFailure` (PPTP, 2 so that a lost answer is followed by one that comes),
`Retransmit` (IPoE), `MaxValues`, `IdMod` (CHAP, 3 so that identifiers wrap),
`MaxCommands`, `MaxIdx` (shaper), `MaxPackets` (IPoE driver, two in flight),
frames and `MaxIndex` (VLANs), `opens`, `sent`, `SeqMod` (PPTP, beyond one wrap),
`msgs`, `reopens`, `IovMax` (log, more messages than one vector), `events`,
`LineSize`, `HistoryLen`, `MaxXmit` (CLI, past the end of each buffer), `edges` and
`ops` (descriptors and timers), `MaxTry`, `MaxFail`, `ReqLimit` (RADIUS, 1 so that
the second request queues). In `refine` the numbers start at 5 of 6 so that they
wrap, the window is 2 with 3 messages so that it fills, and at most 2 datagrams
are under way (`NetSize`), which is enough to lose, repeat and overtake; `Lifetime` is the
largest that is less than half of the 6 numbers. L2TP calls are
interchangeable in `access`, RADIUS sessions and lease holders in `services`.

Deadlock is not checked where everything may come to rest: no work, no peer, no
session, or a bound reached.

### Fairness

Workers, posters and main are threads, so their steps are weakly fair; callbacks
return. Nobody is obliged to post, to reload, to shut down or to send a packet.
In `Ppp` armed timers expire, queued calls run, and RADIUS answers every query
(its client gives up after its own timeout and reports a failure; `RadiusAnswers`
is the safety part of that). The fairness of `Ppp` is written out as
`[]<>~P \/ []<><<A>>_vars`, where P is the condition under which A changes the
state, for evaluating ENABLED of these handlers is beyond TLC. In `Session`
contexts are served (`triton_live` shows it), the lower layers of a terminating
session end (`ppp_link` shows it, with the exceptions named above), and for
`ShutdownEnds` the clients leave at last: a soft shutdown waits for them by
design. In `L2tpChannel` only the retransmission timers are fair: the
network may lose every datagram, and then the channel gives up, which
`AcceptedIsHanded` allows. The new modules claim no other liveness; `AccessTimed`
and `RadiusAnswers` state the reason for progress as an invariant: something
that will run is there for everything that waits.

## Proofs

`TritonProofs` proves `TypeCorrect == Spec => []TypeOK` for any number of
workers, contexts, posters, priorities and operations. `TypeOK` is not inductive
by itself: a poster in the middle of an operation passes its function on, so the
induction also carries `PosterInv`, which says that such a poster has a context
and a function. There is a lemma per action, and lemmas for the operators they
share (`Unlink`, `QueueCtx`, `Take`).

Its second part proves `OneWorkerPerContext`, `LinkedOnce` and `NoUseAfterFree`
of `Triton` for the same instances, from one inductive invariant, `IInv`. None of
the three is inductive alone: that a worker is the only one to run a context
rests on what a queue entry guarantees (`QueueInv`: live and without a worker), on
who may link a sleeping context (`WakeInv`: its own worker's list, once, and not
while it is being resumed), on what a worker on `sleep_threads` may be
(`SleepInv`), and, because freed memory is registered again, on the reference
count being exact (`RefInv`: the posters that hold the context, plus one for its
registration until the worker that unregistered it has dropped it). `FreeInv`
says how far the unregistration has got at each place of `ctx_thread`, and
`CtxInv` that a context with a worker is registered or is about to be freed by
that very worker. The proof has a lemma per action or group of actions that
move a worker in the same way (`Walk`, `IdleMove`, `Frame`), one step per conjunct,
and lemmas for the list operations (`UnlinkFacts`, `PopFacts`, `PushFacts`,
`HeadFacts`).

`PppoeSidProofs` proves `SidsUnique`: if int and long have the same size, no two
connections ever share an identifier, none is lost and no reserved one is used,
for any map and any number of connections; `IdentifiersAreExact` is the same as the
invariant of run `services`. `UniqueSessionId` alone is not
inductive; `SidsConserved` says that a set bit belongs to nobody, so its taker is
the only owner, and `ReservedUnused` that `disconnect` never frees a reserved
bit. The hypothesis is used in one lemma, `ShiftExact`; run `sid_lp64` shows that
it is needed.

`HashtableProofs` proves for any keys, data, hash function and number of threads
that the chains stay well formed (`ChainsSafe`) and that the table implements
the map with pins (`TableRefinesMap == HashSpec => TableIsMap`). That a free never
removes what another thread has pinned rests on `OwnerInv` (a thread at work in a
bucket holds its mutex) and `HeldInv` (what it holds is there); `ChainsInv` makes
the union of the chains a function of the key. Insert is shown to be `Put`, free
`Del`, get `Pin`, a reload `Clear`, and all other steps `Unpin` or a stutter. A reload that
reads beyond a node ends the behaviour; nothing is claimed after it.

The last part of `TritonProofs` proves that the pool loses nothing (`WorkIsNotLost == Spec =>
[]NoWorkLost`) and leaves nothing waiting (`PoolConservesWork == Spec =>
[]WorkConserving`), from a second inductive invariant on top of `IInv`, `WInv`. Its
half about signals says that an idle worker is on `sleep_threads` where
`triton_queue_ctx` looks for it, and that whoever took a worker off that list
still has its signal to send. Its half about work follows a call or a close
request through the places where the worker has already looked: a context that
was not started has `pending` set (`NotStartedInv`), a started one is queued or
has a worker (`JobInv`), and a worker past its look at `need_close` or at the
calls finds `pending` set when it leaves (`LateCloseInv`, `LateCallInv`).

`SessionProofs` proves about `Session`, for any sessions, kinds, configurations
and shutdown requests:

- `TypeCorrect`, and `SessionInvariant == Spec => []SInv`. `SInv` relates the place
  of a session in its handlers to its state (`Life`), to the permission to start
  the network, which a session gets once, queued or taken (`TokenOnce`), to
  `ses_list` (`ListInv`: in it from `StartLink` to `FinishUnlink`, an IPoE session
  whose start failed excepted) and to `ses->wakeup` (`WakeInv`: who waits sleeps,
  in one session's `wakeup` and one only, which is in the list or on its way from
  it to the wakeup).
- `WaitersAreArmed`, from `WakeInv`.
- `CountersAreExact == OneContext /\ Spec => []CountersExact`. Every step changes
  the set a counter stands for by the session that takes the step, or not at all
  (`Follows`, `SetFollows`), and `SInv` says that the set and the counter change
  in the same step; the sets have at most as many elements as there are sessions,
  so no counter wraps. The limit needs `SlotInv`: the place found free in
  `PadrCheckSlot` is free in `PadrTakeSlot`, because one discovery context handles
  one PADR at a time. `OneContext` is this hypothesis: with two discovery contexts
  both may find the last place free.

It also proves `NamesAreSingle == CancelIsSafe /\ Spec =>
[]OneSessionPerName`. The listed sessions of one name form a chain (`NameChain`):
the first runs, each other one sleeps and is the `wakeup` of the one before it.
`ap_session_set_username` appends to the chain (`ChainTake`: the session it finds
without a waiter is the last one), `ap_session_finished` takes the first one away
and wakes the next (`ChainUnlink`, `ChainWake`), and only the first one can become
active (`FirstOfChain`). `AllListed` is what the chain rests on and where IPoE
breaks it: a session whose `ap_session_starting` failed during a shutdown goes on
with a name and outside the list. No session is activated during a shutdown, so
the property holds all the same unless the shutdown is cancelled; `CancelIsSafe`
excludes IPoE clients where it may be. TLC confirms that the hypothesis is needed:
with one IPoE and one PPPoE session of one name, a soft shutdown and a cancel, both
become active. The proof is by the trusted states (`Trusted`: no shutdown, or no
IPoE), which are not regained once lost (`TrustStep`).

`L2tpProofs` proves about `L2tpChannel`:

- `ChannelRefinesFifo == ChanSpec => ChannelIsFifo`, for every window, sequence
  space, first sequence number, retransmission limit, network and number of messages.
  The inductive invariant is `ChanInv`. It says of an end, given what its peer has sent,
  how much the peer has taken and how much of that the end knows of (`CoreOk`): its i-th
  message has the number `FirstNs + i - 1` (`Num`), what it handed over is a prefix of what
  the peer sent, each slot of its receive ring is empty or holds the message its distance
  to `Nr` says (`RingOk`), and neither end is more than a window ahead. `FlightOk` is the same for the
  retransmission queue and `PacketOk` for each datagram. `StoreOk` is the heart: a
  datagram is at most `Lifetime` messages old and a sender at most a window ahead, so the
  two numbers that meet are less than half the sequence space apart, `nsnr_cmp` orders
  them (`Compare`), and a late duplicate is never stored. The lemmas on `%` (`ModAdd`,
  `NumDistance`, `RingShift`, `RingBack`) carry the arithmetic. A handler that
  withdraws, sends and pushes (`WithdrawnOk`, `PushOk`), a read with all that the messages
  it hands over may do, a closing included (`DequeueOk`, `ClosedOk`, `ProcessedOk`), the
  timer and the end are each shown to keep the invariant and to be one step of the
  FIFO (`PutStep`).
- `WindowIsRespected == ChanSpec => []WindowRespected`, from the same invariant
  (`FlightOk`, `TimerOk`, `FullOk`): never more messages are unacknowledged than the peer's
  window holds, none is kept back while there is room, and the timer runs exactly while
  one is unacknowledged.

`ChannelAssumption` asks for `Window <= Lifetime < SeqSpace / 2`. The code has windows up to
32768 of 65536 (the excluded one, see above), and the bound on the age of a datagram is
what RFC 2661 takes for granted when it compares 16-bit numbers.

`PppProofs` proves about `Ppp`, for every configuration of the network protocols,
every number of retries and every bound on queued disconnects:

- `PppPhases == Spec => []PppInv`. A session is fresh (`Fresh`: not connected, or
  `establish_ppp` failed),
  held (`Held`) or released (`Released`: freed, without a timer, a query or a queued
  call but the disconnect). Between handlers LCP holds the session (`LinkHeld`): it
  is starting and not finished, and because `lcp_layer_finish` only sends a request
  or queues `lcpFinished`, no soft termination, from whatever depth of callbacks,
  frees the layers under a handler that goes on with them. They are freed by
  `ppp_layer_finished` of LCP, called last, and by a hard termination (the echo
  timer, an administrator, the disconnect), after which its handler does nothing
  more. While a session is not terminating, `Network`
  says of its authentication (`Authentic`) that nothing of it precedes the link and
  that it succeeded before it was reported, and of each network protocol
  (`NcpSound`) that it began after the authentication, is up once started, and has
  its address outside Initial and Closed.
- From it `PppTeardown` (`TeardownIsClean`), `PppNoUseAfterFree`,
  `PppAuthBeforeNetwork`, `PppActiveCarriesTraffic` and `PppRequestHasAddress`. None of
  these is inductive: that an active session carries traffic needs that a protocol
  which ends terminates the session, and that one needs the phases.
- `PppRestartTimerRuns == Polite => (Spec => []RestartTimerRuns)`, from `TimedInv` on
  top of `PppInv`: a link that waits has its timer, and it is Opened exactly while
  its layer is up. `Polite` (the peer sends neither a Terminate-Ack nor a
  Code-Reject) is needed: the code stops the timer, see above and run
  `ppp_code_reject`.

A handler is an operator on the whole state, so its proof follows the calls it
makes: for each operator a lemma says what it keeps (`Base`, `Held`) and in which
phase it may leave the session. While the network protocols are started one after
the other nothing that carries traffic is up yet, so the interface cannot fail in
the middle of that loop. The walks over the layers are unrolled: there are at most
three network protocols (IPCP, IPv6CP and CCP register), which `PppAssumption`
states. `Without`, the queue that `triton_cancel_call` leaves, is a recursive
function on the queue's length; what it returns is proved by a least counterexample
(`LeastNatural`, `UpTo`), since the induction theorems of the library cannot be
instantiated.

`AccessProofs` proves, for every set of handlers, login and number of failures,
`ChapIsSound == ChapConfig => (ChapSpec => [](NetworkAfterProof /\ RefusedIsUnused /\
ChallengeIsTimed))`. The network is reached only through a right response to the
challenge in force, a protocol the peer refused is not used, and a challenge that
is open has its timeout. The invariant `Sound` adds the phases (`ChapPhases`: nothing
is checked before the layer starts, and the network follows a success) and that a
success leaves the interval timer (`ChapTimed`). For a PPTP control connection it
proves `PptpIsCounted == EchoFailure \in Nat => (PptpSpec => [](PptpCountersExact /\
PptpTimed))`, from `Steady`: the connection is counted as starting or active exactly
while it is in the table (`Counts`), whichever side or timer ends it and however often
its end is brought about, and what is not in service has its
timeout or its queued end, unless the peer cleared the call (`Connected`).

`DataProofs` is about the rate limits and PPTP's data channel:

- `LimitsAreReferenced == ShaperConfig /\ ShaperSpec => [](PdReferenced /\ IdxUnique)`, for
  any sessions, speeds, time ranges and size of an int. `Refs` (list and queued calls
  are counted) is inductive; the index is not unique for its own sake: `Classes` says
  that the bits of the classes in use differ and none is free, and `Fits` is what a
  step may do to a session's pd and the map together. `AllocIsFree` shows that
  `alloc_idx` takes a free bit although it reads only the lower half of each word
  (`BitOfFound`).
- `GreCallsAreFound == GreConfig /\ GreSpec => []GreCallsFound`, for any sockets and
  identifiers: what the table holds is bound (`TableOk`), identifier 0 is never given
  out, and a socket is referred to by its file and by the packet in hand (`SockOk`).
- `GreKeepsOrder == GreConfig /\ NumbersDoNotWrap /\ GreSpec => []OrderAcrossWrap`:
  whatever is lost, repeated or reordered, packets reach PPP in order. `OldIs` is the
  point: below the window of `WRAPPED` a packet is old exactly if its number is not
  above the last accepted one. `NumbersDoNotWrap` is needed, see above.

Assumptions: `ConstantAssumption` (finite sets of workers and posters, at least
two priorities, a default context that is never unregistered), `SidAssumption`,
`HashAssumption`, `ChannelAssumption`, `PppAssumption` (at most three network
protocols, and limits that are numbers) and
`SessionAssumption` (finitely many sessions, fewer than `UIntMod`); TLC evaluates
them in the runs. `ChapConfig`, `ShaperConfig`, `GreConfig` and `EchoFailure \in Nat` are
hypotheses of their theorems: the handlers that exist, sizes that are not zero,
numbers that are numbers and sockets other than "no socket".

Only model-checked: liveness and everything under fairness (beyond the prover);
the invariants of `access` about `L2tp`, `Sstp`, `Ipoe`, `Pppoe`, `KernelIpoe`,
`VlanMon`, `Dataplane`, `LogFile`, `Scripts`, `Cli` and `TritonIo`; those of `Radius`
and `Leases` in `services`; and the conjunctions over several modules as such, of
which the theorems prove the parts: of `refine`'s `WindowsAndChains` the window
and the chains, of `access` the conjuncts about CHAP, PPTP,
the shaper and the GRE channel. `Cli` and `Radius` declare recursive operators,
which the prover does not handle.

## What is not modelled

Encodings (tags, AVPs, attributes, DHCP options, netlink and VPP messages) are
abstracted to the fields the handlers decide on; wording and "show" commands are
left out. Not modelled at all: `connlimit` (a token bucket asked before a
connection exists), the secrets file (a lookup whose answer `Chap` chooses),
backup (compiled only with `USE_BACKUP`), the license (its effect is a limit on
sessions), Lua and SNMP (presentation), syslog, tcp and database log targets,
memory pools, the configuration parser, the module loader and the vendored
cryptography. Two races that end in undefined data are listed as hazards and
not modelled: the unlocked drain of `pending_calls` and two reloads that
overwrite one notification. Memory that runs out is modelled where a handler has an
exit for it (L2TP, `establish_ppp`, the drivers); elsewhere the code does not test for
it.

## Plan

Done, in the order of importance: the scheduler, PPP, the session layer and
identifiers; then the tunnels with the L2TP channel as a refinement, RADIUS,
PPPoE discovery, IPoE, addresses, CHAP, shaper, VPP state, drivers, log files,
scripts, CLI, descriptors and timers.

Proved: the scheduler's safety and conservation of work, the identifiers, the
session layer's counters, wakeups and names, the two refinements of `refine`, the
life of a PPP session, the challenge handshakes, PPTP's connections and data channel
and the shaper's references.

Next: an abstract life of a session (none, starting, active, finishing, gone) that
`Session` and `Ppp` refine; the counters and references of `Pppoe` and `L2tp`.

In `PROJECT.json`, "map" names the lines each definition models. A helper whose
lines lie inside those of the operation that uses it is not listed on its own.
