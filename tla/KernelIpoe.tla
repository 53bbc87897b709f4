----------------------------- MODULE KernelIpoe -----------------------------
(***************************************************************************)
(* The kernel side of IPoE (drivers/ipoe/ipoe.c) as the daemon drives it   *)
(* over netlink (ctrl/ipoe/ipoe_netlink.c): one device per session, found  *)
(* by route, by peer address or by MAC; the queue of packets of unknown    *)
(* clients that are reported to the daemon.                                *)
(*                                                                         *)
(* Commands are serialised by genetlink.  Receiving and transmitting run   *)
(* beside them as RCU readers: a command that calls synchronize_rcu waits  *)
(* until those that run are over.  The routes that lead to a device are external:    *)
(* they exist while it is up and are gone before it is unregistered.       *)
(***************************************************************************)
EXTENDS Integers, Sequences, FiniteSets

CONSTANTS
    Devs,           \* session devices
    Addrs,          \* addresses of clients; NoIp is 0
    NoIp,
    Hws,            \* MAC addresses; NoHw is 0
    NoHw,
    QueueLen,       \* IPOE_QUEUE_LEN
    MaxPackets,     \* bound on the packets received
    KernelScenarios \* [devs, addrs, mode, gw, excl, nets]: what is used of each

VARIABLE kern

NoDev == [reg |-> FALSE, up |-> FALSE, peer |-> NoIp, gw |-> FALSE, link |-> FALSE, hw |-> NoHw,
          l1 |-> FALSE, l2 |-> FALSE, l3 |-> NoHw, refs |-> 0]
Idle == [op |-> "none", wait |-> {}]

\* Entries of ipoe_list1_u by age: fresh for IPOE_RATE_U, old after IPOE_TIMEOUT_U.
Ages == {"none", "fresh", "stale", "old"}
-----------------------------------------------------------------------------
(* Looking up.                                                             *)

hash_addr(k, a) == {s \in Devs : k.ses[s].l1 /\ k.ses[s].peer = a}

ipoe_lookup(k, a) == hash_addr(k, a)
ipoe_lookup_hwaddr(k, h) == {s \in Devs : k.ses[s].l3 # NoHw /\ k.ses[s].hw = h /\ k.ses[s].l3 = h}
ipoe_lookup_rt4(k, a) == {s \in Devs : k.ses[s].reg /\ k.ses[s].up /\ k.ses[s].peer = a}
ipoe_lookup_rt6(k, a) == ipoe_lookup_rt4(k, a)

ipoe_check_network(k, a) == k.nets = {} \/ a \in k.nets
ipoe_check_exclude(k, a) == a \in k.excl
-----------------------------------------------------------------------------
(* Packets of unknown clients.                                             *)

ipoe_lookup1_u(k, a) == k.u[a] = "fresh"
ipoe_lookup2_u(k, a) == k.u[a]

ipoe_start_queue_work(k) == [k EXCEPT !.work = TRUE]

ipoe_queue_u(k, a) ==
    IF ipoe_lookup1_u(k, a) \/ Len(k.queue) > QueueLen THEN k
    ELSE ipoe_start_queue_work([k EXCEPT !.queue = Append(@, a)])

\* One packet, or the end of the pass: old entries are freed, the report is
\* sent and the timer set for those that remain.
Dequeue(k, a) ==
    IF ipoe_lookup2_u(k, a) = "fresh" THEN [k EXCEPT !.queue = Tail(@)]
    ELSE [k EXCEPT !.queue = Tail(@), !.u[a] = "fresh", !.report = @ \cup {a}]

Cleaned(u) == [a \in Addrs |-> IF u[a] = "old" THEN "none" ELSE u[a]]

PassEnds(k, u) ==
    [k EXCEPT !.u = u, !.report = {}, !.work = FALSE, !.timer = \E a \in Addrs : u[a] # "none"]

ipoe_process_queue(k) ==
    IF k.queue # <<>> THEN Dequeue(k, Head(k.queue)) ELSE PassEnds(k, Cleaned(k.u))
-----------------------------------------------------------------------------
(* Receiving and transmitting.                                             *)

Hold(k, s, p) == [k EXCEPT !.ses[s].refs = @ + 1, !.rx = [at |-> "held", s |-> s, hw |-> p.hw]]

\* A packet is p: [v6, addr, hw]; addr is NoIp for a link-local source.
\* PASS leaves it to the stack.
ipoe_recv(k, p) ==
    LET found == IF p.v6 /\ p.addr = NoIp THEN ipoe_lookup_hwaddr(k, p.hw)
                 ELSE IF p.v6 THEN ipoe_lookup_rt6(k, p.addr) ELSE ipoe_lookup_rt4(k, p.addr)
    IN IF found # {} THEN {Hold(k, s, p) : s \in found}
       ELSE IF p.v6 \/ p.addr = NoIp \/ k.mode = 0 \/ ipoe_check_exclude(k, p.addr)
                    \/ ~ipoe_check_network(k, p.addr) THEN {k}
       ELSE {ipoe_queue_u(k, p.addr)}

\* Behind a gateway the client's MAC is learned from every packet.
RecvDone(k, s) ==
    [k EXCEPT !.ses[s].hw = IF k.ses[s].gw THEN k.rx.hw ELSE @,
              !.ses[s].refs = @ - 1, !.rx.at = "idle", !.cmd.wait = @ \ {"rx"}]

\* link_dev is read twice.
ipoe_xmit(k, s) == IF k.ses[s].peer = NoIp \/ ~k.ses[s].link THEN k
                   ELSE [k EXCEPT !.tx = [at |-> "send", s |-> s]]
XmitDone(k) ==
    [k EXCEPT !.tx.at = "idle", !.cmd.wait = @ \ {"tx"}, !.crash = @ \/ ~k.ses[k.tx.s].link]

Readers(k) == {p \in {"rx", "tx"} : (IF p = "rx" THEN k.rx.at ELSE k.tx.at) # "idle"}
-----------------------------------------------------------------------------
(* Commands, cut where they wait for the readers.                          *)

\* sync: the step ends with synchronize_rcu.
Begin(k, op, s, c, sync) ==
    [k EXCEPT !.cmd = [op |-> op, s |-> s, c |-> c, wait |-> IF sync THEN Readers(k) ELSE {}]]
Return(k) == [k EXCEPT !.cmd = Idle]

ipoe_create(k, s) == [k EXCEPT !.ses[s] = [NoDev EXCEPT !.reg = TRUE, !.l2 = TRUE]]
ipoe_nl_cmd_create(k, s) == ipoe_create(k, s)

\* list_del of an entry that is on no list crashes.
ipoe_nl_cmd_delete(k, s) ==
    Begin([k EXCEPT !.ses[s].l1 = FALSE, !.ses[s].l2 = FALSE, !.ses[s].l3 = NoHw,
                    !.crash = @ \/ (k.ses[s].hw # NoHw /\ k.ses[s].l3 = NoHw),
                    !.wlock = @ + 1], "unregister", s, Idle, TRUE)

\* unregister_netdev closes the device, its routes go, and it waits for those
\* that still use it.
DeleteWait(k, s) == Begin([k EXCEPT !.ses[s].up = FALSE], "free", s, Idle, TRUE)
Freed(k, s) == Return([k EXCEPT !.ses[s] = NoDev])

\* c: [peer, gw, hw]; peer = NoIp takes the session down and gives no MAC.
ipoe_nl_cmd_modify(k, s, c) ==
    IF c.peer # NoIp /\ \E o \in ipoe_lookup(k, c.peer) : o # s THEN k
    ELSE Begin([k EXCEPT !.ses[s].l1 = FALSE], "peer", s, c, k.ses[s].peer # NoIp)

ModifyLink(k, s, c) ==
    Begin([k EXCEPT !.ses[s].peer = c.peer, !.ses[s].l1 = c.peer # NoIp,
                    !.ses[s].up = c.peer # NoIp,
                    !.ses[s].hw = IF k.ses[s].link THEN NoHw ELSE @,
                    !.ses[s].l3 = NoHw, !.ses[s].link = c.peer # NoIp],
          "hw", s, c, k.ses[s].link)

ModifyHw(k, s, c) ==
    Return([k EXCEPT !.ses[s].gw = c.gw,
                     !.ses[s].hw = IF c.peer # NoIp THEN c.hw ELSE @,
                     !.ses[s].l3 = IF c.peer # NoIp THEN c.hw ELSE @])

Command(k) ==
    CASE k.cmd.op = "unregister" -> DeleteWait(k, k.cmd.s)
      [] k.cmd.op = "free" -> Freed(k, k.cmd.s)
      [] k.cmd.op = "peer" -> ModifyLink(k, k.cmd.s, k.cmd.c)
      [] k.cmd.op = "hw" -> ModifyHw(k, k.cmd.s, k.cmd.c)

ipoe_nl_cmd_add_exclude(k, a) == [k EXCEPT !.excl = @ \cup {a}]
ipoe_nl_cmd_del_exclude(k, a) == [k EXCEPT !.excl = @ \ {a}]
ipoe_nl_cmd_add_net(k, a) == [k EXCEPT !.nets = @ \cup {a}]
ipoe_nl_cmd_del_net(k, a) == [k EXCEPT !.nets = @ \ {a}]
ipoe_nl_cmd_add_interface(k, mode) == [k EXCEPT !.iface = TRUE, !.mode = mode]
ipoe_nl_cmd_del_interface(k) == [k EXCEPT !.iface = FALSE]
-----------------------------------------------------------------------------
(* The daemon: a session's device is created or taken from the cache, set  *)
(* up with the client's address, and reset or deleted at its end.          *)

ipoe_nl_create(k) == {ipoe_nl_cmd_create(k, s) : s \in {d \in k.sc.devs : ~k.ses[d].reg}}
ipoe_nl_modify(k, s, sc) ==
    IF k.ses[s].peer = NoIp
    THEN {ipoe_nl_cmd_modify(k, s, [peer |-> a, gw |-> sc.gw, hw |-> h]) : a \in sc.addrs, h \in Hws}
    ELSE {ipoe_nl_cmd_modify(k, s, [peer |-> NoIp, gw |-> FALSE, hw |-> NoHw])}
ipoe_nl_delete(k, s) == ipoe_nl_cmd_delete(k, s)

KernInit ==
    \E sc \in KernelScenarios :
      kern = [ses |-> [s \in Devs |-> NoDev], cmd |-> Idle, rx |-> [at |-> "idle"],
              tx |-> [at |-> "idle"], queue |-> <<>>, u |-> [a \in Addrs |-> "none"],
              work |-> FALSE, timer |-> FALSE, report |-> {}, excl |-> sc.excl, nets |-> sc.nets,
              mode |-> sc.mode, iface |-> FALSE, crash |-> FALSE, wlock |-> 1, left |-> MaxPackets,
              sc |-> sc]

KernCommands ==
    /\ kern.cmd = Idle
    /\ \/ kern' \in ipoe_nl_create(kern)
       \/ \E s \in Devs : kern.ses[s].reg /\ kern' \in ipoe_nl_modify(kern, s, kern.sc)
       \/ \E s \in Devs : kern.ses[s].reg /\ kern.wlock < 3 /\ kern' = ipoe_nl_delete(kern, s)
       \/ ~kern.iface /\ kern' = ipoe_nl_cmd_add_interface(kern, kern.sc.mode)
       \/ kern.iface /\ kern' = ipoe_nl_cmd_del_interface(kern)
       \/ \E a \in kern.sc.excl : \/ kern' = ipoe_nl_cmd_add_exclude(kern, a)
                                  \/ kern' = ipoe_nl_cmd_del_exclude(kern, a)
       \/ \E a \in kern.sc.nets : \/ kern' = ipoe_nl_cmd_add_net(kern, a)
                                  \/ kern' = ipoe_nl_cmd_del_net(kern, a)

\* synchronize_rcu, and the wait for refs = 0 of a delete.
KernContinue ==
    /\ kern.cmd # Idle /\ kern.cmd.wait = {}
    /\ kern.cmd.op = "unregister" => kern.ses[kern.cmd.s].refs = 0
    /\ kern' = Command(kern)

KernPackets ==
    \/ /\ kern.rx.at = "idle" /\ kern.iface /\ kern.left > 0
       /\ \E v6 \in BOOLEAN, a \in kern.sc.addrs \cup {NoIp}, h \in Hws :
            kern' \in ipoe_recv([kern EXCEPT !.left = @ - 1], [v6 |-> v6, addr |-> a, hw |-> h])
    \/ kern.rx.at = "held" /\ kern' = RecvDone(kern, kern.rx.s)
    \/ kern.tx.at = "idle" /\ \E s \in Devs : kern.ses[s].up /\ kern' = ipoe_xmit(kern, s)
    \/ kern.tx.at = "send" /\ kern' = XmitDone(kern)

KernWork ==
    \/ kern.work /\ kern' = ipoe_process_queue(kern)
    \/ kern.timer /\ kern' = ipoe_start_queue_work([kern EXCEPT !.timer = FALSE])
    \/ \E a \in Addrs : /\ kern.u[a] \in {"fresh", "stale"}
                        /\ kern' = [kern EXCEPT !.u[a] = IF @ = "fresh" THEN "stale" ELSE "old"]

KernNext == KernCommands \/ KernContinue \/ KernPackets \/ KernWork

KernSpec == KernInit /\ [][KernNext]_kern
-----------------------------------------------------------------------------
\* A session's references are the packets that hold it, and its device is not
\* unregistered under one of them.
DeviceRefsExact ==
    /\ \A s \in Devs : kern.ses[s].refs = Cardinality({p \in {kern.rx} : p.at = "held" /\ p.s = s})
    /\ kern.rx.at = "held" => kern.ses[kern.rx.s].reg
    /\ kern.tx.at = "send" => kern.ses[kern.tx.s].reg

\* No two sessions have one peer address, and between commands exactly those
\* that have one are in the address hash, those with a link in the MAC hash.
DevicesFound ==
    /\ \A s, t \in Devs :
         s # t /\ kern.ses[s].l1 /\ kern.ses[t].l1 => kern.ses[s].peer # kern.ses[t].peer
    /\ kern.cmd = Idle => \A s \in Devs : /\ kern.ses[s].l1 <=> kern.ses[s].peer # NoIp
                                          /\ kern.ses[s].l3 # NoHw <=> kern.ses[s].link

\* An entry of the rate limit of unknown clients will be looked at again.
UnknownExpire == (\E a \in Addrs : kern.u[a] # "none") => kern.timer \/ kern.work

\* Does not hold: behind a gateway a packet in flight writes the MAC back
\* after a modify cleared it, and the delete unlinks entry3 twice; a transmit
\* may read link_dev after a modify cleared it.
KernNoCrash == ~kern.crash

\* Does not hold: ipoe_nl_cmd_delete releases ipoe_wlock twice.
WlockIsMutex == kern.wlock = 1
=============================================================================
