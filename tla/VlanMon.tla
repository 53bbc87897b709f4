------------------------------ MODULE VlanMon ------------------------------
(***************************************************************************)
(* VLANs made on demand: the kernel module (drivers/vlan_mon/vlan_mon.c)   *)
(* reports the first frame of a VLAN of an interface, the daemon           *)
(* (vlan-mon/vlan_mon.c and the load_vlan_mon and notify functions of      *)
(* PPPoE and IPoE) makes the VLAN device and a server for it, and at the   *)
(* server's end has the kernel report the VLAN again.                      *)
(*                                                                         *)
(* The kernel keeps for the interface one busy bit per VLAN and one mask   *)
(* per protocol; a VLAN is reported while neither is set.  Frames are      *)
(* handled by several CPUs beside the netlink commands, which genetlink    *)
(* serialises; a daemon step that ends in a command runs when none is      *)
(* under way.  The daemon's contexts run beside each other.                *)
(***************************************************************************)
EXTENDS Integers, Sequences, FiniteSets

CONSTANTS
    Protos,         \* of {"ip", "pppoe"}
    Vids,           \* VLANs of the interface
    Cpus,
    MaxIndex,       \* bound on interface indices
    VlanScenarios   \* what happens, [cpus, ranges, conf, seen, frames, reloads, faults, plain,
                    \* timeout]: the configuration, the frames (kind and VLAN) and how many,
                    \* faults, servers by name, whether vlan-timeout is not 0

VARIABLE vmon

NoVlanDev == [on |-> FALSE, proto |-> {}, mask |-> [p \in Protos |-> {}], busy |-> {}]
NoRx == [at |-> "idle"]
NoServer == [at |-> "none", index |-> 0]

\* ARP is reported as itself and counts as IP when it is received.
ProtoOf(kind) == IF kind = "arp" THEN "ip" ELSE kind

\* vlan_mon_proto knows no ARP.
vlan_mon_proto(kind) == IF kind = "arp" THEN "ENOSYS" ELSE kind
-----------------------------------------------------------------------------
(* The kernel: frames.                                                     *)

\* The bits are tested without the lock ...
vlan_pt_recv(v, c, n) ==
    IF /\ v.d.on /\ ProtoOf(n.kind) \in v.d.proto
       /\ n.vid \notin v.d.busy /\ n.vid \notin v.d.mask[ProtoOf(n.kind)]
    THEN [v EXCEPT !.rx[c] = [at |-> "claim", vid |-> n.vid, kind |-> n.kind, vif |-> 0]] ELSE v

\* ... and set under it, in the device that was found: a command may have
\* detached it since.
Claim(v, c, n) ==
    [v EXCEPT !.rx[c].at = "queue", !.rx[c].vif = v.ifc[n.vid],
              !.d = IF v.d.on
                    THEN [@ EXCEPT !.busy = @ \cup {n.vid}, !.mask[ProtoOf(n.kind)] = @ \cup {n.vid}]
                    ELSE @]

Released(v, c) == [v EXCEPT !.rx[c] = NoRx, !.cmd.wait = @ \ {c}]

\* Without memory the frame is forgotten and the VLAN stays busy.
Enqueue(v, c, n, ok) ==
    IF ok THEN Released([v EXCEPT !.queue = Append(@, [vid |-> n.vid, kind |-> n.kind, vif |-> n.vif])], c)
    ELSE Released([v EXCEPT !.lost = @ \cup {n.vid}], c)

\* One notification goes into the report; a report that cannot be built or
\* delivered (ENOBUFS) is gone.
vlan_do_notify(v, ok) ==
    IF ok THEN [v EXCEPT !.queue = Tail(@), !.sock = Append(@, Head(v.queue))]
    ELSE [v EXCEPT !.queue = Tail(@), !.lost = @ \cup {Head(v.queue).vid}]
-----------------------------------------------------------------------------
(* The kernel: commands.                                                   *)

vlan_mon_nl_cmd_add_vlan_mon(v, p, mask) ==
    IF v.d.on /\ p \in v.d.proto THEN v
    ELSE [v EXCEPT !.d = [IF v.d.on THEN @ ELSE [NoVlanDev EXCEPT !.on = TRUE]
                             EXCEPT !.proto = @ \cup {p}, !.mask[p] = mask]]

vlan_mon_nl_cmd_add_vlan_mon_vid(v, p, vid) ==
    IF ~v.d.on THEN v ELSE [v EXCEPT !.d.mask[p] = @ \ {vid}, !.d.busy = @ \ {vid}]

vlan_mon_nl_cmd_del_vlan_mon_vid(v, p, vid) ==
    IF ~v.d.on THEN v ELSE [v EXCEPT !.d.mask[p] = @ \cup {vid}, !.d.busy = @ \ {vid}]

vlan_mon_nl_cmd_del_vlan_mon(v, p) ==
    [v EXCEPT !.d = IF ~v.d.on \/ p \notin v.d.proto THEN @
                    ELSE IF v.d.proto = {p} THEN NoVlanDev ELSE [@ EXCEPT !.proto = @ \ {p}],
              !.cmd = [op |-> "purge", proto |-> p, wait |-> {c \in Cpus : v.rx[c].at # "idle"}]]

\* The busy bits of what is purged stay set if the device does.
Purge(v, p) ==
    LET gone(n) == vlan_mon_proto(n.kind) = p
    IN [v EXCEPT !.queue = SelectSeq(@, LAMBDA n : ~gone(n)),
                 !.lost = @ \cup {v.queue[i].vid : i \in {j \in DOMAIN v.queue : gone(v.queue[j])}},
                 !.cmd = [op |-> "none", proto |-> p, wait |-> {}]]

vlan_mon_nl_cmd_check_busy(v, vid) == v.d.on /\ vid \in v.d.busy
-----------------------------------------------------------------------------
(* The daemon.  A server is "none", "plain" (configured by name) or "mon"  *)
(* (its VLAN is monitored); closing are the servers that are unlinked while *)
(* their VLAN is not yet gone.                                             *)

vlan_mon_add(v, p, mask) == vlan_mon_nl_cmd_add_vlan_mon(v, p, mask)
vlan_mon_add_vid(v, p, vid) == vlan_mon_nl_cmd_add_vlan_mon_vid(v, p, vid)
vlan_mon_del_vid(v, p, vid) == vlan_mon_nl_cmd_del_vlan_mon_vid(v, p, vid)
vlan_mon_del(v, p) == vlan_mon_nl_cmd_del_vlan_mon(v, p)
vlan_mon_check_busy(v, vid) == vlan_mon_nl_cmd_check_busy(v, vid)

\* The configured ranges <<first, last>> clear the bits of what is monitored.
parse_vlan_mon(ranges) ==
    IF ranges = {} THEN {}
    ELSE Vids \ UNION {IF r[1] < r[2] THEN r[1]..r[2] ELSE {r[1]} : r \in ranges}

Served(v, p, vid) == v.serv[p][vid].at # "none"

\* The mask the servers there are leave; they become monitored.
add_vlan_mon(v, p, mask) ==
    LET here == {vid \in Vids \ mask : Served(v, p, vid)}
    IN [v EXCEPT !.load[p] = [at |-> "add", mask |-> mask \cup here],
                 !.serv[p] = [vid \in Vids |-> IF vid \in here THEN [@[vid] EXCEPT !.at = "mon"] ELSE @[vid]]]

\* The command that ends it: a server that went meanwhile is still masked.
AddMask(v, p, mask) ==
    [vlan_mon_add(v, p, mask) EXCEPT
        !.load[p] = [at |-> "idle", mask |-> {}],
        !.lost = @ \cup {vid \in mask \ parse_vlan_mon(v.sc.ranges) : ~Served(v, p, vid)}]

load_vlan_mon(v, p) ==
    [vlan_mon_del(v, p) EXCEPT !.load[p] = [at |-> "deleted", mask |-> {}], !.reloads = @ - 1]

iplink_vlan_add(v, vid) == [v EXCEPT !.ifc[vid] = v.next, !.next = @ + 1]
iplink_vlan_del(v, index) ==
    [v EXCEPT !.ifc = [vid \in Vids |-> IF @[vid] = index THEN 0 ELSE @[vid]]]

Forgotten(v, vid) == [v EXCEPT !.lost = @ \cup {vid}]

\* The VLAN has device index; a server is started if one is configured for it,
\* otherwise the device is removed again.  A start that fails (parse_server, the
\* secret, the interface's flags, address or MTU, a socket) leaves the device.
StartOrDrop(v, p, vid, index, started) ==
    IF vid \notin v.sc.conf[p]
    THEN vlan_mon_del_vid(iplink_vlan_del([v EXCEPT !.refused = @ \cup {<<p, vid>>}], index), p, vid)
    ELSE IF Served(v, p, vid) \/ ~started THEN Forgotten(v, vid)
    ELSE [v EXCEPT !.serv[p][vid] = [at |-> "mon", index |-> index]]

\* pppoe_vlan_mon_notify and ipoe_vlan_mon_notify.  fault: "name" of the parent
\* cannot be had or made, the device cannot be renamed ("rename"), its "index"
\* not be read, the server's "start" fails.
vlan_mon_notify(v, p, n, fault) ==
    IF fault = "name" THEN Forgotten(v, n.vid)
    ELSE IF n.vif # 0 /\ Served(v, p, n.vid) /\ v.serv[p][n.vid].index = n.vif
    THEN [v EXCEPT !.serv[p][n.vid].at = "mon"]
    ELSE IF n.vif # 0 /\ v.ifc[n.vid] = n.vif /\ fault \notin {"rename", "index"}
    THEN StartOrDrop(v, p, n.vid, n.vif, fault = "none")
    ELSE IF n.vif # 0 \/ v.ifc[n.vid] # 0 THEN Forgotten(v, n.vid)
    ELSE IF fault = "index" THEN Forgotten(iplink_vlan_add(v, n.vid), n.vid)
    ELSE StartOrDrop(iplink_vlan_add(v, n.vid), p, n.vid, v.next, fault # "start")

vlan_mon_handler(v, fault) ==
    vlan_mon_notify([v EXCEPT !.sock = Tail(@)], ProtoOf(Head(v.sock).kind), Head(v.sock), fault)

\* A socket overrun (ENOBUFS) drops what was sent.
vlan_mon_mc_read(v, fault) ==
    IF fault # "overrun" THEN vlan_mon_handler(v, fault)
    ELSE [v EXCEPT !.sock = <<>>, !.lost = @ \cup {v.sock[i].vid : i \in DOMAIN v.sock}]

\* A server by name on a VLAN made by hand.
ServerStart(v, p, vid) ==
    IF vlan_mon_check_busy(v, vid) THEN v
    ELSE LET index == IF v.ifc[vid] = 0 THEN v.next ELSE v.ifc[vid]
         IN [v EXCEPT !.serv[p][vid] = [at |-> "plain", index |-> index], !.ifc[vid] = index,
                      !.next = IF index = @ THEN @ + 1 ELSE @]

\* pppoe_server_free and ipoe_serv_release, when the VLAN has been idle or the
\* server is stopped.
ServerUnlink(v, p, vid) ==
    [v EXCEPT !.serv[p][vid] = NoServer, !.closing = @ \cup {<<p, vid, v.serv[p][vid].index>>}]

\* Mutant: a server that ends does not ask for new reports of its VLAN.
ServerFreeSilent(v, t) == [iplink_vlan_del(v, t[3]) EXCEPT !.closing = @ \ {t}]

\* Without a vlan-timeout the device stays and the VLAN is not reported again.
ServerFree(v, t) ==
    LET w == [v EXCEPT !.closing = @ \ {t}]
    IN IF v.sc.timeout THEN vlan_mon_add_vid(iplink_vlan_del(w, t[3]), t[1], t[2]) ELSE Forgotten(w, t[2])
-----------------------------------------------------------------------------
VmonInit ==
    \E sc \in VlanScenarios :
      vmon = [d |-> NoVlanDev, rx |-> [c \in Cpus |-> NoRx], queue |-> <<>>, sock |-> <<>>,
              cmd |-> [op |-> "none", proto |-> "ip", wait |-> {}],
              load |-> [p \in Protos |-> [at |-> "deleted", mask |-> {}]],
              serv |-> [p \in Protos |-> [vid \in Vids |-> NoServer]], closing |-> {},
              ifc |-> [vid \in Vids |-> 0], next |-> 1, lost |-> {}, refused |-> {},
              left |-> sc.frames, reloads |-> sc.reloads, sc |-> sc]

Frames ==
    \E c \in vmon.sc.cpus :
      \/ /\ vmon.rx[c].at = "idle" /\ vmon.left > 0
         /\ \E n \in vmon.sc.seen : vmon' = vlan_pt_recv([vmon EXCEPT !.left = @ - 1], c, n)
      \/ vmon.rx[c].at = "claim" /\ vmon' = Claim(vmon, c, vmon.rx[c])
      \/ /\ vmon.rx[c].at = "queue"
         /\ \E ok \in {TRUE, ~vmon.sc.faults} : vmon' = Enqueue(vmon, c, vmon.rx[c], ok)

Faults == {"overrun", "name", "rename", "index", "start"}

Reports ==
    \/ /\ vmon.queue # <<>>
       /\ \E ok \in {TRUE, ~vmon.sc.faults} : vmon' = vlan_do_notify(vmon, ok)
    \/ /\ vmon.sock # <<>> /\ vmon.cmd.op = "none" /\ vmon.next <= MaxIndex
       /\ \E fault \in {"none"} \cup (IF vmon.sc.faults THEN Faults ELSE {}) : vmon' = vlan_mon_mc_read(vmon, fault)

\* load_vlan_mon of PPPoE and of IPoE, one protocol after the other.
Config ==
    \E p \in Protos :
      \/ /\ vmon.cmd.op = "none" /\ vmon.reloads > 0 /\ \A q \in Protos : vmon.load[q].at = "idle"
         /\ vmon' = load_vlan_mon(vmon, p)
      \/ /\ vmon.load[p].at = "deleted" /\ vmon.cmd.op = "none"
         /\ vmon' = add_vlan_mon(vmon, p, parse_vlan_mon(vmon.sc.ranges))
      \/ /\ vmon.load[p].at = "add" /\ vmon.cmd.op = "none"
         /\ vmon' = AddMask(vmon, p, vmon.load[p].mask)

CmdEnds == vmon.cmd.op = "purge" /\ vmon.cmd.wait = {} /\ vmon' = Purge(vmon, vmon.cmd.proto)

Servers ==
    \/ \E t \in vmon.closing : vmon.cmd.op = "none" /\ vmon' = ServerFree(vmon, t)
    \/ \E p \in Protos, vid \in Vids :
         \/ vmon.serv[p][vid].at = "mon" /\ vmon' = ServerUnlink(vmon, p, vid)
         \/ /\ <<p, vid>> \in vmon.sc.plain /\ vmon.cmd.op = "none"
            /\ ~Served(vmon, p, vid) /\ vmon.next <= MaxIndex
            /\ vmon' = ServerStart(vmon, p, vid)

VmonNext == Frames \/ Reports \/ Config \/ CmdEnds \/ Servers

VmonSpec == VmonInit /\ [][VmonNext]_vmon
-----------------------------------------------------------------------------
InFlight(vid) ==
    \/ \E c \in Cpus : vmon.rx[c].at = "queue" /\ vmon.rx[c].vid = vid
    \/ \E i \in DOMAIN vmon.queue : vmon.queue[i].vid = vid
    \/ \E i \in DOMAIN vmon.sock : vmon.sock[i].vid = vid

Handled(p, vid) ==
    Served(vmon, p, vid) \/ \E t \in vmon.closing : t[1] = p /\ t[2] = vid

\* A VLAN is silenced only while a report of it is on its way, a server exists
\* for it, or it was refused for the protocol; unless it was forgotten: a report
\* of it was lost, no server could be started for it, or its server was stopped
\* with vlan-timeout 0 (vlan_pt_recv, pppoe_server_free, ipoe_serv_release).
SilentIsServed ==
    \A vid \in Vids \ vmon.lost :
      /\ vid \in vmon.d.busy => InFlight(vid) \/ \E p \in Protos : Handled(p, vid)
      /\ \A p \in vmon.d.proto :
           vid \in vmon.d.mask[p] \ parse_vlan_mon(vmon.sc.ranges)
             => InFlight(vid) \/ Handled(p, vid) \/ <<p, vid>> \in vmon.refused

\* No report of a protocol is left once its monitoring was switched off (ARP
\* reports are: they match no protocol).
OffIsQuiet ==
    \A p \in Protos \ vmon.d.proto :
      vmon.cmd.op = "none" => \A i \in DOMAIN vmon.queue : vmon.queue[i].kind # p

\* Does not hold: a frame of a protocol that is not configured for the VLAN of
\* another protocol's server has the VLAN device removed.
ServerHasDevice ==
    \A p \in Protos, vid \in Vids :
      Served(vmon, p, vid) => vmon.ifc[vid] = vmon.serv[p][vid].index

\* Does not hold: reports are lost without memory, by a socket overrun, by the
\* purge of a reload, when the device exists already, by a reload beside a
\* server's end, and when a device cannot be made or a server not be started, and
\* with vlan-timeout 0 a server's end is not told; the VLAN is never reported again.
NothingForgotten == vmon.lost = {}
=============================================================================
