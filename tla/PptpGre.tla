------------------------------ MODULE PptpGre ------------------------------
(***************************************************************************)
(* The data channel of PPTP (drivers/pptp/pptp.c): the table of call       *)
(* identifiers through which a GRE packet finds its socket, and the        *)
(* sequence and acknowledgement numbers of a call.                         *)
(*                                                                         *)
(* The peer numbers its packets from 1 and the network loses, delays,      *)
(* duplicates and reorders them; a number is carried modulo SeqMod (2^32   *)
(* in the code), and two numbers within Zone (256) of the ends count as    *)
(* wrapped.  A packet is looked up as an RCU reader and handled under its  *)
(* socket's lock.                                                          *)
(***************************************************************************)
EXTENDS Integers, FiniteSets

CONSTANTS
    Socks, NoSock,
    Peers,          \* address and call identifier of the other end
    NoPeer,
    MaxCallid,      \* MAX_CALLID
    SeqMod, Zone,
    GreScenarios    \* [socks, opens, sent, xmit, echo]: the sockets used, how often they are
                    \* opened, packets of the peer and of us, LCP echoes among them

VARIABLE gre

NewSock == [st |-> "none", id |-> 0, dst |-> NoPeer, want |-> NoPeer, refs |-> 1, seq_sent |-> 0, seq_recv |-> 0,
            ack_sent |-> 0, ack_recv |-> 0, queued |-> 0]
Absent == [NewSock EXCEPT !.st = "absent", !.refs = 0]

WRAPPED(cur, last) == cur < Zone /\ last >= SeqMod - Zone
-----------------------------------------------------------------------------
(* The table of calls.                                                     *)

\* The socket may have gone from the table a moment later; it is held.
lookup_chan(g, id, peer) ==
    LET s == g.table[id]
    IN IF s = NoSock \/ g.so[s].dst # peer THEN NoSock ELSE s

\* Identifier MAX_CALLID is not looked at.
lookup_chan_dst(g, peer) == \E i \in g.bitmap : i < MaxCallid /\ g.table[i] # NoSock /\ g.so[g.table[i]].dst = peer

find_next_zero_bit(bitmap, from) ==
    LET free == {i \in from..(MaxCallid - 1) : i \notin bitmap}
    IN IF free = {} THEN MaxCallid ELSE CHOOSE i \in free : \A j \in free : i <= j

Placed(g, s, id) ==
    [g EXCEPT !.so[s].id = id, !.call_id = id, !.table[id] = s, !.bitmap = @ \cup {id}]

\* The daemon asks for any identifier.
add_chan(g, s) ==
    LET id == find_next_zero_bit(g.bitmap, g.call_id + 1)
    IN Placed(g, s, IF id = MaxCallid THEN find_next_zero_bit(g.bitmap, 1) ELSE id)

\* synchronize_rcu ends it.
del_chan(g, s) ==
    [g EXCEPT !.bitmap = @ \ {g.so[s].id}, !.table[g.so[s].id] = NoSock, !.wait[s] = g.rx.at = "found"]
-----------------------------------------------------------------------------
(* Sockets.                                                                *)

pptp_create(g, s) == [g EXCEPT !.so[s] = NewSock]

pptp_bind(g, s) == add_chan([g EXCEPT !.so[s].st = "bound"], s)

\* Another socket with this peer is looked for before the lock is taken.
pptp_connect(g, s, peer) ==
    IF lookup_chan_dst(g, peer) THEN g ELSE [g EXCEPT !.so[s].want = peer]
Connected(g, s, ok) ==
    IF ok THEN [g EXCEPT !.so[s].dst = g.so[s].want, !.so[s].st = "connected", !.so[s].want = NoPeer]
    ELSE [g EXCEPT !.so[s].want = NoPeer]

Put(g, s) == IF g.so[s].refs = 1 THEN [g EXCEPT !.so[s] = Absent] ELSE [g EXCEPT !.so[s].refs = @ - 1]

\* The PPP channel goes when nobody reads the table any more.
pptp_release(g, s) == del_chan([g EXCEPT !.so[s].st = "closing"], s)
Unbound(g, s) == Put([g EXCEPT !.so[s].st = "dead"], s)
-----------------------------------------------------------------------------
(* Packets.                                                                *)

\* A packet carries the peer's last number received if that is news.
pptp_xmit(g, s) ==
    LET o == g.so[s]
    IN [g EXCEPT !.so[s].seq_sent = (@ + 1) % SeqMod, !.so[s].ack_sent = o.seq_recv]

\* p: [n, ack, echo]; 0 as ack: none.
AckOf(o, ack) ==
    LET up == IF ack > o.ack_recv THEN ack ELSE o.ack_recv
    IN IF WRAPPED(ack, up) THEN ack ELSE up

Old(o, seq) == seq < (o.seq_recv + 1) % SeqMod \/ WRAPPED(o.seq_recv, seq)

\* Handed to PPP; last is the newest packet that was.
Hand(g, s, p) ==
    [g EXCEPT !.last[s] = IF p.n > @ THEN p.n ELSE @,
              !.wrong = @ \/ (~p.echo /\ p.n <= g.last[s])]
Drop(g, s, p) == [g EXCEPT !.missed = @ \/ p.n > g.last[s]]

pptp_rcv_core(g, s, p) ==
    LET o == [g.so[s] EXCEPT !.ack_recv = IF p.ack = 0 THEN @ ELSE AckOf(g.so[s], p.ack % SeqMod)]
        seq == p.n % SeqMod
    IN IF o.st # "connected" THEN [g EXCEPT !.so[s].queued = 1]
       ELSE IF ~Old(o, seq) THEN Hand([g EXCEPT !.so[s] = [o EXCEPT !.seq_recv = seq]], s, p)
       ELSE IF p.echo THEN Hand([g EXCEPT !.so[s] = o], s, p)
       ELSE Drop([g EXCEPT !.so[s] = o], s, p)

\* The lookup and the hold, and then the handling under the socket's lock.
pptp_rcv(g, p, id, peer) ==
    LET s == lookup_chan(g, id, peer)
    IN IF s = NoSock THEN g
       ELSE [g EXCEPT !.so[s].refs = @ + 1, !.rx = [at |-> "found", s |-> s, p |-> p]]
Received(g, s, p) ==
    Put([pptp_rcv_core(g, s, p) EXCEPT !.rx = [at |-> "idle"], !.wait = [t \in Socks |-> FALSE]], s)
-----------------------------------------------------------------------------
GreInit ==
    \E sc \in GreScenarios :
      gre = [so |-> [s \in Socks |-> Absent], table |-> [i \in 0..MaxCallid |-> NoSock], bitmap |-> {},
             call_id |-> 0, wait |-> [s \in Socks |-> FALSE], rx |-> [at |-> "idle"],
             sent |-> [s \in Socks |-> 0], last |-> [s \in Socks |-> 0], wrong |-> FALSE,
             missed |-> FALSE, left |-> sc.opens, sc |-> sc]

Calls ==
    \E s \in gre.sc.socks :
      \/ /\ gre.so[s].st = "absent" /\ gre.left > 0
         /\ gre' = pptp_create([gre EXCEPT !.left = @ - 1, !.sent[s] = 0, !.last[s] = 0], s)
      \/ gre.so[s].st = "none" /\ gre' = pptp_bind(gre, s)
      \/ /\ gre.so[s].st = "bound" /\ gre.so[s].want = NoPeer
         /\ \E peer \in Peers : gre' = pptp_connect(gre, s, peer)
      \/ gre.so[s].want # NoPeer /\ \E ok \in BOOLEAN : gre' = Connected(gre, s, ok)
      \/ /\ gre.so[s].st \in {"none", "bound", "connected"} /\ gre.so[s].want = NoPeer
         /\ gre' = pptp_release(gre, s)
      \/ gre.so[s].st = "closing" /\ ~gre.wait[s] /\ gre' = Unbound(gre, s)
      \/ gre.so[s].st = "connected" /\ gre.so[s].seq_sent < gre.sc.xmit /\ gre' = pptp_xmit(gre, s)

\* Any packet the peer has sent or sends now: the ones before it may be lost or
\* still on their way.  sent is the newest that has arrived.
Packets ==
    \/ \E s \in gre.sc.socks :
         /\ gre.rx.at = "idle" /\ gre.so[s].st \in {"connected", "closing"} /\ gre.so[s].dst # NoPeer
         /\ \E n \in 1..gre.sc.sent, ack \in {0, gre.so[s].seq_sent}, echo \in {FALSE, gre.sc.echo} :
              gre' = pptp_rcv([gre EXCEPT !.sent[s] = IF n > @ THEN n ELSE @],
                              [n |-> n, ack |-> ack, echo |-> echo], gre.so[s].id, gre.so[s].dst)
    \/ gre.rx.at = "found" /\ gre' = Received(gre, gre.rx.s, gre.rx.p)

GreNext == Calls \/ Packets

GreSpec == GreInit /\ [][GreNext]_gre
-----------------------------------------------------------------------------
Wrapping == \E s \in Socks : gre.sent[s] >= SeqMod - Zone

\* Until the numbers come within Zone of the wrap, the packets of a call reach
\* PPP in the order in which the peer sent them and each at most once (LCP
\* echoes apart), and the newest packet is never taken for an old one.
GreInOrder == ~Wrapping => ~gre.wrong /\ ~gre.missed

\* A bound socket is found by its own identifier and by nobody else's, whatever
\* the order of binds and releases (MaxCallid, the mark of a full table, apart),
\* and a packet that was looked up keeps its socket.
GreCallsFound ==
    /\ \A s \in Socks, i \in 0..(MaxCallid - 1) :
         gre.table[i] = s <=> gre.so[s].st \in {"bound", "connected"} /\ gre.so[s].id = i
    /\ gre.rx.at = "found" => gre.so[gre.rx.s].st # "absent"

\* Does not hold: two sockets are given the identifier MAX_CALLID when no other
\* is free.
CallidsUnique ==
    \A s, t \in Socks : s # t /\ {gre.so[s].st, gre.so[t].st} \subseteq {"bound", "connected"}
                          => gre.so[s].id # gre.so[t].id

\* Does not hold: the peer is tested before the lock is taken.
OneCallPerPeer ==
    \A s, t \in Socks : s # t /\ gre.so[s].st = "connected" /\ gre.so[t].st = "connected"
                          => gre.so[s].dst # gre.so[t].dst

\* Does not hold: at the largest number every packet is accepted, and once it
\* is lost all packets are dropped until it comes round again.
OrderAcrossWrap == ~gre.wrong /\ ~gre.missed
=============================================================================
