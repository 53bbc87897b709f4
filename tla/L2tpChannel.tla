---------------------------- MODULE L2tpChannel ----------------------------
(***************************************************************************)
(* The reliable control channel of an L2TP tunnel (ctrl/l2tp/l2tp.c):      *)
(* sequence numbers compared modulo 2^16, the send, retransmission and     *)
(* receive queues, the peer's window, the retransmission timer and its     *)
(* limit.  Both ends of the tunnel run this code, over a network that      *)
(* loses, repeats and reorders datagrams.                                  *)
(***************************************************************************)
EXTENDS Integers, Sequences, FiniteSets

CONSTANTS Ends,          \* the two ends of the tunnel
          SeqSpace,      \* 2^16 in the code: Ns and Nr are taken modulo this
          Window,        \* recv_queue_sz, advertised as the peer's peer_rcv_wnd_sz
          MaxRetransmit, \* max_retransmit
          FirstNs,       \* Ns of a tunnel on which FirstNs messages were exchanged
          Lifetime,      \* how old, in messages sent since, a datagram may get
          MaxMsgs,       \* bound: messages each end takes for sending
          NetSize        \* bound: datagrams under way; one too many is lost

\* An end may send any number of messages.  What the sequence numbers need is
\* that no datagram survives while an end sends half the sequence space.
ASSUME ChannelAssumption ==
    /\ \E x, y \in Ends : x # y /\ Ends = {x, y}
    /\ SeqSpace \in Nat /\ SeqSpace % 2 = 0
    /\ Window \in Nat \ {0} /\ Lifetime \in Window..(SeqSpace \div 2 - 1)
    /\ MaxRetransmit \in Nat /\ NetSize \in Nat /\ FirstNs \in 0..(SeqSpace - 1)
    /\ \A e \in Ends : MaxMsgs[e] \in Nat

VARIABLES conn,          \* per end, struct l2tp_conn_t and what became of messages
          net            \* datagrams under way

chanVars == <<conn, net>>

Other(e) == CHOOSE p \in Ends : p # e

ZLB == 0
None == -1

Bodies(e) == 1..MaxMsgs[e]
Packets == [to : Ends, Ns : 0..(SeqSpace - 1), Nr : 0..(SeqSpace - 1), body : Nat, ns : Nat, nr : Nat]

-----------------------------------------------------------------------------
(* Sequence numbers. *)

Plus(n, k) == (n + k) % SeqSpace

\* How long a loop over the numbers from 0 to L - 1 goes on: to the first that
\* is not in S.
Run(L, S) == CHOOSE n \in 0..L : 0..(n - 1) \subseteq S /\ (n < L => n \notin S)

\* 1, 0 or -1 as ns is after, at or before nr in the circle of sequence numbers.
nsnr_cmp(ns, nr) ==
    LET sub_nsnr == (ns - nr) % SeqSpace
        ref == SeqSpace \div 2 + 1
    IN  IF sub_nsnr = 0 THEN 0 ELSE IF sub_nsnr < ref THEN 1 ELSE -1

-----------------------------------------------------------------------------
(* A connection c is changed by the operators below; c.out collects what    *)
(* __l2tp_tunnel_send hands to the socket during the handler.  taken, sent, *)
(* got and handed are history: how many messages were taken for sending,    *)
(* those that were sent, how many of the peer's were taken from the receive *)
(* queue, and those of them that were processed.  ns and nr of a message    *)
(* are its Ns and Nr before they are taken modulo SeqSpace.                 *)

l2tp_tunnel_alloc ==
    [state |-> "ESTB", Ns |-> FirstNs, Nr |-> FirstNs, peer_Nr |-> FirstNs,
     send_queue |-> <<>>, rtms_queue |-> <<>>, recv_queue |-> [i \in 0..(Window - 1) |-> None],
     recv_queue_offt |-> 0, retransmit |-> 0, rtimeout_timer |-> FALSE, need_ack |-> FALSE,
     out |-> {}, taken |-> 0, sent |-> <<>>, got |-> 0, handed |-> <<>>]

\* The packet carries the Nr of the moment it is sent.
__l2tp_tunnel_send(c, m) ==
    [c EXCEPT !.out = @ \cup {[Ns |-> m.Ns, Nr |-> c.Nr, body |-> m.body, ns |-> m.ns, nr |-> c.got]}]

l2tp_send_ZLB(c) == __l2tp_tunnel_send(c, [Ns |-> c.Ns, body |-> ZLB, ns |-> Len(c.sent)])

\* Only a tunnel that is not being closed queues a message.
l2tp_tunnel_send(c) ==
    IF c.state # "ESTB" THEN c
    ELSE [c EXCEPT !.send_queue = Append(@, c.taken + 1), !.taken = @ + 1]

l2tp_tunnel_clear_sendqueue(c) == [c EXCEPT !.send_queue = <<>>]

\* The positions of a queue of n messages that are left when some are taken out.
Selections(n) ==
    {p \in UNION {[1..k -> 1..n] : k \in 0..n} :
        \A i, j \in DOMAIN p : i < j => p[i] < p[j]}

Kept(q, p) == [i \in DOMAIN p |-> q[p[i]]]

\* A session takes its unsent messages out of the queue, wherever they are in it.
l2tp_session_clear_sendqueue(c, p) == [c EXCEPT !.send_queue = Kept(@, p)]

\* StopCCN takes the place of everything that was not sent yet.
l2tp_tunnel_disconnect(c) ==
    [l2tp_tunnel_send(l2tp_tunnel_clear_sendqueue(c)) EXCEPT !.state = "FIN"]

\* The peer sent StopCCN.
l2tp_tunnel_finwait(c) == [l2tp_tunnel_clear_sendqueue(c) EXCEPT !.state = "FIN_WAIT"]

l2tp_tunnel_free(c) ==
    [c EXCEPT !.state = "CLOSE", !.send_queue = <<>>, !.rtms_queue = <<>>,
              !.recv_queue = [i \in DOMAIN @ |-> None], !.rtimeout_timer = FALSE]

\* Mutant: one message more than the window.
Sendable_OneMore(c) ==
    LET Nr_max == Plus(c.peer_Nr, Window)
        queued == 0..(Len(c.send_queue) - 1)
    IN  Run(Len(c.send_queue), {k \in queued : nsnr_cmp(Plus(c.Ns, k), Nr_max) <= 0})

\* How many of the queued messages fit in the peer's window.
Sendable(c) ==
    LET Nr_max == Plus(c.peer_Nr, Window)
        queued == 0..(Len(c.send_queue) - 1)
    IN  Run(Len(c.send_queue), {k \in queued : nsnr_cmp(Plus(c.Ns, k), Nr_max) < 0})

\* Send what the window allows, keep it for retransmission, start the timer.
l2tp_tunnel_push_sendqueue(c) ==
    LET n == Sendable(c)
        new == [k \in 1..n |-> [Ns |-> Plus(c.Ns, k - 1), body |-> c.send_queue[k],
                                ns |-> Len(c.sent) + k - 1]]
    IN  [c EXCEPT !.out = @ \cup {[Ns |-> new[k].Ns, Nr |-> c.Nr, body |-> new[k].body,
                                   ns |-> new[k].ns, nr |-> c.got] : k \in 1..n},
                  !.rtms_queue = @ \o new,
                  !.send_queue = SubSeq(@, n + 1, Len(@)),
                  !.Ns = Plus(@, n),
                  !.rtimeout_timer = @ \/ n > 0,
                  !.sent = @ \o SubSeq(c.send_queue, 1, n)]

\* Mutant: any acknowledgement stops the timer.
l2tp_tunnel_clean_rtmsqueue_Stops(c) ==
    LET left == SelectSeq(c.rtms_queue, LAMBDA m : nsnr_cmp(m.Ns, c.peer_Nr) >= 0)
    IN  IF left = c.rtms_queue THEN c
        ELSE [c EXCEPT !.rtms_queue = left, !.retransmit = 0, !.rtimeout_timer = FALSE]

\* Forget what the peer has acknowledged; progress restarts the count of
\* retransmissions, and an empty queue stops the timer.
l2tp_tunnel_clean_rtmsqueue(c) ==
    LET q == c.rtms_queue
        freed == Run(Len(q), {k \in 0..(Len(q) - 1) : nsnr_cmp(q[k + 1].Ns, c.peer_Nr) < 0})
        left == SubSeq(q, freed + 1, Len(q))
    IN  IF freed = 0 THEN c
        ELSE [c EXCEPT !.rtms_queue = left, !.retransmit = 0, !.rtimeout_timer = left # <<>>]

\* An Nr from the future or a ZLB stores nothing; a repeated or out-of-window
\* message is acknowledged and dropped.
l2tp_tunnel_store_msg(c, p) ==
    LET c1 == [c EXCEPT !.peer_Nr = IF nsnr_cmp(p.Nr, @) > 0 THEN p.Nr ELSE @]
        c2 == [c1 EXCEPT !.need_ack = TRUE]
        indx == (p.Ns - c.Nr) % SeqSpace
        slot == (indx + c.recv_queue_offt) % Window
    IN  CASE nsnr_cmp(c.Ns, p.Nr) < 0 -> c
          [] nsnr_cmp(c.Ns, p.Nr) >= 0 /\ p.body = ZLB -> c1
          [] OTHER -> IF \/ nsnr_cmp(p.Ns, c.Nr) < 0
                         \/ indx >= Window
                         \/ c.recv_queue[slot] # None
                      THEN c2
                      ELSE [c2 EXCEPT !.recv_queue[slot] = p.body]

\* Mutant: a gap does not hold back what follows it.
InSequence_Gaps(c) ==
    SelectSeq([k \in 1..Window |-> c.recv_queue[(c.recv_queue_offt + k - 1) % Window]],
              LAMBDA m : m # None)

\* The messages that are next in sequence, in the order they are processed.
InSequence(c) ==
    LET At(k) == c.recv_queue[(c.recv_queue_offt + k) % Window]
        n == Run(Window, {k \in 0..(Window - 1) : At(k) # None})
    IN  [k \in 1..n |-> At(k - 1)]

\* Take n of them out of the receive queue.  They are processed, unless the
\* tunnel is being closed: then they are only acknowledged.
Dequeued(c, n) ==
    [c EXCEPT !.recv_queue = [i \in DOMAIN @ |->
                                 IF (i - c.recv_queue_offt) % Window < n THEN None ELSE @[i]],
              !.recv_queue_offt = (@ + n) % Window,
              !.Nr = Plus(@, n),
              !.got = @ + n,
              !.handed = IF c.state = "ESTB" THEN @ \o SubSeq(InSequence(c), 1, n) ELSE @]

\* What a handler of an established tunnel does to the queue (hello timer, call,
\* reply): a message is queued, a call that ends withdraws its unsent messages
\* and queues CDN, or nothing if the peer ended it, or the tunnel is disconnected.
Handled(e, c) ==
    LET Left == {l2tp_session_clear_sendqueue(c, p) : p \in Selections(Len(c.send_queue))}
    IN  Left \cup IF c.taken < MaxMsgs[e]
                  THEN {l2tp_tunnel_send(d) : d \in Left} \cup {l2tp_tunnel_disconnect(c)}
                  ELSE {}

\* The h-th message made the tunnel close: the peer sent StopCCN, or the tunnel
\* is disconnected, at once or when all are processed, or freed.
Closed(e, c) ==
    {l2tp_tunnel_finwait(c), l2tp_tunnel_free(c)}
        \cup IF c.taken < MaxMsgs[e]
             THEN {l2tp_tunnel_disconnect(c), l2tp_tunnel_push_sendqueue(l2tp_tunnel_disconnect(c))}
             ELSE {}

\* Process the messages that are next; a freed tunnel stops, one that is being
\* closed takes the rest out unprocessed.
Processed(e, c) ==
    LET n == Len(InSequence(c))
        Rest(d, h) == IF d.state = "CLOSE" THEN d ELSE Dequeued(d, n - h)
    IN  IF n = 0 \/ c.state # "ESTB" THEN {Dequeued(c, n)}
        ELSE Handled(e, Dequeued(c, n))
                \cup UNION {{Rest(d, h) : d \in Closed(e, Dequeued(c, h))} : h \in 1..n}

\* Then answer: queued messages carry the acknowledgement, a ZLB only when
\* nothing was sent.
Answered(c) ==
    LET d == l2tp_tunnel_push_sendqueue(c)
    IN  IF d.Ns = c.Ns /\ c.need_ack THEN l2tp_send_ZLB(d) ELSE d

l2tp_tunnel_reply(e, c) == {Answered(d) : d \in Processed(e, c)}

-----------------------------------------------------------------------------
(* The handlers of the tunnel's context. *)

\* A datagram does not get so old that its numbers come round again.
Young(p, k) ==
    /\ Len(k[Other(p.to)].sent) - p.ns <= Lifetime
    /\ Len(k[p.to].sent) - p.nr <= Lifetime

\* Put c back; its output goes to the network, or is lost when that is full.
Put(e, c) ==
    LET after == [conn EXCEPT ![e] = [c EXCEPT !.out = {}, !.need_ack = FALSE]]
        young == {p \in net : Young(p, after)}
        all == young \cup {[to |-> Other(e), Ns |-> p.Ns, Nr |-> p.Nr, body |-> p.body,
                            ns |-> p.ns, nr |-> p.nr] : p \in c.out}
    IN  /\ conn' = after
        /\ net' = IF Cardinality(all) <= NetSize THEN all ELSE young

\* A handler of the tunnel that ends by sending what is queued.
Handler(e) ==
    /\ conn[e].state = "ESTB"
    /\ \E c \in Handled(e, conn[e]) : Put(e, l2tp_tunnel_push_sendqueue(c))

\* One read: the datagrams at hand are stored (here two, or one, for storing it
\* twice changes nothing), then acknowledged messages are forgotten, then those
\* in sequence are processed and answered.  The acknowledgement of StopCCN ends
\* the tunnel.
l2tp_conn_read(e) ==
    /\ conn[e].state # "CLOSE"
    /\ \E p, q \in {m \in net : m.to = e} :
          LET c1 == l2tp_tunnel_store_msg(l2tp_tunnel_store_msg(conn[e], p), q)
              c2 == l2tp_tunnel_clean_rtmsqueue(c1)
          IN  \E d \in l2tp_tunnel_reply(e, c2) :
                 Put(e, IF d.state = "FIN" /\ d.send_queue = <<>> /\ d.rtms_queue = <<>>
                        THEN l2tp_tunnel_free(d) ELSE d)

\* The socket reported ECONNREFUSED, or a send failed.
l2tp_conn_error(e) ==
    /\ conn[e].state # "CLOSE"
    /\ Put(e, l2tp_tunnel_free(conn[e]))

\* Only the oldest unacknowledged message is sent again.
l2tp_rtimeout(e) ==
    LET c == [conn[e] EXCEPT !.retransmit = @ + 1]
    IN  /\ conn[e].rtimeout_timer
        /\ IF conn[e].rtms_queue = <<>> THEN UNCHANGED chanVars
           ELSE Put(e, IF c.retransmit > MaxRetransmit THEN l2tp_tunnel_free(conn[e])
                       ELSE __l2tp_tunnel_send(c, Head(c.rtms_queue)))

\* The tunnel was kept for a full retransmission cycle of the peer.
l2tp_tunnel_finwait_timeout(e) ==
    /\ conn[e].state = "FIN_WAIT"
    /\ Put(e, l2tp_tunnel_free(conn[e]))

\* A datagram is lost; one that is not may be received any number of times.
Lose(p) ==
    /\ net' = net \ {p}
    /\ UNCHANGED conn

ChanInit ==
    /\ conn = [e \in Ends |-> l2tp_tunnel_alloc]
    /\ net = {}

ChanNext ==
    \/ \E e \in Ends : \/ Handler(e) \/ l2tp_conn_read(e) \/ l2tp_conn_error(e)
                       \/ l2tp_rtimeout(e) \/ l2tp_tunnel_finwait_timeout(e)
    \/ \E p \in net : Lose(p)

\* A timer that runs expires; nothing obliges the network.
ChanFairness ==
    \A e \in Ends : WF_chanVars(l2tp_rtimeout(e)) /\ WF_chanVars(l2tp_tunnel_finwait_timeout(e))

ChanSpec == ChanInit /\ [][ChanNext]_chanVars /\ ChanFairness

-----------------------------------------------------------------------------
(* Properties. *)

ChanTypeOK ==
    /\ \A e \in Ends :
          /\ conn[e].state \in {"ESTB", "FIN", "FIN_WAIT", "CLOSE"}
          /\ {conn[e].Ns, conn[e].Nr, conn[e].peer_Nr} \subseteq 0..(SeqSpace - 1)
          /\ conn[e].recv_queue \in [0..(Window - 1) -> Bodies(Other(e)) \cup {None}]
          /\ conn[e].retransmit \in 0..MaxRetransmit
    /\ net \subseteq Packets

\* The messages an end has taken for sending and not withdrawn.
Accepted(e) == conn[e].sent \o conn[e].send_queue

\* The channel implements the FIFO: whatever the network does to datagrams, the
\* messages an end processes are the peer's, in order and once each, but for the
\* ones the peer withdraws, none of which was processed.
Fifo == INSTANCE L2tpFifo WITH accepted <- [e \in Ends |-> Accepted(e)],
                               handed <- [e \in Ends |-> conn[e].handed],
                               open <- [e \in Ends |-> conn[e].state = "ESTB"],
                               Messages <- UNION {Bodies(e) : e \in Ends}
ChannelIsFifo == Fifo!FifoInit /\ [][Fifo!FifoNext]_Fifo!fifoVars

\* Unacknowledged messages never outnumber the peer's receive window, so no
\* message is dropped by the receiver for want of room, and the retransmission
\* timer runs exactly while there are some.
WindowRespected ==
    \A e \in Ends :
        /\ Len(conn[e].rtms_queue) <= Window
        /\ conn[e].rtimeout_timer <=> conn[e].rtms_queue # <<>>
        /\ conn[e].send_queue # <<>> => Len(conn[e].rtms_queue) = Window

Has(s, m) == \E i \in DOMAIN s : s[i] = m

\* Every message taken for sending is processed by the peer, unless it is
\* withdrawn before it is sent, the peer is closing, or the end gives up.
AcceptedIsHanded ==
    \A e \in Ends : \A m \in Bodies(e) :
        Has(Accepted(e), m) ~> \/ Has(conn[Other(e)].handed, m)
                               \/ ~Has(Accepted(e), m)
                               \/ conn[Other(e)].state # "ESTB"
                               \/ conn[e].state = "CLOSE"
=============================================================================
