----------------------------- MODULE L2tpProofs -----------------------------
(***************************************************************************)
(* The control channel of an L2TP tunnel is a FIFO with withdrawal and     *)
(* respects the peer's window, for every window, first sequence number,    *)
(* limit of retransmissions, network and number of messages.               *)
(*                                                                         *)
(* The argument is that the i-th message an end sends carries the sequence *)
(* number FirstNs + i - 1 wherever it is: awaiting acknowledgement, on the *)
(* wire, or in the receive ring.  An end is never more than a window ahead *)
(* of what its peer has taken, and no datagram is older than Lifetime, so  *)
(* two numbers that meet are less than half the sequence space apart and   *)
(* an old datagram is never taken for a new one.                           *)
(***************************************************************************)
EXTENDS L2tpChannel, WellFoundedInduction, SequenceTheorems, TLAPS

-----------------------------------------------------------------------------
(* Arithmetic of the circle of sequence numbers and of the receive ring.   *)

LEMMA ModUp ==
    ASSUME NEW M \in Nat \ {0}, NEW z \in Int, 0 <= z, z < M + M, NEW y, y = z % M
    PROVE  y \in 0..(M - 1) /\ y = IF z < M THEN z ELSE z - M
OBVIOUS

LEMMA ModDown ==
    ASSUME NEW M \in Nat \ {0}, NEW z \in Int, -M <= z, z < M
    PROVE  z % M = IF z >= 0 THEN z ELSE z + M
OBVIOUS

LEMMA DivMod ==
    ASSUME NEW M \in Nat \ {0}, NEW z \in Int
    PROVE  z \div M \in Int /\ z % M \in 0..(M - 1) /\ z = M * (z \div M) + (z % M)
OBVIOUS

LEMMA MultipleUp ==
    ASSUME NEW M \in Nat \ {0}, NEW u \in Int, u >= 1
    PROVE  M * u >= M
OBVIOUS

LEMMA MultipleDown ==
    ASSUME NEW M \in Nat \ {0}, NEW u \in Int, u <= -1
    PROVE  M * u <= -M
OBVIOUS

LEMMA Distributes ==
    ASSUME NEW M \in Nat \ {0}, NEW u \in Int, NEW v \in Int
    PROVE  M * (u - v) = M * u - M * v /\ M * (u + v) = M * u + M * v
OBVIOUS

LEMMA UniqueRest ==
    ASSUME NEW M \in Nat \ {0}, NEW q \in Int, NEW p \in Int,
           NEW r \in 0..(M - 1), NEW s \in 0..(M - 1), M * q + r = M * p + s
    PROVE  r = s
<1>1. PICK u \in Int : u = q - p
  OBVIOUS
<1>2. PICK m \in Int : m = M * u
  OBVIOUS
<1>3. m = s - r
  BY <1>1, <1>2, Distributes
<1>4. CASE u >= 1
  BY <1>2, <1>3, <1>4, MultipleUp
<1>5. CASE u <= -1
  BY <1>2, <1>3, <1>5, MultipleDown
<1>6. CASE u = 0
  BY <1>2, <1>3, <1>6
<1>7. QED
  BY <1>4, <1>5, <1>6

LEMMA ModPeriod ==
    ASSUME NEW M \in Nat \ {0}, NEW u \in Int, NEW z \in Int
    PROVE  (M * u + z) % M = z % M
<1>1. PICK y \in Int : y = M * u + z
  OBVIOUS
<1>2. PICK p \in Int, r \in 0..(M - 1) : p = y \div M /\ r = y % M /\ y = M * p + r
  BY DivMod
<1>3. PICK q \in Int, s \in 0..(M - 1) : q = z \div M /\ s = z % M /\ z = M * q + s
  BY DivMod
<1>4. PICK w \in Int : w = u + q /\ M * w = M * u + M * q
  BY Distributes
<1>5. PICK k \in Int, l \in Int : k = M * u /\ l = M * q
  OBVIOUS
<1>6. y = k + z /\ z = l + s
  BY <1>1, <1>3, <1>5
<1>7. M * w = k + l
  BY <1>4, <1>5
<1>8. y = M * w + s
  BY <1>6, <1>7
<1>9. r = s
  BY <1>2, <1>8, UniqueRest
<1>10. QED
  BY <1>1, <1>2, <1>3, <1>9

LEMMA ModAdd ==
    ASSUME NEW M \in Nat \ {0}, NEW x \in Int, NEW k \in Int
    PROVE  ((x % M) + k) % M = (x + k) % M
<1>1. PICK p \in Int, r \in 0..(M - 1) : p = x \div M /\ r = x % M /\ x = M * p + r
  BY DivMod
<1>2. PICK z \in Int : z = r + k
  OBVIOUS
<1>3. PICK m \in Int : m = M * p
  OBVIOUS
<1>4. x + k = m + z
  BY <1>1, <1>2, <1>3
<1>5. (m + z) % M = z % M
  BY <1>3, ModPeriod
<1>6. QED
  BY <1>1, <1>2, <1>4, <1>5

LEMMA ModSub ==
    ASSUME NEW M \in Nat \ {0}, NEW x \in Int, NEW y \in Int
    PROVE  ((x % M) - (y % M)) % M = (x - y) % M
<1>1. PICK p \in Int, r \in 0..(M - 1) : p = x \div M /\ r = x % M /\ x = M * p + r
  BY DivMod
<1>2. PICK q \in Int, s \in 0..(M - 1) : q = y \div M /\ s = y % M /\ y = M * q + s
  BY DivMod
<1>3. PICK z \in Int : z = r - s
  OBVIOUS
<1>4. PICK w \in Int : w = p - q /\ M * w = M * p - M * q
  BY Distributes
<1>5. PICK m \in Int : m = M * w
  OBVIOUS
<1>6. x - y = m + z
  BY <1>1, <1>2, <1>3, <1>4, <1>5
<1>7. (m + z) % M = z % M
  BY <1>5, ModPeriod
<1>8. QED
  BY <1>1, <1>2, <1>3, <1>6, <1>7

(* What is left of a queue; an indexed family as a queue.                  *)
LEMMA Suffix ==
    ASSUME NEW S, NEW q \in Seq(S), NEW f \in 0..Len(q), NEW r, r = SubSeq(q, f + 1, Len(q))
    PROVE  /\ r \in Seq(S) /\ Len(r) = Len(q) - f
           /\ \A i \in 1..(Len(q) - f) : r[i] = q[f + i] /\ f + i \in 1..Len(q)
<1>1. PICK n \in Nat : n = Len(q)
  OBVIOUS
<1>2. \A i \in (f + 1)..n : q[i] \in S
  BY <1>1
<1>3. PICK m \in Int : m = f + 1 /\ f \in 0..n
  BY <1>1
<1>4. /\ r \in Seq(S) /\ Len(r) = (IF m <= n THEN n - m + 1 ELSE 0)
      /\ \A i \in 1..(n - m + 1) : r[i] = q[m + i - 1]
  BY <1>1, <1>2, <1>3, SubSeqProperties
<1>5. Len(r) = n - f
  BY <1>3, <1>4
<1>6. ASSUME NEW i \in 1..(n - f) PROVE r[i] = q[f + i] /\ f + i \in 1..n
  <2>1. i \in 1..(n - m + 1) /\ m + i - 1 = f + i /\ f + i \in 1..n
    BY <1>1, <1>3
  <2>2. QED
    BY <1>4, <2>1
<1>7. QED
  BY <1>1, <1>4, <1>5, <1>6

LEMMA FunSeq ==
    ASSUME NEW S, NEW n \in Nat, NEW f \in [1..n -> S]
    PROVE  f \in Seq(S) /\ Len(f) = n
<1>1. f \in Seq(S)
  OBVIOUS
<1>2. QED
  BY <1>1

(* A loop ends.                                                            *)
LEMMA RunFacts ==
    ASSUME NEW L \in Nat, NEW S
    PROVE  /\ Run(L, S) \in 0..L
           /\ \A k \in 0..(Run(L, S) - 1) : k \in S
           /\ Run(L, S) < L => Run(L, S) \notin S
<1> DEFINE T == {n \in 0..L : n < L => n \notin S}
<1>1. L \in T /\ T \subseteq Nat
  OBVIOUS
<1>2. PICK n \in T : \A k \in T : ~(<<k, n>> \in OpToRel(<, Nat))
  <2>1. T # {}
    BY <1>1
  <2>2. QED
    BY <1>1, <2>1, WFMin, NatLessThanWellFounded, Zenon
<1>3. \A k \in T : ~(k < n)
  BY <1>1, <1>2, Zenon DEF OpToRel
<1>4. n \in 0..L /\ 0..(n - 1) \subseteq S /\ (n < L => n \notin S)
  <2>1. n \in 0..L /\ (n < L => n \notin S)
    OBVIOUS
  <2>2. ASSUME NEW k \in 0..(n - 1) PROVE k \in S
    <3>1. k \in 0..L /\ k < n /\ k < L
      BY <2>1
    <3>2. k \notin T
      BY <1>3, <3>1
    <3>3. QED
      BY <3>1, <3>2
  <2>3. QED
    BY <2>1, <2>2
<1>5. /\ Run(L, S) \in 0..L /\ 0..(Run(L, S) - 1) \subseteq S
      /\ (Run(L, S) < L => Run(L, S) \notin S)
  BY <1>4 DEF Run
<1>6. QED
  BY <1>5

Half == SeqSpace \div 2
Seqno == 0..(SeqSpace - 1)

LEMMA HalfFacts ==
    /\ SeqSpace \in Nat \ {0} /\ Half \in Nat \ {0} /\ SeqSpace = 2 * Half
    /\ Window \in Nat \ {0} /\ Lifetime \in Nat /\ Window <= Lifetime /\ Lifetime < Half
    /\ FirstNs \in Seqno /\ MaxRetransmit \in Nat
    /\ \A e \in Ends : MaxMsgs[e] \in Nat
BY ChannelAssumption DEF Half, Seqno

(* The number of the message that follows x others.                        *)
Num(x) == Plus(FirstNs, x)

LEMMA NumType ==
    ASSUME NEW x \in Nat
    PROVE  Num(x) \in Seqno
<1>1. PICK z \in Int : z = FirstNs + x
  BY HalfFacts DEF Seqno
<1>2. z % SeqSpace \in 0..(SeqSpace - 1)
  BY HalfFacts, DivMod
<1>3. QED
  BY <1>1, <1>2 DEF Num, Plus, Seqno

LEMMA NumStep ==
    ASSUME NEW x \in Nat, NEW k \in Nat
    PROVE  Plus(Num(x), k) = Num(x + k)
<1>1. PICK z \in Int : z = FirstNs + x /\ FirstNs + (x + k) = z + k
  BY HalfFacts DEF Seqno
<1>2. ((z % SeqSpace) + k) % SeqSpace = (z + k) % SeqSpace
  <2>1. SeqSpace \in Nat \ {0} /\ k \in Int
    BY HalfFacts
  <2>2. QED
    BY <2>1, ModAdd
<1>3. QED
  BY <1>1, <1>2 DEF Num, Plus

(* How far one message is from another on the circle.                      *)
LEMMA NumDistance ==
    ASSUME NEW x \in Nat, NEW y \in Nat
    PROVE  (Num(x) - Num(y)) % SeqSpace = (x - y) % SeqSpace
<1>1. PICK u \in Int : u = FirstNs + x
  BY HalfFacts DEF Seqno
<1>2. PICK v \in Int : v = FirstNs + y /\ u - v = x - y
  BY <1>1, HalfFacts DEF Seqno
<1>3. ((u % SeqSpace) - (v % SeqSpace)) % SeqSpace = (u - v) % SeqSpace
  BY HalfFacts, ModSub
<1>4. QED
  BY <1>1, <1>2, <1>3 DEF Num, Plus

LEMMA NumAhead ==
    ASSUME NEW x \in Nat, NEW y \in Nat, x >= y, x - y < SeqSpace
    PROVE  (Num(x) - Num(y)) % SeqSpace = x - y
<1>1. PICK z \in Int : z = x - y /\ 0 <= z /\ z < SeqSpace
  OBVIOUS
<1>2. z % SeqSpace = z
  <2>1. SeqSpace \in Nat \ {0} /\ -SeqSpace <= z /\ z >= 0
    BY <1>1, HalfFacts
  <2>2. z % SeqSpace = IF z >= 0 THEN z ELSE z + SeqSpace
    BY <1>1, <2>1, ModDown
  <2>3. QED
    BY <2>1, <2>2
<1>3. QED
  BY <1>1, <1>2, NumDistance

(* Two messages less than half the sequence space apart are compared as    *)
(* their places in the sequence are.                                       *)
LEMMA Compare ==
    ASSUME NEW x \in Nat, NEW y \in Nat, x - y <= Half, y - x < Half
    PROVE  nsnr_cmp(Num(x), Num(y)) = IF x = y THEN 0 ELSE IF x > y THEN 1 ELSE -1
<1>1. PICK z \in Int : z = x - y /\ -SeqSpace <= z /\ z < SeqSpace /\ z <= Half /\ -z < Half
  BY HalfFacts
<1>2. PICK s \in Int : s = z % SeqSpace /\ s = IF z >= 0 THEN z ELSE z + SeqSpace
  <2>1. SeqSpace \in Nat \ {0}
    BY HalfFacts
  <2>2. z % SeqSpace = IF z >= 0 THEN z ELSE z + SeqSpace
    BY <1>1, <2>1, ModDown
  <2>3. (IF z >= 0 THEN z ELSE z + SeqSpace) \in Int
    BY <2>1
  <2>4. QED
    BY <2>2, <2>3
<1>3. s = (Num(x) - Num(y)) % SeqSpace
  BY <1>1, <1>2, NumDistance
<1>4. nsnr_cmp(Num(x), Num(y)) = IF s = 0 THEN 0 ELSE IF s < Half + 1 THEN 1 ELSE -1
  BY <1>3 DEF nsnr_cmp, Half
<1>5. QED
  BY <1>1, <1>2, <1>4, HalfFacts

(* The slots of the receive ring, from offset o.                           *)
LEMMA RingFacts ==
    ASSUME NEW o \in 0..(Window - 1), NEW k \in 0..(Window - 1)
    PROVE  /\ (o + k) % Window \in 0..(Window - 1)
           /\ (o + k) % Window = IF o + k < Window THEN o + k ELSE o + k - Window
<1>1. PICK z \in Int : z = o + k /\ 0 <= z /\ z < Window + Window
  BY HalfFacts
<1>2. PICK y : y = (o + k) % Window
  OBVIOUS
<1>3. y = z % Window
  BY <1>1, <1>2
<1>4. y \in 0..(Window - 1) /\ y = IF z < Window THEN z ELSE z - Window
  BY <1>1, <1>3, HalfFacts, ModUp
<1>5. y \in 0..(Window - 1) /\ y = IF o + k < Window THEN o + k ELSE o + k - Window
  BY <1>1, <1>4, HalfFacts
<1>6. QED
  BY <1>2, <1>5, Zenon

LEMMA RingInjective ==
    ASSUME NEW o \in 0..(Window - 1), NEW k \in 0..(Window - 1), NEW j \in 0..(Window - 1),
           (o + k) % Window = (o + j) % Window
    PROVE  k = j
<1>1. (o + k) % Window = IF o + k < Window THEN o + k ELSE o + k - Window
  BY RingFacts
<1>2. (o + j) % Window = IF o + j < Window THEN o + j ELSE o + j - Window
  BY RingFacts
<1>3. PICK x \in Int : x = IF o + k < Window THEN o + k ELSE o + k - Window
  BY HalfFacts
<1>4. x = IF o + j < Window THEN o + j ELSE o + j - Window
  BY <1>1, <1>2, <1>3
<1>5. QED
  BY <1>3, <1>4, HalfFacts

LEMMA RingBack ==
    ASSUME NEW o \in 0..(Window - 1), NEW j \in 0..(Window - 1)
    PROVE  (((o + j) % Window) - o) % Window = j
<1>1. PICK i \in 0..(Window - 1) :
        i = (o + j) % Window /\ i = IF o + j < Window THEN o + j ELSE o + j - Window
  BY RingFacts
<1>2. PICK z \in Int : z = i - o /\ -Window <= z /\ z < Window
  BY HalfFacts
<1>3. z % Window = IF z >= 0 THEN z ELSE z + Window
  BY <1>2, HalfFacts, ModDown
<1>4. z % Window = j
  BY <1>1, <1>2, <1>3, HalfFacts
<1>5. QED
  BY <1>1, <1>2, <1>4

LEMMA RingStart ==
    ASSUME NEW o \in 0..(Window - 1), NEW n \in 0..Window
    PROVE  /\ (o + n) % Window \in 0..(Window - 1)
           /\ (o + n) % Window = IF o + n < Window THEN o + n ELSE o + n - Window
<1>1. PICK z \in Int : z = o + n /\ 0 <= z /\ z < Window + Window
  BY HalfFacts
<1>2. PICK y : y = (o + n) % Window
  OBVIOUS
<1>3. y = z % Window
  BY <1>1, <1>2
<1>4. y \in 0..(Window - 1) /\ y = IF z < Window THEN z ELSE z - Window
  BY <1>1, <1>3, HalfFacts, ModUp
<1>5. y \in 0..(Window - 1) /\ y = IF o + n < Window THEN o + n ELSE o + n - Window
  BY <1>1, <1>4, HalfFacts
<1>6. QED
  BY <1>2, <1>5, Zenon

LEMMA RingNext ==
    ASSUME NEW n \in 0..Window, NEW k \in 0..(Window - 1)
    PROVE  (IF n + k < Window THEN n + k ELSE n + k - Window) \in 0..(Window - 1)
BY HalfFacts

LEMMA RingShift ==
    ASSUME NEW o \in 0..(Window - 1), NEW k \in 0..(Window - 1), NEW n \in 0..Window,
           NEW p \in 0..(Window - 1), p = IF o + n < Window THEN o + n ELSE o + n - Window,
           NEW j \in 0..(Window - 1), j = IF n + k < Window THEN n + k ELSE n + k - Window
    PROVE  (p + k) % Window = (o + j) % Window
<1>1. PICK x \in 0..(Window - 1) :
        x = (p + k) % Window /\ x = IF p + k < Window THEN p + k ELSE p + k - Window
  BY RingFacts
<1>2. PICK w \in 0..(Window - 1) :
        w = (o + j) % Window /\ w = IF o + j < Window THEN o + j ELSE o + j - Window
  <2>1. /\ (o + j) % Window \in 0..(Window - 1)
        /\ (o + j) % Window = IF o + j < Window THEN o + j ELSE o + j - Window
    BY RingFacts
  <2>2. QED
    BY <2>1, Zenon
<1>3. x = w
  BY <1>1, <1>2, HalfFacts
<1>4. QED
  BY <1>1, <1>2, <1>3

-----------------------------------------------------------------------------
(* A connection in the middle of a handler.                                *)

Message == [Ns : Seqno, body : Nat, ns : Nat]
Datagram == [Ns : Seqno, Nr : Seqno, body : Nat, ns : Nat, nr : Nat]

Conn ==
    [state : {"ESTB", "FIN", "FIN_WAIT", "CLOSE"}, Ns : Seqno, Nr : Seqno, peer_Nr : Seqno,
     send_queue : Seq(Nat), rtms_queue : Seq(Message), recv_queue : [0..(Window - 1) -> Int],
     recv_queue_offt : 0..(Window - 1), retransmit : 0..MaxRetransmit, rtimeout_timer : BOOLEAN,
     need_ack : BOOLEAN, out : SUBSET Datagram, taken : Nat, sent : Seq(Nat), got : Nat,
     handed : Seq(Nat)]

(* A numbered message m is the one its place in the sequence s says.       *)
Numbered(m, s) ==
    /\ m.Ns = Num(m.ns) /\ m.ns <= Len(s)
    /\ m.body # ZLB => m.ns < Len(s) /\ m.body = s[m.ns + 1]

(* The ring holds messages of s that follow the first g, each in the slot  *)
(* of its number.                                                          *)
RingOk(c, g, s) ==
    \A k \in 0..(Window - 1) :
        LET m == c.recv_queue[(c.recv_queue_offt + k) % Window]
        IN  m = None \/ (g + k + 1 <= Len(s) /\ m = s[g + k + 1])

(* What was processed is the beginning of s.                               *)
HandedOk(c, s) ==
    /\ Len(c.handed) <= c.got /\ (c.state = "ESTB" => Len(c.handed) = c.got)
    /\ \A i \in 1..Len(c.handed) : c.handed[i] = s[i]

(* The datagrams of this handler are young.                                *)
OutOk(c, s, acked) ==
    \A p \in c.out : /\ Numbered(p, c.sent) /\ p.Nr = Num(p.nr)
                     /\ acked <= p.ns /\ p.nr <= c.got /\ Len(s) <= p.nr + Window

(* The peer has sent s and taken r messages of c, of which the first acked *)
(* are known to have been: neither end is more than a window ahead.        *)
CoreOk(c, s, r, acked) ==
    /\ c.got <= Len(s) /\ Len(s) <= c.got + Window
    /\ acked <= r /\ r <= Len(c.sent) /\ Len(c.sent) <= acked + Window
    /\ c.Ns = Num(Len(c.sent)) /\ c.Nr = Num(c.got) /\ c.peer_Nr = Num(acked)
    /\ RingOk(c, c.got, s) /\ HandedOk(c, s) /\ OutOk(c, s, acked)

(* The messages after the first b await acknowledgement.                   *)
FlightOk(c, b) ==
    c.state # "CLOSE" =>
        /\ Len(c.sent) = b + Len(c.rtms_queue)
        /\ \A i \in 1..Len(c.rtms_queue) : /\ c.rtms_queue[i].ns = b + i - 1
                                           /\ c.rtms_queue[i].Ns = Num(b + i - 1)
                                           /\ c.rtms_queue[i].body = c.sent[b + i]

TimerOk(c) ==
    /\ c.rtimeout_timer <=> c.rtms_queue # <<>>
    /\ c.state = "CLOSE" => c.rtms_queue = <<>> /\ c.send_queue = <<>>

(* A datagram under way.                                                   *)
PacketOk(p, from, to) ==
    /\ Numbered(p, from.sent) /\ p.Nr = Num(p.nr) /\ p.nr <= from.got
    /\ Len(from.sent) - p.ns <= Lifetime /\ Len(to.sent) - p.nr <= Lifetime

(* What handlers never undo.                                               *)
Later(d, c) ==
    /\ Len(c.sent) <= Len(d.sent) /\ \A i \in 1..Len(c.sent) : d.sent[i] = c.sent[i]
    /\ Len(c.handed) <= Len(d.handed) /\ c.got <= d.got
    /\ c.state # "ESTB" => d.state # "ESTB" /\ d.handed = c.handed

LEMMA ConnFacts ==
    ASSUME NEW c \in Conn
    PROVE  /\ c.state \in {"ESTB", "FIN", "FIN_WAIT", "CLOSE"} /\ c.Ns \in Seqno /\ c.Nr \in Seqno
           /\ c.peer_Nr \in Seqno /\ c.send_queue \in Seq(Nat) /\ c.rtms_queue \in Seq(Message)
           /\ c.recv_queue \in [0..(Window - 1) -> Int] /\ c.recv_queue_offt \in 0..(Window - 1)
           /\ c.retransmit \in 0..MaxRetransmit /\ c.rtimeout_timer \in BOOLEAN
           /\ c.need_ack \in BOOLEAN /\ c.out \in SUBSET Datagram /\ c.taken \in Nat
           /\ c.sent \in Seq(Nat) /\ c.got \in Nat /\ c.handed \in Seq(Nat)
           /\ Len(c.sent) \in Nat /\ Len(c.handed) \in Nat /\ Len(c.send_queue) \in Nat
           /\ Len(c.rtms_queue) \in Nat
<1>1. /\ c.state \in {"ESTB", "FIN", "FIN_WAIT", "CLOSE"} /\ c.Ns \in Seqno /\ c.Nr \in Seqno
      /\ c.peer_Nr \in Seqno /\ c.send_queue \in Seq(Nat) /\ c.rtms_queue \in Seq(Message)
      /\ c.recv_queue \in [0..(Window - 1) -> Int] /\ c.recv_queue_offt \in 0..(Window - 1)
      /\ c.retransmit \in 0..MaxRetransmit /\ c.rtimeout_timer \in BOOLEAN
      /\ c.need_ack \in BOOLEAN /\ c.out \in SUBSET Datagram /\ c.taken \in Nat
      /\ c.sent \in Seq(Nat) /\ c.got \in Nat /\ c.handed \in Seq(Nat)
  BY DEF Conn
<1>2. /\ Len(c.sent) \in Nat /\ Len(c.handed) \in Nat /\ Len(c.send_queue) \in Nat
      /\ Len(c.rtms_queue) \in Nat
  BY <1>1, LenProperties, Zenon
<1>3. QED
  BY <1>1, <1>2, Zenon

LEMMA LaterSelf == ASSUME NEW c \in Conn PROVE Later(c, c)
<1>1. Len(c.sent) \in Nat /\ Len(c.handed) \in Nat /\ c.got \in Nat
  BY ConnFacts, Zenon
<1>2. QED
  BY <1>1 DEF Later

LEMMA LaterTrans ==
    ASSUME NEW c \in Conn, NEW d \in Conn, NEW f \in Conn, Later(d, c), Later(f, d)
    PROVE  Later(f, c)
<1>1. /\ Len(c.sent) \in Nat /\ Len(c.handed) \in Nat /\ c.got \in Nat
      /\ Len(d.sent) \in Nat /\ Len(d.handed) \in Nat /\ d.got \in Nat
      /\ Len(f.sent) \in Nat /\ Len(f.handed) \in Nat /\ f.got \in Nat
  BY ConnFacts, Zenon
<1>2. \A i \in 1..Len(c.sent) : i \in 1..Len(d.sent)
  BY <1>1 DEF Later
<1>3. QED
  BY <1>1, <1>2, SMTT(40) DEF Later

(* What a step changes outside the queues and the timer does not matter.   *)
LEMMA SameOk ==
    ASSUME NEW c \in Conn, NEW d \in Conn, NEW s \in Seq(Nat), NEW r \in Nat, NEW a \in Nat,
           CoreOk(c, s, r, a),
           d.Ns = c.Ns, d.Nr = c.Nr, d.peer_Nr = c.peer_Nr, d.recv_queue = c.recv_queue,
           d.recv_queue_offt = c.recv_queue_offt, d.out = c.out, d.sent = c.sent, d.got = c.got,
           d.handed = c.handed, d.state = "ESTB" => c.state = "ESTB"
    PROVE  CoreOk(d, s, r, a) /\ Later(d, c)
<1>1. HandedOk(d, s)
  BY DEF CoreOk, HandedOk
<1>2. RingOk(d, d.got, s)
  BY DEF CoreOk, RingOk
<1>3. OutOk(d, s, a)
  BY DEF CoreOk, OutOk
<1>4. CoreOk(d, s, r, a)
  BY <1>1, <1>2, <1>3 DEF CoreOk
<1>5. Len(c.sent) \in Nat /\ Len(c.handed) \in Nat /\ c.got \in Nat
  BY ConnFacts, Zenon
<1>6. QED
  BY <1>4, <1>5 DEF Later

(* A message that is stored gets its place in the ring, and the peer's     *)
(* progress is noted.                                                      *)
LEMMA StoreOk ==
    ASSUME NEW c \in Conn, NEW p \in Packets, NEW f \in Conn, NEW a \in Nat,
           CoreOk(c, f.sent, f.got, a), c.out = {}, PacketOk(p, f, c),
           NEW d, d = l2tp_tunnel_store_msg(c, p)
    PROVE  /\ d \in Conn /\ Later(d, c) /\ d.state = c.state /\ d.out = {}
           /\ d.sent = c.sent /\ d.send_queue = c.send_queue /\ d.rtms_queue = c.rtms_queue
           /\ d.rtimeout_timer = c.rtimeout_timer /\ d.handed = c.handed
           /\ \E n \in Nat : a <= n /\ CoreOk(d, f.sent, f.got, n)
<1> DEFINE indx == (p.Ns - c.Nr) % SeqSpace
           slot == (indx + c.recv_queue_offt) % Window
<1>1. /\ p.Ns \in Seqno /\ p.Nr \in Seqno /\ p.body \in Nat /\ p.ns \in Nat /\ p.nr \in Nat
  BY DEF Packets, Seqno
<1>c. /\ c.Nr \in Seqno /\ c.recv_queue_offt \in 0..(Window - 1) /\ c.Ns \in Seqno
      /\ c.peer_Nr \in Seqno /\ c.recv_queue \in [0..(Window - 1) -> Int] /\ f.sent \in Seq(Nat)
  BY ConnFacts, Zenon
<1>n. PICK S \in Nat, F \in Nat, g \in Nat, r \in Nat :
         S = Len(c.sent) /\ F = Len(f.sent) /\ g = c.got /\ r = f.got
  BY ConnFacts, Zenon
<1>o. /\ g <= F /\ F <= g + Window /\ a <= r /\ r <= S /\ S <= a + Window
      /\ c.Ns = Num(S) /\ c.Nr = Num(g) /\ c.peer_Nr = Num(a)
  BY <1>n DEF CoreOk
<1>p. /\ p.Ns = Num(p.ns) /\ p.ns <= F /\ p.Nr = Num(p.nr) /\ p.nr <= r
      /\ F - p.ns <= Lifetime /\ S - p.nr <= Lifetime
      /\ p.body # ZLB => p.ns < F /\ p.body = f.sent[p.ns + 1]
  BY <1>n DEF PacketOk, Numbered
<1>2. nsnr_cmp(c.Ns, p.Nr) >= 0
  <2>1. p.nr <= S /\ S - p.nr <= Half /\ p.nr - S < Half
    BY <1>1, <1>o, <1>p, HalfFacts
  <2>2. nsnr_cmp(Num(S), Num(p.nr)) = IF S = p.nr THEN 0 ELSE IF S > p.nr THEN 1 ELSE -1
    BY <1>1, <2>1, Compare
  <2>3. QED
    BY <1>1, <1>o, <1>p, <2>1, <2>2
<1>3. PICK n \in Nat : /\ a <= n /\ n <= r
                       /\ Num(n) = IF nsnr_cmp(p.Nr, c.peer_Nr) > 0 THEN p.Nr ELSE c.peer_Nr
  <2>1. p.nr - a <= Half /\ a - p.nr < Half /\ a <= r
    BY <1>1, <1>o, <1>p, HalfFacts
  <2>2. nsnr_cmp(Num(p.nr), Num(a)) = IF p.nr = a THEN 0 ELSE IF p.nr > a THEN 1 ELSE -1
    BY <1>1, <2>1, Compare
  <2>3. PICK n \in Nat : n = IF p.nr > a THEN p.nr ELSE a
    BY <1>1
  <2>4. Num(n) = IF nsnr_cmp(p.Nr, c.peer_Nr) > 0 THEN p.Nr ELSE c.peer_Nr
    BY <1>1, <1>o, <1>p, <2>2, <2>3
  <2>5. a <= n /\ n <= r
    BY <1>1, <1>p, <2>1, <2>3
  <2>6. QED
    BY <2>4, <2>5
<1>4. PICK c1 : c1 = [c EXCEPT !.peer_Nr = Num(n)]
  OBVIOUS
<1>5. /\ c1 \in Conn /\ c1.state = c.state /\ c1.out = {} /\ c1.peer_Nr = Num(n)
      /\ c1.Ns = c.Ns /\ c1.Nr = c.Nr /\ c1.recv_queue = c.recv_queue
      /\ c1.recv_queue_offt = c.recv_queue_offt /\ c1.sent = c.sent /\ c1.got = c.got
      /\ c1.handed = c.handed /\ c1.send_queue = c.send_queue /\ c1.rtms_queue = c.rtms_queue
      /\ c1.rtimeout_timer = c.rtimeout_timer
  BY <1>4, NumType DEF Conn
<1>6. CoreOk(c1, f.sent, f.got, n)
  <2>1. HandedOk(c1, f.sent) /\ RingOk(c1, c1.got, f.sent) /\ OutOk(c1, f.sent, n)
    BY <1>5 DEF CoreOk, HandedOk, RingOk, OutOk
  <2>2. S <= n + Window
    BY <1>3, <1>o, HalfFacts
  <2>3. QED
    BY <1>3, <1>5, <1>n, <1>o, <2>1, <2>2 DEF CoreOk
<1>7. Later(c1, c)
  <2>1. Later(c, c)
    BY LaterSelf
  <2>2. QED
    BY <1>5, <2>1 DEF Later
<1>8. PICK c2 : c2 = [c1 EXCEPT !.need_ack = TRUE]
  OBVIOUS
<1>9. /\ c2 \in Conn /\ c2.state = c1.state /\ c2.out = {} /\ c2.peer_Nr = c1.peer_Nr
      /\ c2.Ns = c1.Ns /\ c2.Nr = c1.Nr /\ c2.recv_queue = c1.recv_queue
      /\ c2.recv_queue_offt = c1.recv_queue_offt /\ c2.sent = c1.sent /\ c2.got = c1.got
      /\ c2.handed = c1.handed /\ c2.send_queue = c1.send_queue /\ c2.rtms_queue = c1.rtms_queue
      /\ c2.rtimeout_timer = c1.rtimeout_timer
  BY <1>5, <1>8 DEF Conn
<1>10. CoreOk(c2, f.sent, f.got, n) /\ Later(c2, c1)
  <2>1. /\ f.sent \in Seq(Nat) /\ f.got \in Nat /\ c1 \in Conn /\ c2 \in Conn
        /\ c2.out = c1.out /\ (c2.state = "ESTB" => c1.state = "ESTB")
    BY <1>c, <1>n, <1>5, <1>9
  <2>2. QED
    BY <1>6, <1>9, <2>1, SameOk, Zenon
<1>11. Later(c2, c)
  BY <1>5, <1>7, <1>9, <1>10, LaterTrans
<1>12. \/ d = c1
       \/ d = c2
       \/ /\ d = [c2 EXCEPT !.recv_queue = [c2.recv_queue EXCEPT ![slot] = p.body]]
          /\ indx < Window /\ p.body # ZLB /\ nsnr_cmp(p.Ns, c.Nr) >= 0
  <2>1. PICK z \in Int : z = nsnr_cmp(c.Ns, p.Nr) /\ z >= 0
    BY <1>2 DEF nsnr_cmp
  <2>2. PICK y \in Int : y = nsnr_cmp(p.Ns, c.Nr)
    BY DEF nsnr_cmp
  <2>3. d = CASE z < 0 -> c
              [] z >= 0 /\ p.body = ZLB -> c1
              [] OTHER -> IF \/ y < 0
                             \/ indx >= Window
                             \/ c.recv_queue[slot] # None
                          THEN c2
                          ELSE [c2 EXCEPT !.recv_queue = [c2.recv_queue EXCEPT ![slot] = p.body]]
    BY <1>3, <1>4, <1>8, <2>1, <2>2 DEF l2tp_tunnel_store_msg
  <2>4. indx \in Int /\ Window \in Int
    <3>1. PICK w \in Int : w = p.Ns - c.Nr
      BY <1>1, <1>c DEF Seqno
    <3>2. SeqSpace \in Nat \ {0} /\ Window \in Int
      BY HalfFacts
    <3>3. w % SeqSpace \in Int
      BY <3>2
    <3>4. QED
      BY <3>1, <3>2, <3>3
  <2>5. QED
    BY <2>1, <2>2, <2>3, <2>4
<1>13. CASE d = c1
  BY <1>3, <1>5, <1>6, <1>7, <1>13, <1>n
<1>14. CASE d = c2
  BY <1>3, <1>5, <1>9, <1>10, <1>11, <1>14
<1>15. CASE /\ d = [c2 EXCEPT !.recv_queue = [c2.recv_queue EXCEPT ![slot] = p.body]]
            /\ indx < Window /\ p.body # ZLB /\ nsnr_cmp(p.Ns, c.Nr) >= 0
  <2>1. p.ns - g <= Half /\ g - p.ns < Half /\ p.ns < F /\ p.body = f.sent[p.ns + 1]
    BY <1>1, <1>15, <1>o, <1>p, HalfFacts
  <2>2. nsnr_cmp(Num(p.ns), Num(g)) = IF p.ns = g THEN 0 ELSE IF p.ns > g THEN 1 ELSE -1
    BY <1>1, <2>1, Compare
  <2>3. p.ns >= g /\ p.ns - g < SeqSpace
    <3>1. nsnr_cmp(Num(p.ns), Num(g)) >= 0
      BY <1>15, <1>o, <1>p
    <3>2. QED
      BY <1>1, <2>1, <2>2, <3>1, HalfFacts
  <2>4. indx = p.ns - g
    BY <1>1, <1>o, <1>p, <2>3, NumAhead
  <2>5. PICK i \in 0..(Window - 1) : /\ i = indx /\ g + i = p.ns
                                     /\ g + i + 1 <= F /\ p.body = f.sent[g + i + 1]
    <3>1. p.ns - g \in 0..(Window - 1) /\ g + (p.ns - g) + 1 = p.ns + 1 /\ g + (p.ns - g) = p.ns
      BY <1>1, <1>15, <2>3, <2>4, HalfFacts
    <3>2. p.ns + 1 <= F
      BY <1>1, <2>1
    <3>3. QED
      BY <2>1, <2>4, <3>1, <3>2
  <2>6. PICK t : t = slot /\ t = (c.recv_queue_offt + i) % Window
    BY <1>c, <2>5
  <2>7. t \in 0..(Window - 1)
    BY <1>c, <2>6, RingFacts
  <2>8. PICK q \in [0..(Window - 1) -> Int] : q = [c.recv_queue EXCEPT ![t] = p.body]
    <3>1. [c.recv_queue EXCEPT ![t] = p.body] \in [0..(Window - 1) -> Int]
      BY <1>1, <1>c, <2>7
    <3>2. QED
      BY <3>1
  <2>9. d = [c2 EXCEPT !.recv_queue = q]
    BY <1>5, <1>9, <1>15, <2>6, <2>8
  <2>10. /\ d \in Conn /\ d.state = c2.state /\ d.out = {} /\ d.peer_Nr = c2.peer_Nr
         /\ d.Ns = c2.Ns /\ d.Nr = c2.Nr /\ d.recv_queue = q
         /\ d.recv_queue_offt = c2.recv_queue_offt /\ d.sent = c2.sent /\ d.got = c2.got
         /\ d.handed = c2.handed /\ d.send_queue = c2.send_queue /\ d.rtms_queue = c2.rtms_queue
         /\ d.rtimeout_timer = c2.rtimeout_timer
    BY <1>9, <2>8, <2>9 DEF Conn
  <2>11. ASSUME NEW k \in 0..(Window - 1)
         PROVE  LET m == q[(c.recv_queue_offt + k) % Window]
                IN  m = None \/ (g + k + 1 <= F /\ m = f.sent[g + k + 1])
    <3>1. CASE k = i
      BY <1>c, <2>5, <2>6, <2>7, <2>8, <3>1
    <3>2. CASE k # i
      <4>1. (c.recv_queue_offt + k) % Window # t
        BY <1>c, <2>6, <3>2, RingInjective
      <4>2. (c.recv_queue_offt + k) % Window \in 0..(Window - 1)
        BY <1>c, RingFacts
      <4>3. q[(c.recv_queue_offt + k) % Window] = c.recv_queue[(c.recv_queue_offt + k) % Window]
        BY <1>c, <2>8, <4>1, <4>2
      <4>4. QED
        BY <1>n, <4>3 DEF CoreOk, RingOk
    <3>3. QED
      BY <3>1, <3>2
  <2>12. RingOk(d, d.got, f.sent)
    BY <1>5, <1>9, <1>n, <2>10, <2>11 DEF RingOk
  <2>13. HandedOk(d, f.sent) /\ OutOk(d, f.sent, n)
    BY <1>10, <2>10 DEF CoreOk, HandedOk, OutOk
  <2>14. CoreOk(d, f.sent, f.got, n)
    BY <1>10, <2>10, <2>12, <2>13 DEF CoreOk
  <2>15. Later(d, c2)
    <3>1. Later(c2, c2)
      BY <1>9, LaterSelf
    <3>2. QED
      BY <2>10, <3>1 DEF Later
  <2>16. Later(d, c)
    BY <1>9, <1>11, <2>10, <2>15, LaterTrans
  <2>17. QED
    BY <1>3, <1>5, <1>9, <2>10, <2>14, <2>16
<1>16. QED
  BY <1>12, <1>13, <1>14, <1>15

(* Forgetting acknowledged messages leaves those that are not.             *)
LEMMA CleanOk ==
    ASSUME NEW c \in Conn, NEW s \in Seq(Nat), NEW r \in Nat, NEW a \in Nat, NEW b \in Nat,
           CoreOk(c, s, r, a), FlightOk(c, b), TimerOk(c), c.state # "CLOSE",
           b <= a, Len(c.sent) <= b + Window, NEW d, d = l2tp_tunnel_clean_rtmsqueue(c)
    PROVE  /\ d \in Conn /\ d.state = c.state /\ d.out = c.out /\ d.sent = c.sent
           /\ d.send_queue = c.send_queue /\ d.handed = c.handed
           /\ CoreOk(d, s, r, a) /\ FlightOk(d, a) /\ TimerOk(d) /\ Later(d, c)
<1>1. PICK q \in Seq(Message) : q = c.rtms_queue
  BY ConnFacts, Zenon
<1>2. PICK L \in Nat, S \in Nat :
         /\ L = Len(q) /\ S = Len(c.sent) /\ S = b + L /\ a <= S /\ S <= a + Window /\ S <= b + Window
         /\ c.peer_Nr = Num(a)
  <2>1. PICK L \in Nat, S \in Nat : L = Len(q) /\ S = Len(c.sent)
    BY <1>1, ConnFacts, Zenon
  <2>2. S = b + L
    BY <1>1, <2>1 DEF FlightOk
  <2>3. a <= S /\ S <= a + Window /\ S <= b + Window /\ c.peer_Nr = Num(a)
    BY <2>1 DEF CoreOk
  <2>4. QED
    BY <2>1, <2>2, <2>3
<1>3. \A i \in 1..L : q[i].ns = b + i - 1 /\ q[i].Ns = Num(b + i - 1) /\ q[i].body = c.sent[b + i]
  BY <1>1, <1>2 DEF FlightOk
<1>4. PICK K : K = {k \in 0..(L - 1) : nsnr_cmp(q[k + 1].Ns, c.peer_Nr) < 0}
  OBVIOUS
<1>5. ASSUME NEW k \in 0..(L - 1) PROVE k \in K <=> b + k < a
  <2>1. k + 1 \in 1..L /\ b + (k + 1) - 1 = b + k /\ b + k \in Nat
    OBVIOUS
  <2>2. q[k + 1].Ns = Num(b + k)
    BY <1>3, <2>1
  <2>3. (b + k) - a <= Half /\ a - (b + k) < Half
    BY <1>2, HalfFacts
  <2>4. nsnr_cmp(Num(b + k), Num(a)) = IF b + k = a THEN 0 ELSE IF b + k > a THEN 1 ELSE -1
    BY <2>1, <2>3, Compare
  <2>5. PICK x \in Nat : x = b + k
    BY <2>1
  <2>6. k \in K <=> nsnr_cmp(Num(x), Num(a)) < 0
    BY <1>2, <1>4, <2>2, <2>5
  <2>7. QED
    BY <2>4, <2>5, <2>6
<1>6. PICK n \in 0..L : /\ n = Run(L, K) /\ (\A k \in 0..(n - 1) : k \in K) /\ (n < L => n \notin K)
  BY RunFacts
<1>7. b + n = a
  <2>1. n > 0 => b + (n - 1) < a
    <3>1. n > 0 => n - 1 \in 0..(n - 1) /\ n - 1 \in 0..(L - 1)
      OBVIOUS
    <3>2. QED
      BY <1>5, <1>6, <3>1
  <2>2. n < L => ~(b + n < a)
    <3>1. n < L => n \in 0..(L - 1)
      OBVIOUS
    <3>2. QED
      BY <1>5, <1>6, <3>1
  <2>3. QED
    BY <1>2, <2>1, <2>2
<1>8. PICK left : left = SubSeq(q, n + 1, Len(q))
  OBVIOUS
<1>9. /\ left \in Seq(Message) /\ Len(left) = L - n
      /\ \A i \in 1..(L - n) : left[i] = q[n + i] /\ n + i \in 1..L
  BY <1>2, <1>8, Suffix
<1>10. ASSUME NEW i \in 1..(L - n)
       PROVE  left[i].ns = a + i - 1 /\ left[i].Ns = Num(a + i - 1) /\ left[i].body = c.sent[a + i]
  <2>1. left[i] = q[n + i] /\ n + i \in 1..L
    BY <1>9
  <2>2. b + (n + i) - 1 = a + i - 1 /\ b + (n + i) = a + i
    BY <1>7
  <2>3. QED
    BY <1>3, <2>1, <2>2
<1>11. S = a + (L - n)
  <2>1. S = b + L
    BY <1>2
  <2>2. QED
    BY <1>7, <2>1
<1>12. PICK m \in Nat : m = L - n
  OBVIOUS
<1>13. l2tp_tunnel_clean_rtmsqueue(c) =
          IF n = 0 THEN c ELSE [c EXCEPT !.rtms_queue = left, !.retransmit = 0, !.rtimeout_timer = left # <<>>]
  BY <1>1, <1>2, <1>4, <1>6, <1>8 DEF l2tp_tunnel_clean_rtmsqueue
<1>14. CASE n = 0
  <2>1. a = b /\ d = c
    BY <1>7, <1>13, <1>14
  <2>2. QED
    BY <2>1, LaterSelf
<1>15. CASE n # 0
  <2>1. PICK t \in BOOLEAN : t = (left # <<>>)
    OBVIOUS
  <2>2. d = [c EXCEPT !.rtms_queue = left, !.retransmit = 0, !.rtimeout_timer = t]
    BY <1>13, <1>15, <2>1
  <2>3. 0 \in 0..MaxRetransmit
    BY HalfFacts
  <2>4. /\ d \in Conn /\ d.state = c.state /\ d.out = c.out /\ d.Ns = c.Ns /\ d.Nr = c.Nr
        /\ d.peer_Nr = c.peer_Nr /\ d.send_queue = c.send_queue /\ d.rtms_queue = left
        /\ d.recv_queue_offt = c.recv_queue_offt /\ d.recv_queue = c.recv_queue
        /\ d.sent = c.sent /\ d.got = c.got /\ d.handed = c.handed /\ d.rtimeout_timer = t
    BY <1>9, <2>1, <2>2, <2>3 DEF Conn
  <2>5. CoreOk(d, s, r, a) /\ Later(d, c)
    BY <2>4, SameOk, Zenon
  <2>6. FlightOk(d, a)
    BY <1>2, <1>9, <1>10, <1>11, <2>4, ZenonT(60) DEF FlightOk
  <2>7. TimerOk(d)
    BY <2>1, <2>4 DEF TimerOk
  <2>8. QED
    BY <2>4, <2>5, <2>6, <2>7
<1>16. QED
  BY <1>14, <1>15

LEMMA PrefixFacts ==
    ASSUME NEW q \in Seq(Nat), NEW n \in 0..Len(q), NEW t, t = SubSeq(q, 1, n)
    PROVE  t \in Seq(Nat) /\ Len(t) = n /\ \A i \in 1..n : t[i] = q[i] /\ i \in 1..Len(q)
<1>1. PICK L \in Nat : L = Len(q)
  BY LenProperties
<1>2. n \in Int /\ 1 \in Int /\ \A i \in 1..n : i \in 1..L
  BY <1>1
<1>3. \A i \in 1..n : q[i] \in Nat
  BY <1>1, <1>2, ElementOfSeq
<1>4. /\ t \in Seq(Nat) /\ Len(t) = (IF 1 <= n THEN n - 1 + 1 ELSE 0)
      /\ \A i \in 1..(n - 1 + 1) : t[i] = q[1 + i - 1]
  BY <1>2, <1>3, SubSeqProperties
<1>5. Len(t) = n
  BY <1>1, <1>4
<1>6. ASSUME NEW i \in 1..n PROVE t[i] = q[i] /\ i \in 1..L
  <2>1. i \in 1..(n - 1 + 1) /\ 1 + i - 1 = i /\ i \in 1..L
    BY <1>1
  <2>2. QED
    BY <1>4, <2>1
<1>7. QED
  BY <1>1, <1>4, <1>5, <1>6

LEMMA SuffixFacts ==
    ASSUME NEW q \in Seq(Nat), NEW n \in 0..Len(q)
    PROVE  LET t == SubSeq(q, n + 1, Len(q))
           IN  t \in Seq(Nat) /\ Len(t) = Len(q) - n /\ \A i \in 1..(Len(q) - n) : t[i] = q[n + i]
<1>1. PICK t : t = SubSeq(q, n + 1, Len(q))
  OBVIOUS
<1>2. /\ t \in Seq(Nat) /\ Len(t) = Len(q) - n
      /\ \A i \in 1..(Len(q) - n) : t[i] = q[n + i] /\ n + i \in 1..Len(q)
  BY <1>1, Suffix
<1>3. QED
  BY <1>1, <1>2, Zenon

LEMMA JoinFacts ==
    ASSUME NEW U, NEW q \in Seq(U), NEW t \in Seq(U), NEW u, u = q \o t
    PROVE  /\ u \in Seq(U) /\ Len(u) = Len(q) + Len(t)
           /\ \A i \in 1..Len(q) : u[i] = q[i] /\ i \in 1..Len(u)
           /\ \A i \in 1..Len(t) : u[Len(q) + i] = t[i] /\ Len(q) + i \in 1..Len(u)
<1>1. PICK L \in Nat, M \in Nat : L = Len(q) /\ M = Len(t)
  BY LenProperties
<1>2. /\ u \in Seq(U) /\ Len(u) = L + M
      /\ \A i \in 1..(L + M) : u[i] = IF i <= L THEN q[i] ELSE t[i - L]
  BY <1>1, ConcatProperties
<1>3. ASSUME NEW i \in 1..L PROVE u[i] = q[i] /\ i \in 1..(L + M)
  <2>1. i \in 1..(L + M) /\ i <= L
    OBVIOUS
  <2>2. QED
    BY <1>2, <2>1
<1>4. ASSUME NEW i \in 1..M PROVE u[L + i] = t[i] /\ L + i \in 1..(L + M)
  <2>1. L + i \in 1..(L + M) /\ ~(L + i <= L) /\ (L + i) - L = i
    OBVIOUS
  <2>2. QED
    BY <1>2, <2>1
<1>5. QED
  BY <1>1, <1>2, <1>3, <1>4

(* A message keeps its place when more are sent.                           *)
LEMMA NumberedMore ==
    ASSUME NEW m, NEW n \in Nat, m.ns = n, NEW s \in Seq(Nat), NEW t \in Seq(Nat), Len(s) <= Len(t),
           \A i \in 1..Len(s) : t[i] = s[i], Numbered(m, s)
    PROVE  Numbered(m, t)
<1>1. PICK S \in Nat, T \in Nat : S = Len(s) /\ T = Len(t) /\ S <= T
  BY LenProperties
<1>2. m.Ns = Num(m.ns) /\ n <= S /\ (m.body # ZLB => n < S /\ m.body = s[n + 1])
  BY <1>1 DEF Numbered
<1>3. n <= T /\ (m.body # ZLB => n < T /\ n + 1 \in 1..S)
  BY <1>1, <1>2
<1>4. m.body # ZLB => m.body = t[n + 1]
  BY <1>1, <1>2, <1>3
<1>5. QED
  BY <1>1, <1>2, <1>3, <1>4 DEF Numbered

(* What was taken for sending and not withdrawn.                           *)
Acc(c) == c.sent \o c.send_queue

FullOk(c) == c.send_queue # <<>> => Len(c.rtms_queue) = Window

(* The window is filled as far as there are messages.                      *)
LEMMA SendableFacts ==
    ASSUME NEW c \in Conn, NEW L \in Nat, L = Len(c.send_queue), NEW S \in Nat, NEW a \in Nat,
           c.Ns = Num(S), c.peer_Nr = Num(a), a <= S, S <= a + Window
    PROVE  /\ Sendable(c) \in 0..L /\ S + Sendable(c) <= a + Window
           /\ Sendable(c) < L => S + Sendable(c) = a + Window
<1>1. PICK m \in Nat : m = a + Window /\ Plus(c.peer_Nr, Window) = Num(m) /\ S <= m
  <2>1. Window \in Nat /\ a + Window \in Nat
    BY HalfFacts
  <2>2. Plus(Num(a), Window) = Num(a + Window)
    BY <2>1, NumStep
  <2>3. QED
    BY <2>1, <2>2
<1>2. PICK K : K = {k \in 0..(L - 1) : nsnr_cmp(Plus(c.Ns, k), Num(m)) < 0}
  OBVIOUS
<1>3. ASSUME NEW k \in 0..(L - 1), S + k <= m PROVE k \in K <=> S + k < m
  <2>a. k \in Nat /\ S + k \in Nat
    OBVIOUS
  <2>b. Plus(Num(S), k) = Num(S + k)
    BY <2>a, NumStep
  <2>1. k \in Nat /\ S + k \in Nat /\ Plus(c.Ns, k) = Num(S + k)
    BY <2>a, <2>b
  <2>2. (S + k) - m <= Half /\ m - (S + k) < Half
    BY <1>1, <1>3, HalfFacts
  <2>3. nsnr_cmp(Num(S + k), Num(m)) = IF S + k = m THEN 0 ELSE IF S + k > m THEN 1 ELSE -1
    BY <2>1, <2>2, Compare
  <2>4. PICK x \in Nat : x = S + k
    BY <2>1
  <2>5. k \in K <=> nsnr_cmp(Num(x), Num(m)) < 0
    BY <1>2, <2>1, <2>4
  <2>6. QED
    BY <2>3, <2>4, <2>5
<1>4. PICK n \in 0..L : /\ n = Run(L, K) /\ (\A k \in 0..(n - 1) : k \in K) /\ (n < L => n \notin K)
  BY RunFacts
<1>5. n = Sendable(c)
  BY <1>1, <1>2, <1>4 DEF Sendable
<1>6. S + n <= m
  <2>1. SUFFICES ASSUME S + n > m PROVE FALSE
    BY <1>1
  <2>2. PICK k \in Nat : k = m - S
    BY <1>1
  <2>3. k \in 0..(n - 1) /\ k \in 0..(L - 1) /\ S + k <= m /\ ~(S + k < m)
    BY <2>1, <2>2
  <2>4. QED
    BY <1>3, <1>4, <2>3
<1>7. n < L => S + n = m
  <2>1. SUFFICES ASSUME n < L PROVE S + n = m
    OBVIOUS
  <2>2. n \in 0..(L - 1)
    BY <2>1
  <2>3. ~(S + n < m)
    BY <1>3, <1>4, <1>6, <2>1, <2>2
  <2>4. QED
    BY <1>6, <2>3
<1>8. QED
  BY <1>1, <1>5, <1>6, <1>7

(* What is sent has the numbers that follow Ns, and stays in its place.    *)
LEMMA PushOk ==
    ASSUME NEW c \in Conn, NEW s \in Seq(Nat), NEW r \in Nat, NEW a \in Nat,
           CoreOk(c, s, r, a), FlightOk(c, a), TimerOk(c),
           NEW d, d = l2tp_tunnel_push_sendqueue(c)
    PROVE  /\ d \in Conn /\ d.state = c.state /\ d.handed = c.handed /\ d.taken = c.taken
           /\ d.need_ack = c.need_ack /\ d.got = c.got /\ Acc(d) = Acc(c)
           /\ CoreOk(d, s, r, a) /\ FlightOk(d, a) /\ TimerOk(d) /\ FullOk(d) /\ Later(d, c)
<1>1. PICK q \in Seq(Nat), z \in Seq(Nat), x \in Seq(Message) :
         q = c.send_queue /\ z = c.sent /\ x = c.rtms_queue
  BY ConnFacts, Zenon
<1>2. PICK L \in Nat, S \in Nat, X \in Nat, g \in Nat, G \in Nat :
         L = Len(q) /\ S = Len(z) /\ X = Len(x) /\ g = c.got /\ G = Len(s)
  BY <1>1, ConnFacts, LenProperties
<1>3. /\ a <= r /\ r <= S /\ S <= a + Window /\ c.Ns = Num(S) /\ c.peer_Nr = Num(a)
      /\ c.Nr = Num(g) /\ g <= G /\ G <= g + Window
  BY <1>1, <1>2 DEF CoreOk
<1>4. PICK n \in 0..L : n = Sendable(c) /\ S + n <= a + Window /\ (n < L => S + n = a + Window)
  <2>1. a <= S /\ S <= a + Window /\ c.Ns = Num(S) /\ c.peer_Nr = Num(a) /\ L = Len(c.send_queue)
    BY <1>1, <1>2, <1>3
  <2>2. /\ Sendable(c) \in 0..L /\ S + Sendable(c) <= a + Window
        /\ Sendable(c) < L => S + Sendable(c) = a + Window
    BY <2>1, SendableFacts, Zenon
  <2>3. QED
    BY <2>2, Zenon
<1>5. ASSUME NEW k \in 0..n
      PROVE  S + k \in Nat /\ Plus(c.Ns, k) = Num(S + k) /\ Plus(c.Ns, k) \in Seqno
  <2>1. k \in Nat /\ S + k \in Nat
    OBVIOUS
  <2>2. Plus(Num(S), k) = Num(S + k) /\ Num(S + k) \in Seqno
    BY <2>1, NumStep, NumType
  <2>3. QED
    BY <1>3, <2>1, <2>2
<1>6. PICK new : new = [k \in 1..n |-> [Ns |-> Plus(c.Ns, k - 1), body |-> q[k], ns |-> S + k - 1]]
  OBVIOUS
<1>7. ASSUME NEW k \in 1..n
      PROVE  /\ new[k] \in Message /\ new[k].Ns = Num(S + k - 1) /\ new[k].ns = S + k - 1
             /\ new[k].body = q[k] /\ k \in 1..L /\ q[k] \in Nat
  <2>1. k - 1 \in 0..n /\ k \in 1..L /\ S + (k - 1) = S + k - 1
    OBVIOUS
  <2>2. PICK ns \in Seqno : ns = Plus(c.Ns, k - 1) /\ ns = Num(S + k - 1)
    BY <1>5, <2>1
  <2>3. q[k] \in Nat /\ S + k - 1 \in Nat
    BY <1>2, <1>5, <2>1, ElementOfSeq
  <2>4. new[k] = [Ns |-> ns, body |-> q[k], ns |-> S + k - 1]
    BY <1>6, <2>2
  <2>5. QED
    BY <2>1, <2>2, <2>3, <2>4 DEF Message
<1>8. new \in Seq(Message) /\ Len(new) = n
  <2>1. new \in [1..n -> Message] /\ n \in Nat
    BY <1>6, <1>7
  <2>2. QED
    BY <2>1, FunSeq, Zenon
<1>9. PICK first : first = SubSeq(q, 1, n)
  OBVIOUS
<1>10. first \in Seq(Nat) /\ Len(first) = n /\ \A i \in 1..n : first[i] = q[i]
  BY <1>2, <1>9, PrefixFacts
<1>11. PICK rest : rest = SubSeq(q, n + 1, Len(q))
  OBVIOUS
<1>12. rest \in Seq(Nat) /\ Len(rest) = L - n /\ \A i \in 1..(L - n) : rest[i] = q[n + i]
  <2>1. q \in Seq(Nat) /\ n \in 0..Len(q) /\ L = Len(q)
    BY <1>2
  <2>2. LET t == SubSeq(q, n + 1, Len(q))
        IN  t \in Seq(Nat) /\ Len(t) = Len(q) - n /\ \A i \in 1..(Len(q) - n) : t[i] = q[n + i]
    BY <2>1, SuffixFacts, Zenon
  <2>3. QED
    BY <1>11, <2>1, <2>2, Zenon
<1>13. PICK z1 : z1 = z \o first
  OBVIOUS
<1>14. /\ z1 \in Seq(Nat) /\ Len(z1) = S + n
       /\ \A i \in 1..S : z1[i] = z[i]
       /\ \A i \in 1..n : z1[S + i] = q[i]
  <2>f. z \in Seq(Nat) /\ first \in Seq(Nat)
    BY <1>10
  <2>1. /\ z1 \in Seq(Nat) /\ Len(z1) = Len(z) + Len(first)
        /\ \A i \in 1..Len(z) : z1[i] = z[i] /\ i \in 1..Len(z1)
        /\ \A i \in 1..Len(first) : z1[Len(z) + i] = first[i] /\ Len(z) + i \in 1..Len(z1)
    BY <1>13, <2>f, JoinFacts
  <2>2. QED
    BY <1>2, <1>10, <2>1
<1>15. PICK x1 : x1 = x \o new
  OBVIOUS
<1>16. /\ x1 \in Seq(Message) /\ Len(x1) = X + n
       /\ \A i \in 1..X : x1[i] = x[i]
       /\ \A i \in 1..n : x1[X + i] = new[i]
  <2>f. x \in Seq(Message) /\ new \in Seq(Message)
    BY <1>8
  <2>1. /\ x1 \in Seq(Message) /\ Len(x1) = Len(x) + Len(new)
        /\ \A i \in 1..Len(x) : x1[i] = x[i] /\ i \in 1..Len(x1)
        /\ \A i \in 1..Len(new) : x1[Len(x) + i] = new[i] /\ Len(x) + i \in 1..Len(x1)
    BY <1>15, <2>f, JoinFacts
  <2>2. QED
    BY <1>2, <1>8, <2>1
<1>17. PICK o : o = {[Ns |-> new[k].Ns, Nr |-> c.Nr, body |-> new[k].body, ns |-> new[k].ns,
                      nr |-> c.got] : k \in 1..n}
  OBVIOUS
<1>18. ASSUME NEW p \in o
       PROVE  /\ p \in Datagram /\ Numbered(p, z1) /\ p.Nr = Num(p.nr) /\ p.nr = g /\ a <= p.ns
  <2>1. PICK k \in 1..n : p = [Ns |-> new[k].Ns, Nr |-> c.Nr, body |-> new[k].body,
                               ns |-> new[k].ns, nr |-> c.got]
    BY <1>17
  <2>2. PICK i \in Nat : i = S + k - 1 /\ i < S + n /\ a <= i /\ i + 1 = S + k
    BY <1>3
  <2>3. /\ new[k].Ns = Num(i) /\ new[k].ns = i /\ new[k].body = q[k] /\ q[k] \in Nat
        /\ Num(i) \in Seqno
    BY <1>7, <2>2, NumType
  <2>4. c.Nr \in Seqno /\ c.got \in Nat
    BY ConnFacts, Zenon
  <2>5. p.Ns = Num(i) /\ p.ns = i /\ p.body = q[k] /\ p.Nr = c.Nr /\ p.nr = g /\ p \in Datagram
    BY <1>2, <2>1, <2>3, <2>4 DEF Datagram
  <2>6. q[k] = z1[i + 1]
    BY <1>14, <2>2
  <2>7. Numbered(p, z1)
    BY <1>14, <2>2, <2>5, <2>6 DEF Numbered
  <2>8. QED
    BY <1>3, <2>2, <2>5, <2>7
<1>19. PICK ns \in Seqno : ns = Plus(c.Ns, n) /\ ns = Num(S + n)
  <2>1. n \in 0..n
    OBVIOUS
  <2>2. QED
    BY <1>5, <2>1
<1>20. PICK t \in BOOLEAN : t = (c.rtimeout_timer \/ n > 0)
  OBVIOUS
<1>21. PICK o1 \in SUBSET Datagram : o1 = c.out \cup o
  BY <1>18, ConnFacts
<1>22. d = [c EXCEPT !.out = o1, !.rtms_queue = x1, !.send_queue = rest,
                     !.Ns = ns, !.rtimeout_timer = t, !.sent = z1]
  BY <1>1, <1>2, <1>4, <1>6, <1>9, <1>11, <1>13, <1>15, <1>17, <1>19, <1>20, <1>21
     DEF l2tp_tunnel_push_sendqueue
<1>23. /\ d \in Conn /\ d.state = c.state /\ d.out = o1 /\ d.Ns = ns /\ d.Nr = c.Nr
       /\ d.peer_Nr = c.peer_Nr /\ d.send_queue = rest /\ d.rtms_queue = x1
       /\ d.recv_queue_offt = c.recv_queue_offt /\ d.recv_queue = c.recv_queue
       /\ d.sent = z1 /\ d.got = c.got /\ d.handed = c.handed /\ d.rtimeout_timer = t
       /\ d.taken = c.taken /\ d.need_ack = c.need_ack
  <2>1. rest \in Seq(Nat) /\ x1 \in Seq(Message) /\ z1 \in Seq(Nat)
    BY <1>12, <1>14, <1>16
  <2>2. d \in Conn
    BY <1>22, <2>1, ZenonT(60) DEF Conn
  <2>3. /\ d.state = c.state /\ d.out = o1 /\ d.Ns = ns /\ d.Nr = c.Nr
        /\ d.peer_Nr = c.peer_Nr /\ d.send_queue = rest /\ d.rtms_queue = x1
        /\ d.recv_queue_offt = c.recv_queue_offt /\ d.recv_queue = c.recv_queue
        /\ d.sent = z1 /\ d.got = c.got /\ d.handed = c.handed /\ d.rtimeout_timer = t
        /\ d.taken = c.taken /\ d.need_ack = c.need_ack
    BY <1>22 DEF Conn
  <2>4. QED
    BY <2>2, <2>3
<1>24. Acc(d) = Acc(c)
  <2>1. PICK u : u = z1 \o rest
    OBVIOUS
  <2>2. PICK v : v = z \o q
    OBVIOUS
  <2>3. PICK m \in Nat : m = L - n
    OBVIOUS
  <2>4. /\ u \in Seq(Nat) /\ Len(u) = S + n + m
        /\ \A i \in 1..(S + n) : u[i] = z1[i]
        /\ \A i \in 1..m : u[S + n + i] = rest[i]
    <3>1. z1 \in Seq(Nat) /\ rest \in Seq(Nat)
      BY <1>12, <1>14
    <3>2. /\ u \in Seq(Nat) /\ Len(u) = Len(z1) + Len(rest)
          /\ \A i \in 1..Len(z1) : u[i] = z1[i] /\ i \in 1..Len(u)
          /\ \A i \in 1..Len(rest) : u[Len(z1) + i] = rest[i] /\ Len(z1) + i \in 1..Len(u)
      <4>1. PICK y1 \in Seq(Nat), y2 \in Seq(Nat) : y1 = z1 /\ y2 = rest /\ u = y1 \o y2
        BY <2>1, <3>1
      <4>2. /\ u \in Seq(Nat) /\ Len(u) = Len(y1) + Len(y2)
            /\ \A i \in 1..Len(y1) : u[i] = y1[i] /\ i \in 1..Len(u)
            /\ \A i \in 1..Len(y2) : u[Len(y1) + i] = y2[i] /\ Len(y1) + i \in 1..Len(u)
        BY <4>1, JoinFacts
      <4>3. QED
        BY <4>1, <4>2
    <3>3. Len(z1) = S + n /\ Len(rest) = m
      BY <1>12, <1>14, <2>3
    <3>4. QED
      BY <3>2, <3>3
  <2>5. /\ v \in Seq(Nat) /\ Len(v) = S + L
        /\ \A i \in 1..S : v[i] = z[i]
        /\ \A i \in 1..L : v[S + i] = q[i]
    <3>1. /\ v \in Seq(Nat) /\ Len(v) = Len(z) + Len(q)
          /\ \A i \in 1..Len(z) : v[i] = z[i] /\ i \in 1..Len(v)
          /\ \A i \in 1..Len(q) : v[Len(z) + i] = q[i] /\ Len(z) + i \in 1..Len(v)
      BY <2>2, JoinFacts
    <3>2. QED
      BY <1>2, <3>1
  <2>6. ASSUME NEW i \in 1..(S + L) PROVE u[i] = v[i]
    <3>1. CASE i \in 1..S
      <4>1. i \in 1..(S + n)
        BY <3>1
      <4>2. QED
        BY <1>14, <2>4, <2>5, <3>1, <4>1
    <3>2. CASE i \in (S + 1)..(S + n)
      <4>1. PICK k \in 1..n : i = S + k /\ k \in 1..L /\ S + k \in 1..(S + n)
        BY <3>2
      <4>2. QED
        BY <1>14, <2>4, <2>5, <4>1
    <3>3. CASE i \in (S + n + 1)..(S + L)
      <4>1. PICK k \in 1..m : i = S + n + k /\ n + k \in 1..L /\ S + n + k = S + (n + k)
        BY <2>3, <3>3
      <4>2. rest[k] = q[n + k]
        BY <1>12, <2>3
      <4>3. u[i] = q[n + k]
        BY <2>4, <4>1, <4>2
      <4>4. v[S + (n + k)] = q[n + k]
        BY <2>5, <4>1
      <4>5. QED
        BY <4>1, <4>3, <4>4
    <3>4. QED
      BY <3>1, <3>2, <3>3
  <2>7. Len(u) = S + L
    BY <2>3, <2>4
  <2>8. u = v
    BY <2>4, <2>5, <2>6, <2>7, SeqEqual
  <2>9. QED
    BY <1>1, <1>23, <2>1, <2>2, <2>8 DEF Acc
<1>25. Later(d, c)
  <2>1. Len(c.handed) \in Nat /\ c.got \in Nat
    BY ConnFacts, Zenon
  <2>2. QED
    BY <1>1, <1>2, <1>14, <1>23, <2>1 DEF Later
<1>26. OutOk(d, s, a)
  <2>1. ASSUME NEW p \in o1
        PROVE  /\ Numbered(p, z1) /\ p.Nr = Num(p.nr)
               /\ a <= p.ns /\ p.nr <= g /\ G <= p.nr + Window
    <3>1. CASE p \in o
      BY <1>3, <1>18, <3>1
    <3>2. CASE p \in c.out
      <4>1. /\ Numbered(p, z) /\ p.Nr = Num(p.nr)
            /\ a <= p.ns /\ p.nr <= g /\ G <= p.nr + Window
        BY <1>1, <1>2, <3>2 DEF CoreOk, OutOk
      <4>2. p \in Datagram
        BY <3>2, ConnFacts
      <4>3. PICK m \in Nat : m = p.ns
        BY <4>2 DEF Datagram
      <4>4. Len(z) <= Len(z1) /\ \A i \in 1..Len(z) : z1[i] = z[i]
        BY <1>2, <1>14
      <4>5. Numbered(p, z1)
        BY <1>14, <4>1, <4>3, <4>4, NumberedMore
      <4>6. QED
        BY <4>1, <4>5
    <3>3. QED
      BY <1>21, <3>1, <3>2
  <2>2. QED
    BY <1>2, <1>23, <2>1 DEF OutOk
<1>27. CoreOk(d, s, r, a)
  <2>1. HandedOk(d, s) /\ RingOk(d, d.got, s)
    BY <1>23 DEF CoreOk, HandedOk, RingOk
  <2>2. r <= S + n
    BY <1>3
  <2>3. QED
    BY <1>2, <1>3, <1>4, <1>14, <1>19, <1>23, <1>26, <2>1, <2>2 DEF CoreOk
<1>28. FlightOk(d, a)
  <2>1. SUFFICES ASSUME c.state # "CLOSE" PROVE FlightOk(d, a)
    BY <1>23 DEF FlightOk
  <2>2. /\ S = a + X
        /\ \A i \in 1..X : x[i].ns = a + i - 1 /\ x[i].Ns = Num(a + i - 1) /\ x[i].body = z[a + i]
    BY <1>1, <1>2, <2>1 DEF FlightOk
  <2>3. ASSUME NEW i \in 1..(X + n)
        PROVE  x1[i].ns = a + i - 1 /\ x1[i].Ns = Num(a + i - 1) /\ x1[i].body = z1[a + i]
    <3>1. CASE i \in 1..X
      <4>1. a + i \in 1..S
        BY <2>2, <3>1
      <4>2. QED
        BY <1>14, <1>16, <2>2, <3>1, <4>1
    <3>2. CASE i \notin 1..X
      <4>1. PICK k \in 1..n : i = X + k
        BY <3>2
      <4>2. S + k - 1 = a + i - 1 /\ S + k = a + i
        BY <2>2, <4>1
      <4>3. x1[i] = new[k] /\ z1[a + i] = q[k]
        BY <1>14, <1>16, <4>1, <4>2
      <4>4. QED
        BY <1>7, <4>2, <4>3
    <3>3. QED
      BY <3>1, <3>2
  <2>4. S + n = a + (X + n)
    BY <2>2
  <2>5. QED
    BY <1>14, <1>16, <1>23, <2>3, <2>4 DEF FlightOk
<1>29. TimerOk(d)
  <2>1. c.rtimeout_timer \in BOOLEAN /\ (c.rtimeout_timer <=> x # <<>>)
    BY <1>1, ConnFacts DEF TimerOk
  <2>2. x = <<>> <=> X = 0
    BY <1>2, EmptySeq
  <2>3. x1 = <<>> <=> X + n = 0
    BY <1>16, EmptySeq
  <2>4. t <=> x1 # <<>>
    <3>1. X + n = 0 <=> X = 0 /\ ~(n > 0)
      OBVIOUS
    <3>2. QED
      BY <1>20, <2>1, <2>2, <2>3, <3>1, Zenon
  <2>5. c.state = "CLOSE" => X = 0 /\ n = 0 /\ L - n = 0
    <3>1. c.state = "CLOSE" => x = <<>> /\ q = <<>>
      BY <1>1 DEF TimerOk
    <3>2. q = <<>> <=> L = 0
      BY <1>2, EmptySeq
    <3>3. QED
      BY <2>2, <3>1, <3>2
  <2>6. rest = <<>> <=> L - n = 0
    BY <1>12, EmptySeq
  <2>7. QED
    BY <1>23, <2>3, <2>4, <2>5, <2>6 DEF TimerOk
<1>30. FullOk(d)
  <2>1. SUFFICES ASSUME rest # <<>> PROVE X + n = Window
    BY <1>16, <1>23 DEF FullOk
  <2>2. n < L
    <3>1. Len(rest) \in Nat \ {0}
      BY <1>12, <2>1, EmptySeq
    <3>2. QED
      BY <1>12, <3>1
  <2>3. c.state # "CLOSE"
    <3>1. SUFFICES ASSUME c.state = "CLOSE" PROVE FALSE
      OBVIOUS
    <3>2. q = <<>>
      BY <1>1, <3>1 DEF TimerOk
    <3>3. L = 0
      BY <1>2, <3>2, EmptySeq
    <3>4. QED
      BY <2>2, <3>3
  <2>4. S = a + X
    BY <1>1, <1>2, <2>3 DEF FlightOk
  <2>5. S + n = a + Window
    BY <1>4, <2>2
  <2>6. QED
    BY <2>4, <2>5, HalfFacts
<1>31. QED
  BY <1>23, <1>24, <1>25, <1>27, <1>28, <1>29, <1>30

LEMMA JoinNat ==
    ASSUME NEW q \in Seq(Nat), NEW t \in Seq(Nat), NEW u, u = q \o t
    PROVE  /\ u \in Seq(Nat) /\ Len(u) = Len(q) + Len(t)
           /\ \A i \in 1..Len(q) : u[i] = q[i] /\ i \in 1..Len(u)
           /\ \A i \in 1..Len(t) : u[Len(q) + i] = t[i] /\ Len(q) + i \in 1..Len(u)
BY JoinFacts

(* What is next in sequence is what follows the messages taken so far.     *)
LEMMA InSequenceOk ==
    ASSUME NEW c \in Conn, NEW s \in Seq(Nat), NEW g \in Nat, g <= Len(s), RingOk(c, g, s)
    PROVE  \E n \in 0..Window :
              /\ InSequence(c) \in Seq(Nat) /\ Len(InSequence(c)) = n /\ g + n <= Len(s)
              /\ \A k \in 1..n : InSequence(c)[k] = s[g + k]
<1> DEFINE At(k) == c.recv_queue[(c.recv_queue_offt + k) % Window]
<1>1. PICK n : n = Run(Window, {k \in 0..(Window - 1) : At(k) # None})
  OBVIOUS
<1>2. n \in 0..Window /\ \A k \in 0..(n - 1) : k \in 0..(Window - 1) /\ At(k) # None
  BY <1>1, RunFacts, HalfFacts
<1>g. PICK G \in Nat : G = Len(s)
  BY LenProperties
<1>3. \A k \in 0..(n - 1) : g + k + 1 <= G /\ At(k) = s[g + k + 1]
  BY <1>2, <1>g DEF RingOk
<1>4. InSequence(c) = [k \in 1..n |-> At(k - 1)]
  BY <1>1 DEF InSequence
<1> HIDE DEF At
<1>5. ASSUME NEW k \in 1..n PROVE At(k - 1) = s[g + k] /\ g + k \in 1..G
  <2>1. k - 1 \in 0..(n - 1) /\ g + (k - 1) + 1 = g + k
    BY <1>2, HalfFacts
  <2>2. QED
    BY <1>3, <2>1
<1>6. PICK m \in Nat : m = n
  BY <1>2, HalfFacts
<1>7. PICK q : q = [k \in 1..m |-> At(k - 1)]
  OBVIOUS
<1>8. \A k \in 1..m : q[k] = s[g + k] /\ q[k] \in Nat
  BY <1>5, <1>6, <1>7, <1>g, ElementOfSeq
<1>9. q \in Seq(Nat) /\ Len(q) = m
  <2>1. q \in [1..m -> Nat]
    BY <1>7, <1>8
  <2>2. QED
    BY <2>1, FunSeq, Zenon
<1>10. g + m <= G
  <2>1. CASE m = 0
    BY <1>g, <2>1
  <2>2. CASE m # 0
    <3>1. m \in 1..n
      BY <1>6, <2>2
    <3>2. g + m \in 1..G
      BY <1>5, <1>6, <3>1
    <3>3. QED
      BY <3>2
  <2>3. QED
    BY <2>1, <2>2
<1>11. InSequence(c) = q
  BY <1>4, <1>6, <1>7
<1>12. QED
  BY <1>2, <1>6, <1>8, <1>9, <1>10, <1>11, <1>g

(* Taking messages out of the ring moves its offset past them; those that  *)
(* are processed are the next ones.                                        *)
LEMMA DequeueOk ==
    ASSUME NEW c \in Conn, NEW s \in Seq(Nat), NEW r \in Nat, NEW a \in Nat,
           CoreOk(c, s, r, a), FlightOk(c, a), TimerOk(c),
           NEW n \in 0..Window, c.got + n <= Len(s), c.state = "ESTB" => n <= Len(InSequence(c)),
           NEW d, d = Dequeued(c, n)
    PROVE  /\ d \in Conn /\ d.state = c.state /\ d.out = c.out /\ d.sent = c.sent
           /\ d.send_queue = c.send_queue /\ d.taken = c.taken /\ d.need_ack = c.need_ack
           /\ d.got = c.got + n
           /\ CoreOk(d, s, r, a) /\ FlightOk(d, a) /\ TimerOk(d) /\ Later(d, c)
<1>1. PICK q \in [0..(Window - 1) -> Int], o \in 0..(Window - 1), g \in Nat, G \in Nat, H \in Nat,
           z \in Seq(Nat) :
         /\ q = c.recv_queue /\ o = c.recv_queue_offt /\ g = c.got /\ G = Len(s) /\ z = c.handed
         /\ H = Len(z)
  <2>1. /\ c.recv_queue \in [0..(Window - 1) -> Int] /\ c.recv_queue_offt \in 0..(Window - 1)
        /\ c.got \in Nat /\ c.handed \in Seq(Nat) /\ Len(c.handed) \in Nat
    BY ConnFacts, Zenon
  <2>2. Len(s) \in Nat
    BY LenProperties
  <2>3. QED
    BY <2>1, <2>2, Zenon
<1>w. Window \in Nat \ {0} /\ n \in Nat /\ g + n \in Nat /\ g + n <= G
  BY <1>1, HalfFacts
<1>c. /\ g <= G /\ G <= g + Window /\ c.Nr = Num(g) /\ H <= g /\ (c.state = "ESTB" => H = g)
      /\ \A i \in 1..H : z[i] = s[i]
  BY <1>1 DEF CoreOk, HandedOk
<1>3. PICK w : w = [i \in 0..(Window - 1) |-> IF (i - o) % Window < n THEN None ELSE q[i]]
  OBVIOUS
<1>4. w \in [0..(Window - 1) -> Int]
  BY <1>3 DEF None
<1>5. PICK p \in 0..(Window - 1) :
        p = (o + n) % Window /\ p = IF o + n < Window THEN o + n ELSE o + n - Window
  BY RingStart
<1>7. PICK nr \in Seqno : nr = Plus(c.Nr, n) /\ nr = Num(g + n)
  <2>1. Plus(Num(g), n) = Num(g + n) /\ Num(g + n) \in Seqno
    BY <1>w, NumStep, NumType
  <2>2. QED
    BY <1>c, <2>1
<1>8. PICK z1 : z1 = IF c.state = "ESTB" THEN z \o SubSeq(InSequence(c), 1, n) ELSE z
  OBVIOUS
<1>9. /\ z1 \in Seq(Nat) /\ (c.state # "ESTB" => z1 = z)
      /\ Len(z1) = (IF c.state = "ESTB" THEN g + n ELSE H)
      /\ \A i \in 1..Len(z1) : z1[i] = s[i]
  <2>1. CASE c.state # "ESTB"
    BY <1>1, <1>8, <1>c, <2>1
  <2>2. CASE c.state = "ESTB"
    <3>1. PICK N \in 0..Window, x \in Seq(Nat) :
             /\ x = InSequence(c) /\ Len(x) = N /\ \A k \in 1..N : x[k] = s[g + k]
      <4>1. g <= Len(s) /\ RingOk(c, g, s)
        BY <1>1 DEF CoreOk
      <4>2. \E N \in 0..Window :
              /\ InSequence(c) \in Seq(Nat) /\ Len(InSequence(c)) = N /\ g + N <= Len(s)
              /\ \A k \in 1..N : InSequence(c)[k] = s[g + k]
        BY <4>1, InSequenceOk
      <4>3. QED
        BY <4>2
    <3>2. n \in 0..Len(x)
      BY <1>w, <2>2, <3>1
    <3>3. PICK y \in Seq(Nat) : y = SubSeq(x, 1, n) /\ Len(y) = n /\ \A i \in 1..n : y[i] = x[i] /\ i \in 1..N
      <4>1. PICK y : y = SubSeq(x, 1, n)
        OBVIOUS
      <4>2. y \in Seq(Nat) /\ Len(y) = n /\ \A i \in 1..n : y[i] = x[i] /\ i \in 1..Len(x)
        BY <3>2, <4>1, PrefixFacts
      <4>3. QED
        BY <3>1, <4>1, <4>2
    <3>4. z1 = z \o y
      BY <1>8, <2>2, <3>1, <3>3
    <3>5. /\ z1 \in Seq(Nat) /\ Len(z1) = Len(z) + Len(y)
          /\ \A i \in 1..Len(z) : z1[i] = z[i] /\ i \in 1..Len(z1)
          /\ \A i \in 1..Len(y) : z1[Len(z) + i] = y[i] /\ Len(z) + i \in 1..Len(z1)
      BY <3>4, JoinNat, SMTT(30)
    <3>6. Len(z) = g /\ Len(y) = n /\ H = g
      BY <1>1, <1>c, <2>2, <3>3
    <3>7. ASSUME NEW i \in 1..(g + n) PROVE z1[i] = s[i]
      <4>1. CASE i \in 1..g
        BY <1>c, <3>5, <3>6, <4>1
      <4>2. CASE i \notin 1..g
        <5>1. PICK k \in 1..n : i = g + k
          BY <1>w, <4>2
        <5>2. z1[g + k] = y[k]
          BY <3>5, <3>6
        <5>3. QED
          BY <3>1, <3>3, <5>1, <5>2
      <4>3. QED
        BY <4>1, <4>2
    <3>8. QED
      BY <2>2, <3>5, <3>6, <3>7
  <2>3. QED
    BY <2>1, <2>2
<1>10. d = [c EXCEPT !.recv_queue = w, !.recv_queue_offt = p, !.Nr = nr, !.got = g + n, !.handed = z1]
  BY <1>1, <1>3, <1>5, <1>7, <1>8 DEF Dequeued
<1>11. /\ d \in Conn /\ d.state = c.state /\ d.out = c.out /\ d.Ns = c.Ns /\ d.Nr = nr
       /\ d.peer_Nr = c.peer_Nr /\ d.send_queue = c.send_queue /\ d.rtms_queue = c.rtms_queue
       /\ d.recv_queue_offt = p /\ d.recv_queue = w /\ d.sent = c.sent /\ d.got = g + n
       /\ d.handed = z1 /\ d.rtimeout_timer = c.rtimeout_timer /\ d.taken = c.taken
       /\ d.need_ack = c.need_ack
  <2>1. z1 \in Seq(Nat)
    BY <1>9
  <2>2. QED
    BY <1>4, <1>w, <1>10, <2>1, ZenonT(60) DEF Conn
<1>12. ASSUME NEW k \in 0..(Window - 1)
       PROVE  LET m == w[(p + k) % Window]
              IN  m = None \/ ((g + n) + k + 1 <= G /\ m = s[(g + n) + k + 1])
  <2>1. PICK j \in 0..(Window - 1) : j = IF n + k < Window THEN n + k ELSE n + k - Window
    BY RingNext
  <2>2. PICK p2 \in 0..(Window - 1) : p2 = p /\ p2 = IF o + n < Window THEN o + n ELSE o + n - Window
    BY <1>5
  <2>3. (p + k) % Window = (o + j) % Window
    BY <2>1, <2>2, RingShift
  <2>4. PICK i \in 0..(Window - 1) : i = (o + j) % Window /\ i = (p + k) % Window
    BY <2>3, RingFacts
  <2>5. (i - o) % Window = j
    BY <2>4, RingBack
  <2>6. w[i] = IF j < n THEN None ELSE q[i]
    BY <1>3, <2>5
  <2>7. q[i] = None \/ (g + j + 1 <= G /\ q[i] = s[g + j + 1])
    BY <1>1, <2>4 DEF CoreOk, RingOk
  <2>8. j < n \/ g + j + 1 = (g + n) + k + 1
    BY <2>1, HalfFacts
  <2>9. w[i] = None \/ ((g + n) + k + 1 <= G /\ w[i] = s[(g + n) + k + 1])
    BY <2>6, <2>7, <2>8
  <2>10. QED
    BY <2>4, <2>9
<1>13. RingOk(d, d.got, s)
  BY <1>1, <1>11, <1>12 DEF RingOk
<1>14. HandedOk(d, s)
  <2>1. H <= g + n
    BY <1>c, <1>w
  <2>2. PICK H1 \in Nat : H1 = Len(z1) /\ H1 <= g + n /\ (c.state = "ESTB" => H1 = g + n)
    BY <1>9, <1>w, <2>1
  <2>3. QED
    BY <1>9, <1>11, <2>2 DEF HandedOk
<1>15. OutOk(d, s, a)
  <2>1. ASSUME NEW x \in c.out
        PROVE  /\ Numbered(x, c.sent) /\ x.Nr = Num(x.nr)
               /\ a <= x.ns /\ x.nr <= g + n /\ Len(s) <= x.nr + Window
    <3>1. /\ Numbered(x, c.sent) /\ x.Nr = Num(x.nr)
          /\ a <= x.ns /\ x.nr <= g /\ Len(s) <= x.nr + Window
      BY <1>1 DEF CoreOk, OutOk
    <3>2. x.nr \in Nat
      BY ConnFacts DEF Datagram
    <3>3. QED
      BY <1>w, <3>1, <3>2
  <2>2. QED
    BY <1>11, <2>1 DEF OutOk
<1>16. CoreOk(d, s, r, a)
  <2>1. g + n <= Len(s) /\ Len(s) <= g + n + Window
    BY <1>1, <1>c, <1>w
  <2>2. QED
    BY <1>7, <1>11, <1>13, <1>14, <1>15, <2>1 DEF CoreOk
<1>17. FlightOk(d, a) /\ TimerOk(d)
  BY <1>11, ZenonT(60) DEF FlightOk, TimerOk
<1>18. Later(d, c)
  <2>1. Len(c.sent) \in Nat
    BY ConnFacts, Zenon
  <2>2. H <= Len(z1) /\ g <= g + n
    BY <1>9, <1>c, <1>w
  <2>3. QED
    BY <1>1, <1>9, <1>11, <2>1, <2>2 DEF Later
<1>19. QED
  BY <1>1, <1>11, <1>16, <1>17, <1>18

-----------------------------------------------------------------------------
(* What a handler does to the queue of an end.                             *)

Messages == UNION {Bodies(x) : x \in Ends}

(* t is what a handler leaves of the messages s: none of the first h is    *)
(* withdrawn, and messages are added only where it may.                    *)
Requeued(t, s, h, may) ==
    \E n \in 0..Len(t) :
        /\ Fifo!Left(SubSeq(t, 1, n), s, h)
        /\ \A i \in (n + 1)..Len(t) : t[i] \in Messages
        /\ may \/ n = Len(t)

LEMMA KeptFacts ==
    ASSUME NEW q \in Seq(Nat), NEW p \in Selections(Len(q))
    PROVE  \E N \in Nat :
              /\ p \in [1..N -> 1..Len(q)] /\ \A i, j \in 1..N : i < j => p[i] < p[j]
              /\ Kept(q, p) \in Seq(Nat) /\ Len(Kept(q, p)) = N
              /\ \A i \in 1..N : Kept(q, p)[i] = q[p[i]]
<1>1. PICK L \in Nat : L = Len(q)
  BY LenProperties
<1>2. PICK N \in 0..L : p \in [1..N -> 1..L] /\ \A i, j \in DOMAIN p : i < j => p[i] < p[j]
  BY <1>1 DEF Selections
<1>3. DOMAIN p = 1..N /\ N \in Nat
  BY <1>2
<1>4. PICK k : k = [i \in 1..N |-> q[p[i]]]
  OBVIOUS
<1>5. k \in [1..N -> Nat]
  BY <1>1, <1>2, <1>4, ElementOfSeq
<1>6. k \in Seq(Nat) /\ Len(k) = N
  BY <1>3, <1>5, FunSeq, Zenon
<1>7. k = Kept(q, p)
  BY <1>3, <1>4 DEF Kept
<1>8. QED
  BY <1>1, <1>2, <1>3, <1>4, <1>6, <1>7

(* u holds the N messages of q that p selects, and one more if it may.     *)
Chosen(u, q, p, N, may) ==
    /\ p \in [1..N -> 1..Len(q)] /\ \A i, j \in 1..N : i < j => p[i] < p[j]
    /\ Len(u) = N \/ Len(u) = N + 1
    /\ \A i \in 1..N : u[i] = q[p[i]]
    /\ Len(u) = N + 1 => may /\ u[N + 1] \in Messages

LEMMA RequeueOk ==
    ASSUME NEW z \in Seq(Nat), NEW q \in Seq(Nat), NEW u \in Seq(Nat), NEW N \in Nat, NEW p,
           NEW may \in BOOLEAN, Chosen(u, q, p, N, may)
    PROVE  Requeued(z \o u, z \o q, Len(z), may)
<1>0. /\ p \in [1..N -> 1..Len(q)] /\ \A i, j \in 1..N : i < j => p[i] < p[j]
      /\ Len(u) = N \/ Len(u) = N + 1
      /\ \A i \in 1..N : u[i] = q[p[i]]
      /\ Len(u) = N + 1 => may /\ u[N + 1] \in Messages
  BY DEF Chosen
<1> USE <1>0
<1>1. PICK S \in Nat, L \in Nat, U \in Nat : S = Len(z) /\ L = Len(q) /\ U = Len(u)
  BY LenProperties
<1>2. PICK v : v = z \o u
  OBVIOUS
<1>3. PICK y : y = z \o q
  OBVIOUS
<1>4. /\ v \in Seq(Nat) /\ Len(v) = S + U
      /\ (\A i \in 1..S : v[i] = z[i]) /\ (\A i \in 1..U : v[S + i] = u[i])
  <2>1. /\ v \in Seq(Nat) /\ Len(v) = Len(z) + Len(u)
        /\ \A i \in 1..Len(z) : v[i] = z[i] /\ i \in 1..Len(v)
        /\ \A i \in 1..Len(u) : v[Len(z) + i] = u[i] /\ Len(z) + i \in 1..Len(v)
    BY <1>2, JoinNat, SMTT(30)
  <2>2. QED
    BY <1>1, <2>1
<1>5. /\ y \in Seq(Nat) /\ Len(y) = S + L
      /\ (\A i \in 1..S : y[i] = z[i]) /\ (\A i \in 1..L : y[S + i] = q[i])
  <2>1. /\ y \in Seq(Nat) /\ Len(y) = Len(z) + Len(q)
        /\ \A i \in 1..Len(z) : y[i] = z[i] /\ i \in 1..Len(y)
        /\ \A i \in 1..Len(q) : y[Len(z) + i] = q[i] /\ Len(z) + i \in 1..Len(y)
    BY <1>3, JoinNat, SMTT(30)
  <2>2. QED
    BY <1>1, <2>1
<1>6. PICK n \in 0..(S + U) : n = S + N
  BY <1>1
<1>7. PICK t \in Seq(Nat) : t = SubSeq(v, 1, n) /\ Len(t) = n /\ \A i \in 1..n : t[i] = v[i]
  <2>1. PICK t : t = SubSeq(v, 1, n)
    OBVIOUS
  <2>2. n \in 0..Len(v) /\ v \in Seq(Nat)
    BY <1>4
  <2>3. t \in Seq(Nat) /\ Len(t) = n /\ \A i \in 1..n : t[i] = v[i] /\ i \in 1..Len(v)
    BY <2>1, <2>2, PrefixFacts
  <2>4. QED
    BY <2>1, <2>3
<1>8. PICK P : P = [i \in 1..n |-> IF i <= S THEN i ELSE S + p[i - S]]
  OBVIOUS
<1>9. ASSUME NEW i \in 1..n, i > S
      PROVE  i - S \in 1..N /\ p[i - S] \in 1..L /\ P[i] = S + p[i - S] /\ S + (i - S) = i
  <2>1. i - S \in 1..N /\ S + (i - S) = i /\ ~(i <= S)
    BY <1>6, <1>9
  <2>2. p[i - S] \in 1..L
    BY <1>1, <2>1
  <2>3. QED
    BY <1>8, <2>1, <2>2
<1>10. ASSUME NEW i \in 1..n, i <= S PROVE P[i] = i
  BY <1>8, <1>10
<1>11. P \in [1..n -> 1..(S + L)]
  <2>1. ASSUME NEW i \in 1..n PROVE P[i] \in 1..(S + L)
    <3>1. CASE i <= S
      BY <1>10, <3>1
    <3>2. CASE i > S
      <4>1. PICK k \in 1..L : P[i] = S + k
        BY <1>9, <3>2
      <4>2. QED
        BY <4>1
    <3>3. QED
      BY <3>1, <3>2
  <2>2. QED
    BY <1>8, <2>1
<1>12. ASSUME NEW i \in 1..n, NEW j \in 1..n, i < j PROVE P[i] < P[j]
  <2>1. CASE j <= S
    <3>1. i <= S
      BY <1>12, <2>1
    <3>2. QED
      BY <1>10, <1>12, <2>1, <3>1
  <2>2. CASE j > S /\ i <= S
    <3>1. PICK k \in 1..L : P[j] = S + k
      BY <1>9, <2>2
    <3>2. QED
      BY <1>10, <2>2, <3>1
  <2>3. CASE j > S /\ i > S
    <3>a. i - S \in 1..N /\ j - S \in 1..N
      BY <1>9, <2>3
    <3>b. i - S < j - S
      BY <1>12
    <3>1. PICK k \in 1..N, l \in 1..N : k = i - S /\ l = j - S /\ k < l
      BY <3>a, <3>b
    <3>2. P[i] = S + p[k] /\ P[j] = S + p[l] /\ p[k] \in 1..L /\ p[l] \in 1..L /\ p[k] < p[l]
      BY <1>9, <2>3, <3>1
    <3>3. QED
      BY <3>2
  <2>4. QED
    BY <2>1, <2>2, <2>3
<1>13. ASSUME NEW i \in 1..n PROVE t[i] = y[P[i]]
  <2>1. CASE i <= S
    <3>1. i \in 1..S
      BY <2>1
    <3>2. QED
      BY <1>4, <1>5, <1>7, <1>10, <2>1, <3>1
  <2>2. CASE i > S
    <3>1. PICK k \in 1..N : i = S + k /\ P[i] = S + p[k] /\ p[k] \in 1..L
      BY <1>9, <2>2
    <3>2. k \in 1..U
      BY <1>1
    <3>3. v[i] = u[k] /\ y[P[i]] = q[p[k]]
      BY <1>4, <1>5, <3>1, <3>2
    <3>4. QED
      BY <1>7, <3>3
  <2>3. QED
    BY <2>1, <2>2
<1>14. Fifo!Left(t, y, S)
  <2>1. n >= S
    BY <1>6
  <2>2. /\ Len(t) >= S /\ P \in [1..Len(t) -> 1..Len(y)]
        /\ \A i, j \in 1..Len(t) : i < j => P[i] < P[j]
        /\ \A i \in 1..Len(t) : t[i] = y[P[i]] /\ (i <= S => P[i] = i)
    BY <1>5, <1>7, <1>10, <1>11, <1>12, <1>13, <2>1
  <2>3. QED
    BY <2>2 DEF Fifo!Left
<1>15. \A i \in (n + 1)..Len(v) : v[i] \in Messages
  <2>1. SUFFICES ASSUME NEW i \in (n + 1)..(S + U) PROVE v[i] \in Messages
    BY <1>4
  <2>a. U = N \/ U = N + 1
    BY <1>1
  <2>b. i \in Nat /\ n + 1 <= i /\ i <= S + U /\ n = S + N
    BY <1>6
  <2>c. U = N + 1
    BY <2>a, <2>b
  <2>2. U = N + 1 /\ i = S + (N + 1) /\ N + 1 \in 1..U
    BY <2>b, <2>c
  <2>3. QED
    BY <1>1, <1>4, <2>2
<1>16. may \/ n = Len(v)
  BY <1>1, <1>4, <1>6
<1>17. n \in 0..Len(v)
  BY <1>4
<1>18. Requeued(v, y, S, may)
  BY <1>7, <1>14, <1>15, <1>16, <1>17 DEF Requeued
<1>19. QED
  BY <1>1, <1>2, <1>3, <1>18

(* An end in the middle of a handler, with the peer f; d is c after part   *)
(* of a handler.                                                           *)
Mid(c, f, a) == CoreOk(c, f.sent, f.got, a) /\ FlightOk(c, a) /\ TimerOk(c)

Turn(d, c, f, a) ==
    /\ d \in Conn /\ Mid(d, f, a) /\ Later(d, c)
    /\ Requeued(Acc(d), Acc(c), Len(c.sent), c.state = "ESTB")

(* A queue of which nothing is withdrawn, or everything.                   *)
LEMMA KeepAll ==
    ASSUME NEW z \in Seq(Nat), NEW q \in Seq(Nat), NEW may \in BOOLEAN
    PROVE  Requeued(z \o q, z \o q, Len(z), may)
<1>1. PICK L \in Nat : L = Len(q)
  BY LenProperties
<1>2. PICK p : p = [i \in 1..L |-> i]
  OBVIOUS
<1>3. p \in [1..L -> 1..Len(q)] /\ \A i, j \in 1..L : i < j => p[i] < p[j]
  BY <1>1, <1>2
<1>4. \A i \in 1..L : q[i] = q[p[i]]
  BY <1>2
<1>5. Len(q) # L + 1
  BY <1>1
<1>6. Chosen(q, q, p, L, may)
  BY <1>1, <1>3, <1>4, <1>5 DEF Chosen
<1>7. QED
  BY <1>6, RequeueOk, Zenon

LEMMA KeepNone ==
    ASSUME NEW z \in Seq(Nat), NEW q \in Seq(Nat), NEW u \in Seq(Nat), NEW may \in BOOLEAN,
           u = <<>> \/ (Len(u) = 1 /\ may /\ u[1] \in Messages)
    PROVE  Requeued(z \o u, z \o q, Len(z), may)
<1>1. PICK N \in Nat : N = 0
  OBVIOUS
<1>2. PICK p : p = [i \in 1..N |-> i]
  OBVIOUS
<1>3. p \in [1..N -> 1..Len(q)] /\ (\A i, j \in 1..N : i < j => p[i] < p[j])
      /\ \A i \in 1..N : u[i] = q[p[i]]
  BY <1>1, <1>2
<1>4. Len(u) = N \/ Len(u) = N + 1
  BY <1>1, EmptySeq
<1>5. Len(u) = N + 1 => may /\ u[N + 1] \in Messages
  <2>1. N + 1 = 1 /\ (u = <<>> => Len(u) # 1)
    BY <1>1, EmptySeq
  <2>2. QED
    BY <2>1
<1>6. Chosen(u, q, p, N, may)
  BY <1>3, <1>4, <1>5 DEF Chosen
<1>7. QED
  BY <1>6, RequeueOk, Zenon

LEMMA MessageOk ==
    ASSUME NEW e \in Ends, NEW n \in Nat, n < MaxMsgs[e]
    PROVE  n + 1 \in Messages /\ n + 1 \in Nat
<1>1. MaxMsgs[e] \in Nat
  BY ChannelAssumption
<1>2. n + 1 \in Bodies(e)
  BY <1>1 DEF Bodies
<1>3. QED
  BY <1>2 DEF Messages

(* A step that changes only the queue of unsent messages and the state.    *)
Lives(st) == st \in {"ESTB", "FIN", "FIN_WAIT"}
Queued(d, c, u, n, st) == Lives(st) /\ d = [c EXCEPT !.send_queue = u, !.taken = n, !.state = st]

LEMMA QueueOk ==
    ASSUME NEW c \in Conn, NEW f \in Conn, NEW a \in Nat, Mid(c, f, a), c.state = "ESTB",
           NEW u \in Seq(Nat), NEW n \in Nat, NEW st,
           NEW d, Queued(d, c, u, n, st)
    PROVE  /\ d \in Conn /\ Mid(d, f, a) /\ Later(d, c) /\ d.state = st /\ d.got = c.got
           /\ Acc(d) = c.sent \o u
<1>1. d \in Conn
  BY DEF Conn, Queued, Lives
<1>2. /\ d.state = st /\ d.Ns = c.Ns /\ d.Nr = c.Nr /\ d.peer_Nr = c.peer_Nr
      /\ d.recv_queue = c.recv_queue /\ d.recv_queue_offt = c.recv_queue_offt /\ d.out = c.out
      /\ d.sent = c.sent /\ d.got = c.got /\ d.handed = c.handed /\ d.send_queue = u
      /\ d.rtms_queue = c.rtms_queue /\ d.rtimeout_timer = c.rtimeout_timer
  BY DEF Conn, Queued, Lives
<1>3. f.sent \in Seq(Nat) /\ f.got \in Nat /\ CoreOk(c, f.sent, f.got, a)
  BY ConnFacts DEF Mid
<1>4. CoreOk(d, f.sent, f.got, a) /\ Later(d, c)
  BY <1>1, <1>2, <1>3, SameOk, Zenon
<1>5. FlightOk(d, a)
  BY <1>2 DEF Mid, FlightOk
<1>6. TimerOk(d)
  BY <1>2 DEF Mid, TimerOk, Lives, Queued
<1>7. Acc(d) = c.sent \o u
  BY <1>2 DEF Acc
<1>8. QED
  BY <1>1, <1>2, <1>4, <1>5, <1>6, <1>7 DEF Mid

LEMMA QueueTurn ==
    ASSUME NEW c \in Conn, NEW f, NEW a, NEW d \in Conn, c.state = "ESTB", Mid(d, f, a),
           Later(d, c), Requeued(Acc(d), Acc(c), Len(c.sent), TRUE)
    PROVE  Turn(d, c, f, a)
BY DEF Turn

LEMMA FreeOk ==
    ASSUME NEW c \in Conn, NEW f \in Conn, NEW a \in Nat, Mid(c, f, a),
           NEW d, d = l2tp_tunnel_free(c)
    PROVE  /\ Turn(d, c, f, a) /\ d.state = "CLOSE" /\ FullOk(d) /\ d.got = c.got
           /\ d.sent = c.sent /\ d.send_queue = <<>>
<1>1. PICK q : q = [i \in 0..(Window - 1) |-> None]
  OBVIOUS
<1>2. q \in [0..(Window - 1) -> Int]
  BY <1>1 DEF None
<1>3. c.recv_queue \in [0..(Window - 1) -> Int]
  BY ConnFacts, Zenon
<1>4. d = [c EXCEPT !.state = "CLOSE", !.send_queue = <<>>, !.rtms_queue = <<>>,
                    !.recv_queue = q, !.rtimeout_timer = FALSE]
  BY <1>1, <1>3 DEF l2tp_tunnel_free
<1>5. <<>> \in Seq(Nat) /\ <<>> \in Seq(Message)
  OBVIOUS
<1>6. d \in Conn
  BY <1>2, <1>4, <1>5 DEF Conn
<1>7. /\ d.state = "CLOSE" /\ d.Ns = c.Ns /\ d.Nr = c.Nr /\ d.peer_Nr = c.peer_Nr
      /\ d.recv_queue = q /\ d.recv_queue_offt = c.recv_queue_offt /\ d.out = c.out
      /\ d.sent = c.sent /\ d.got = c.got /\ d.handed = c.handed /\ d.send_queue = <<>>
      /\ d.rtms_queue = <<>> /\ d.rtimeout_timer = FALSE
  BY <1>4 DEF Conn
<1>8. CoreOk(c, f.sent, f.got, a)
  BY DEF Mid
<1>9. RingOk(d, d.got, f.sent)
  <2>1. c.recv_queue_offt \in 0..(Window - 1)
    BY ConnFacts, Zenon
  <2>2. \A k \in 0..(Window - 1) : q[(c.recv_queue_offt + k) % Window] = None
    BY <1>1, <2>1, RingFacts
  <2>3. QED
    BY <1>7, <2>2 DEF RingOk
<1>10. HandedOk(d, f.sent) /\ OutOk(d, f.sent, a)
  BY <1>7, <1>8 DEF CoreOk, HandedOk, OutOk
<1>11. CoreOk(d, f.sent, f.got, a)
  BY <1>7, <1>8, <1>9, <1>10 DEF CoreOk
<1>12. FlightOk(d, a) /\ TimerOk(d) /\ FullOk(d)
  BY <1>7 DEF FlightOk, TimerOk, FullOk
<1>13. Later(d, c)
  <2>1. Len(c.sent) \in Nat /\ Len(c.handed) \in Nat /\ c.got \in Nat
    BY ConnFacts, Zenon
  <2>2. QED
    BY <1>7, <2>1 DEF Later
<1>14. Requeued(Acc(d), Acc(c), Len(c.sent), c.state = "ESTB")
  <2>1. PICK z \in Seq(Nat), s \in Seq(Nat) : z = c.sent /\ s = c.send_queue
    BY ConnFacts, Zenon
  <2>2. PICK may \in BOOLEAN : may = (c.state = "ESTB")
    OBVIOUS
  <2>3. PICK u \in Seq(Nat) : u = <<>>
    BY <1>5
  <2>4. Requeued(z \o u, z \o s, Len(z), may)
    BY <2>3, KeepNone
  <2>5. QED
    BY <1>7, <2>1, <2>2, <2>3, <2>4 DEF Acc
<1>15. QED
  BY <1>6, <1>7, <1>11, <1>12, <1>13, <1>14 DEF Mid, Turn

(* Parts of a handler follow one another.                                  *)
LEMMA TurnThen ==
    ASSUME NEW c \in Conn, NEW f \in Conn, NEW a \in Nat, NEW d, NEW x, Turn(d, c, f, a),
           x \in Conn, Mid(x, f, a), Later(x, d), Acc(x) = Acc(d)
    PROVE  Turn(x, c, f, a)
<1>1. d \in Conn /\ Later(d, c)
  BY DEF Turn
<1>2. Later(x, c)
  BY <1>1, LaterTrans
<1>3. QED
  BY <1>2 DEF Turn

LEMMA TurnAfter ==
    ASSUME NEW c \in Conn, NEW f \in Conn, NEW a \in Nat, NEW b \in Conn, NEW d, Later(b, c),
           b.sent = c.sent, b.send_queue = c.send_queue, b.state = c.state, Turn(d, b, f, a)
    PROVE  Turn(d, c, f, a)
<1>1. d \in Conn /\ Later(d, b)
  BY DEF Turn
<1>2. Later(d, c)
  BY <1>1, LaterTrans
<1>3. Acc(b) = Acc(c)
  BY DEF Acc
<1>4. QED
  BY <1>2, <1>3 DEF Turn

(* What is left of the queue when a call withdraws its messages, and what  *)
(* is queued after that.                                                   *)
LEMMA WithdrawnOk ==
    ASSUME NEW e \in Ends, NEW c \in Conn, NEW f \in Conn, NEW a \in Nat, Mid(c, f, a),
           c.state = "ESTB", NEW p \in Selections(Len(c.send_queue)),
           NEW b, b = l2tp_session_clear_sendqueue(c, p)
    PROVE  /\ Turn(b, c, f, a) /\ b.state = "ESTB"
           /\ c.taken < MaxMsgs[e] =>
                 /\ Turn(l2tp_tunnel_send(b), c, f, a) /\ l2tp_tunnel_send(b).state = "ESTB"
<1>1. PICK z \in Seq(Nat), q \in Seq(Nat), t \in Nat : z = c.sent /\ q = c.send_queue /\ t = c.taken
  BY ConnFacts, Zenon
<1>2. PICK N \in Nat, k \in Seq(Nat) :
         /\ p \in [1..N -> 1..Len(q)] /\ \A i, j \in 1..N : i < j => p[i] < p[j]
         /\ k = Kept(q, p) /\ Len(k) = N /\ \A i \in 1..N : k[i] = q[p[i]]
  <2>1. p \in Selections(Len(q))
    BY <1>1
  <2>2. \E N \in Nat :
              /\ p \in [1..N -> 1..Len(q)] /\ \A i, j \in 1..N : i < j => p[i] < p[j]
              /\ Kept(q, p) \in Seq(Nat) /\ Len(Kept(q, p)) = N
              /\ \A i \in 1..N : Kept(q, p)[i] = q[p[i]]
    BY <2>1, KeptFacts, Zenon
  <2>3. QED
    BY <2>2
<1>3. Queued(b, c, k, t, "ESTB")
  BY <1>1, <1>2 DEF l2tp_session_clear_sendqueue, Conn, Queued, Lives
<1>4. Requeued(c.sent \o k, Acc(c), Len(c.sent), TRUE)
  <2>1. Chosen(k, q, p, N, TRUE)
    <3>1. Len(k) # N + 1
      BY <1>2
    <3>2. QED
      BY <1>2, <3>1 DEF Chosen
  <2>2. Requeued(z \o k, z \o q, Len(z), TRUE)
    BY <2>1, RequeueOk, Zenon
  <2>3. QED
    BY <1>1, <2>2 DEF Acc
<1>5. Turn(b, c, f, a) /\ b.state = "ESTB"
  <2>1. /\ b \in Conn /\ Mid(b, f, a) /\ Later(b, c) /\ b.state = "ESTB" /\ b.got = c.got
        /\ Acc(b) = c.sent \o k
    <3>1. b \in Conn /\ Mid(b, f, a) /\ Later(b, c)
      BY <1>3, QueueOk, Zenon
    <3>2. b.state = "ESTB" /\ b.got = c.got /\ b.sent = c.sent /\ b.send_queue = k
      BY <1>3 DEF Queued, Conn
    <3>3. QED
      BY <3>1, <3>2 DEF Acc
  <2>2. QED
    BY <1>4, <2>1, QueueTurn
<1>6. ASSUME c.taken < MaxMsgs[e], NEW d, d = l2tp_tunnel_send(b)
      PROVE  Turn(d, c, f, a) /\ d.state = "ESTB"
  <2>1. PICK m \in Nat : m = t + 1 /\ m \in Messages
    BY <1>1, <1>6, MessageOk
  <2>2. PICK u : u = Append(k, m)
    OBVIOUS
  <2>3. /\ u \in Seq(Nat) /\ Len(u) = N + 1 /\ (\A i \in 1..N : u[i] = k[i]) /\ u[N + 1] = m
    BY <1>2, <2>2, AppendProperties
  <2>4. b.send_queue = k /\ b.taken = t /\ b.state = "ESTB"
    BY <1>3 DEF Conn, Queued, Lives
  <2>5. d = [b EXCEPT !.send_queue = u, !.taken = m]
    BY <1>6, <2>1, <2>2, <2>4 DEF l2tp_tunnel_send
  <2>6. Queued(d, c, u, m, "ESTB")
    BY <1>3, <2>5 DEF Conn, Queued, Lives
  <2>7. Chosen(u, q, p, N, TRUE)
    BY <1>2, <2>1, <2>3 DEF Chosen
  <2>8. Requeued(z \o u, z \o q, Len(z), TRUE)
    BY <2>3, <2>7, RequeueOk, Zenon
  <2>9. Requeued(c.sent \o u, Acc(c), Len(c.sent), TRUE)
    BY <1>1, <2>8 DEF Acc
  <2>10. /\ d \in Conn /\ Mid(d, f, a) /\ Later(d, c) /\ d.state = "ESTB" /\ d.got = c.got
        /\ Acc(d) = c.sent \o u
    <3>0. u \in Seq(Nat)
      BY <2>3
    <3>1. d \in Conn /\ Mid(d, f, a) /\ Later(d, c)
      BY <2>6, <3>0, QueueOk, Zenon
    <3>2. d.state = "ESTB" /\ d.got = c.got /\ d.sent = c.sent /\ d.send_queue = u
      BY <1>3, <2>3, <2>6 DEF Queued, Conn
    <3>3. QED
      BY <3>1, <3>2 DEF Acc
  <2>11. QED
    BY <2>9, <2>10, QueueTurn
<1>7. QED
  BY <1>5, <1>6

LEMMA DisconnectOk ==
    ASSUME NEW e \in Ends, NEW c \in Conn, NEW f \in Conn, NEW a \in Nat, Mid(c, f, a),
           c.state = "ESTB", c.taken < MaxMsgs[e], NEW d, d = l2tp_tunnel_disconnect(c)
    PROVE  Turn(d, c, f, a) /\ d.state = "FIN" /\ d.got = c.got
<1>1. PICK z \in Seq(Nat), q \in Seq(Nat), t \in Nat : z = c.sent /\ q = c.send_queue /\ t = c.taken
  BY ConnFacts, Zenon
<1>2. PICK m \in Nat : m = t + 1 /\ m \in Messages
  BY <1>1, MessageOk
<1>3. PICK u : u = Append(<<>>, m)
  OBVIOUS
<1>4. u \in Seq(Nat) /\ Len(u) = 1 /\ u[1] = m
  BY <1>2, <1>3
<1>5. Queued(d, c, u, m, "FIN")
  <2>1. PICK x : x = [c EXCEPT !.send_queue = <<>>]
    OBVIOUS
  <2>2. x.state = "ESTB" /\ x.send_queue = <<>> /\ x.taken = t
    BY <1>1, <2>1 DEF Conn
  <2>3. PICK y : y = [x EXCEPT !.send_queue = u, !.taken = m]
    OBVIOUS
  <2>4. l2tp_tunnel_send(x) = y
    BY <1>2, <1>3, <2>2, <2>3 DEF l2tp_tunnel_send
  <2>5. d = [y EXCEPT !.state = "FIN"]
    BY <2>1, <2>4 DEF l2tp_tunnel_disconnect, l2tp_tunnel_clear_sendqueue
  <2>6. QED
    BY <2>1, <2>3, <2>5 DEF Conn, Queued, Lives
<1>6. Requeued(z \o u, z \o q, Len(z), TRUE)
  BY <1>2, <1>4, KeepNone
<1>7. Requeued(c.sent \o u, Acc(c), Len(c.sent), TRUE)
  BY <1>1, <1>6 DEF Acc
<1>8. /\ d \in Conn /\ Mid(d, f, a) /\ Later(d, c) /\ d.state = "FIN" /\ d.got = c.got
      /\ Acc(d) = c.sent \o u
  <2>1. d \in Conn /\ Mid(d, f, a) /\ Later(d, c)
    BY <1>4, <1>5, QueueOk, Zenon
  <2>2. d.state = "FIN" /\ d.got = c.got /\ d.sent = c.sent /\ d.send_queue = u
    BY <1>4, <1>5 DEF Queued, Conn
  <2>3. QED
    BY <2>1, <2>2 DEF Acc
<1>9. QED
  BY <1>7, <1>8, QueueTurn

LEMMA FinwaitOk ==
    ASSUME NEW c \in Conn, NEW f \in Conn, NEW a \in Nat, Mid(c, f, a),
           c.state = "ESTB", NEW d, d = l2tp_tunnel_finwait(c)
    PROVE  Turn(d, c, f, a) /\ d.state = "FIN_WAIT" /\ d.got = c.got
<1>1. PICK z \in Seq(Nat), q \in Seq(Nat), t \in Nat : z = c.sent /\ q = c.send_queue /\ t = c.taken
  BY ConnFacts, Zenon
<1>2. PICK u \in Seq(Nat) : u = <<>>
  BY EmptySeq
<1>3. Queued(d, c, u, t, "FIN_WAIT")
  BY <1>1, <1>2 DEF l2tp_tunnel_finwait, l2tp_tunnel_clear_sendqueue, Conn, Queued, Lives
<1>4. Requeued(z \o u, z \o q, Len(z), TRUE)
  BY <1>2, KeepNone
<1>5. Requeued(c.sent \o u, Acc(c), Len(c.sent), TRUE)
  BY <1>1, <1>4 DEF Acc
<1>6. /\ d \in Conn /\ Mid(d, f, a) /\ Later(d, c) /\ d.state = "FIN_WAIT" /\ d.got = c.got
      /\ Acc(d) = c.sent \o u
  <2>1. d \in Conn /\ Mid(d, f, a) /\ Later(d, c)
    BY <1>3, QueueOk, Zenon
  <2>2. d.state = "FIN_WAIT" /\ d.got = c.got /\ d.sent = c.sent /\ d.send_queue = u
    BY <1>3 DEF Queued, Conn
  <2>3. QED
    BY <2>1, <2>2 DEF Acc
<1>7. QED
  BY <1>5, <1>6, QueueTurn

LEMMA PushTurn ==
    ASSUME NEW c \in Conn, NEW f \in Conn, NEW a \in Nat, NEW b, Turn(b, c, f, a),
           NEW d, d = l2tp_tunnel_push_sendqueue(b)
    PROVE  Turn(d, c, f, a) /\ FullOk(d) /\ d.state = b.state /\ d.got = b.got
<1>1. /\ b \in Conn /\ CoreOk(b, f.sent, f.got, a) /\ FlightOk(b, a) /\ TimerOk(b)
  BY DEF Turn, Mid
<1>2. f.sent \in Seq(Nat) /\ f.got \in Nat
  BY ConnFacts, Zenon
<1>3. /\ d \in Conn /\ d.state = b.state /\ d.got = b.got /\ Acc(d) = Acc(b)
      /\ CoreOk(d, f.sent, f.got, a) /\ FlightOk(d, a) /\ TimerOk(d) /\ FullOk(d) /\ Later(d, b)
  BY <1>1, <1>2, PushOk
<1>4. Mid(d, f, a)
  BY <1>3 DEF Mid
<1>5. QED
  BY <1>3, <1>4, TurnThen

LEMMA HandledOk ==
    ASSUME NEW e \in Ends, NEW c \in Conn, NEW f \in Conn, NEW a \in Nat, Mid(c, f, a),
           c.state = "ESTB", NEW d \in Handled(e, c)
    PROVE  Turn(d, c, f, a)
<1>1. \/ \E p \in Selections(Len(c.send_queue)) : d = l2tp_session_clear_sendqueue(c, p)
      \/ /\ c.taken < MaxMsgs[e]
         /\ \/ \E p \in Selections(Len(c.send_queue)) :
                  d = l2tp_tunnel_send(l2tp_session_clear_sendqueue(c, p))
            \/ d = l2tp_tunnel_disconnect(c)
  BY DEF Handled
<1>2. QED
  BY <1>1, WithdrawnOk, DisconnectOk

LEMMA ClosedOk ==
    ASSUME NEW e \in Ends, NEW c \in Conn, NEW f \in Conn, NEW a \in Nat, Mid(c, f, a),
           c.state = "ESTB", NEW d \in Closed(e, c)
    PROVE  Turn(d, c, f, a) /\ d.state # "ESTB" /\ d.got = c.got
<1>1. \/ d = l2tp_tunnel_finwait(c)
      \/ d = l2tp_tunnel_free(c)
      \/ c.taken < MaxMsgs[e] /\ d = l2tp_tunnel_disconnect(c)
      \/ c.taken < MaxMsgs[e] /\ d = l2tp_tunnel_push_sendqueue(l2tp_tunnel_disconnect(c))
  BY DEF Closed
<1>2. CASE d = l2tp_tunnel_finwait(c)
  BY <1>2, FinwaitOk
<1>3. CASE d = l2tp_tunnel_free(c)
  BY <1>3, FreeOk
<1>4. CASE c.taken < MaxMsgs[e] /\ d = l2tp_tunnel_disconnect(c)
  BY <1>4, DisconnectOk
<1>5. CASE c.taken < MaxMsgs[e] /\ d = l2tp_tunnel_push_sendqueue(l2tp_tunnel_disconnect(c))
  <2>1. PICK b : b = l2tp_tunnel_disconnect(c)
    OBVIOUS
  <2>2. Turn(b, c, f, a) /\ b.state = "FIN" /\ b.got = c.got
    BY <1>5, <2>1, DisconnectOk
  <2>3. Turn(d, c, f, a) /\ d.state = b.state /\ d.got = b.got
    BY <1>5, <2>1, <2>2, PushTurn
  <2>4. QED
    BY <2>2, <2>3
<1>6. QED
  BY <1>1, <1>2, <1>3, <1>4, <1>5

LEMMA DequeueTurn ==
    ASSUME NEW c \in Conn, NEW f \in Conn, NEW a \in Nat, Mid(c, f, a),
           NEW n \in 0..Window, c.got + n <= Len(f.sent),
           c.state = "ESTB" => n <= Len(InSequence(c)), NEW d, d = Dequeued(c, n)
    PROVE  /\ d \in Conn /\ Mid(d, f, a) /\ Later(d, c) /\ Acc(d) = Acc(c)
           /\ d.state = c.state /\ d.sent = c.sent /\ d.send_queue = c.send_queue
           /\ d.got = c.got + n
<1>1. CoreOk(c, f.sent, f.got, a) /\ FlightOk(c, a) /\ TimerOk(c)
  BY DEF Mid
<1>2. PICK s \in Seq(Nat), r \in Nat : s = f.sent /\ r = f.got
  BY ConnFacts, Zenon
<1>3. CoreOk(c, s, r, a) /\ c.got + n <= Len(s)
  BY <1>1, <1>2
<1>4. /\ d \in Conn /\ d.state = c.state /\ d.sent = c.sent /\ d.send_queue = c.send_queue
      /\ d.got = c.got + n
      /\ CoreOk(d, s, r, a) /\ FlightOk(d, a) /\ TimerOk(d) /\ Later(d, c)
  BY <1>1, <1>3, DequeueOk
<1>5. Mid(d, f, a)
  BY <1>2, <1>4 DEF Mid
<1>6. Acc(d) = Acc(c)
  BY <1>4 DEF Acc
<1>7. QED
  BY <1>4, <1>5, <1>6

LEMMA TurnSelf ==
    ASSUME NEW c \in Conn, NEW f, NEW a, Mid(c, f, a) PROVE Turn(c, c, f, a)
<1>1. PICK z \in Seq(Nat), q \in Seq(Nat) : z = c.sent /\ q = c.send_queue
  BY ConnFacts, Zenon
<1>2. PICK may \in BOOLEAN : may = (c.state = "ESTB")
  OBVIOUS
<1>3. Requeued(z \o q, z \o q, Len(z), may)
  BY KeepAll
<1>4. Requeued(Acc(c), Acc(c), Len(c.sent), c.state = "ESTB")
  BY <1>1, <1>2, <1>3 DEF Acc
<1>5. QED
  BY <1>4, LaterSelf DEF Turn

(* Processing the messages that are in sequence.                           *)
LEMMA ProcessedOk ==
    ASSUME NEW e \in Ends, NEW c \in Conn, NEW f \in Conn, NEW a \in Nat, Mid(c, f, a),
           NEW d \in Processed(e, c)
    PROVE  Turn(d, c, f, a)
<1>1. PICK n \in 0..Window, g \in Nat, F \in Nat :
         n = Len(InSequence(c)) /\ g = c.got /\ F = Len(f.sent) /\ g + n <= F
  <2>1. PICK s \in Seq(Nat), g \in Nat, F \in Nat : s = f.sent /\ g = c.got /\ F = Len(s)
    BY ConnFacts, Zenon
  <2>2. g <= Len(s) /\ RingOk(c, g, s)
    BY <2>1 DEF Mid, CoreOk
  <2>3. \E n \in 0..Window :
              /\ InSequence(c) \in Seq(Nat) /\ Len(InSequence(c)) = n /\ g + n <= Len(s)
              /\ \A k \in 1..n : InSequence(c)[k] = s[g + k]
    BY <2>2, InSequenceOk
  <2>4. QED
    BY <2>1, <2>3
<1>2. Window \in Nat /\ n \in Nat
  BY HalfFacts
<1>3. ASSUME NEW h \in 0..n, NEW b, b = Dequeued(c, h)
      PROVE  /\ b \in Conn /\ Mid(b, f, a) /\ Later(b, c) /\ Acc(b) = Acc(c)
             /\ b.state = c.state /\ b.sent = c.sent /\ b.send_queue = c.send_queue
             /\ b.got = g + h
  <2>1. h \in 0..Window /\ c.got + h <= Len(f.sent) /\ h <= Len(InSequence(c))
    BY <1>1, <1>2
  <2>2. QED
    BY <1>1, <1>3, <2>1, DequeueTurn
<1>4. \/ d = Dequeued(c, n)
      \/ c.state = "ESTB" /\ d \in Handled(e, Dequeued(c, n))
      \/ /\ c.state = "ESTB"
         /\ \E h \in 1..n : \E x \in Closed(e, Dequeued(c, h)) :
               d = IF x.state = "CLOSE" THEN x ELSE Dequeued(x, n - h)
  <2>1. PICK m : m = Len(InSequence(c))
    OBVIOUS
  <2>2. d \in IF m = 0 \/ c.state # "ESTB" THEN {Dequeued(c, m)}
              ELSE Handled(e, Dequeued(c, m))
                      \cup UNION {{IF x.state = "CLOSE" THEN x ELSE Dequeued(x, m - h)
                                     : x \in Closed(e, Dequeued(c, h))} : h \in 1..m}
    BY <2>1 DEF Processed
  <2>3. m = n
    BY <1>1, <2>1
  <2>4. QED
    BY <2>2, <2>3, Zenon
<1>5. CASE d = Dequeued(c, n)
  <2>1. d \in Conn /\ Mid(d, f, a) /\ Later(d, c) /\ Acc(d) = Acc(c)
    BY <1>2, <1>3, <1>5
  <2>2. QED
    BY <2>1, TurnSelf, TurnThen
<1>6. CASE c.state = "ESTB" /\ d \in Handled(e, Dequeued(c, n))
  <2>1. PICK b : b = Dequeued(c, n)
    OBVIOUS
  <2>2. /\ b \in Conn /\ Mid(b, f, a) /\ Later(b, c) /\ b.state = c.state /\ b.sent = c.sent
        /\ b.send_queue = c.send_queue
    BY <1>2, <1>3, <2>1
  <2>3. Turn(d, b, f, a)
    BY <1>6, <2>1, <2>2, HandledOk
  <2>4. QED
    BY <2>2, <2>3, TurnAfter
<1>7. CASE /\ c.state = "ESTB"
           /\ \E h \in 1..n : \E x \in Closed(e, Dequeued(c, h)) :
                 d = IF x.state = "CLOSE" THEN x ELSE Dequeued(x, n - h)
  <2>1. PICK h \in 1..n : \E x \in Closed(e, Dequeued(c, h)) :
           d = IF x.state = "CLOSE" THEN x ELSE Dequeued(x, n - h)
    BY <1>7
  <2>2. PICK b : b = Dequeued(c, h)
    OBVIOUS
  <2>3. /\ b \in Conn /\ Mid(b, f, a) /\ Later(b, c) /\ b.state = c.state /\ b.sent = c.sent
        /\ b.send_queue = c.send_queue /\ b.got = g + h
    BY <1>2, <1>3, <2>2
  <2>4. PICK x \in Closed(e, b) : d = IF x.state = "CLOSE" THEN x ELSE Dequeued(x, n - h)
    BY <2>1, <2>2
  <2>5. Turn(x, b, f, a) /\ x.state # "ESTB" /\ x.got = b.got
    BY <1>7, <2>3, ClosedOk
  <2>6. CASE x.state = "CLOSE"
    BY <2>3, <2>4, <2>5, <2>6, TurnAfter
  <2>7. CASE x.state # "CLOSE"
    <3>1. PICK m \in 0..Window : m = n - h
      BY <1>2
    <3>2. x.got + m <= Len(f.sent)
      BY <1>1, <1>2, <2>3, <2>5, <3>1
    <3>3. x \in Conn /\ Mid(x, f, a)
      BY <2>5 DEF Turn
    <3>4. d \in Conn /\ Mid(d, f, a) /\ Later(d, x) /\ Acc(d) = Acc(x)
      BY <2>4, <2>5, <2>7, <3>1, <3>2, <3>3, DequeueTurn
    <3>5. Turn(d, b, f, a)
      BY <2>3, <2>5, <3>4, TurnThen
    <3>6. QED
      BY <2>3, <3>5, TurnAfter
  <2>8. QED
    BY <2>6, <2>7
<1>8. QED
  BY <1>4, <1>5, <1>6, <1>7

(* A datagram is sent.                                                     *)
LEMMA SendOk ==
    ASSUME NEW c \in Conn, NEW f \in Conn, NEW a \in Nat, Mid(c, f, a), NEW p \in Datagram,
           Numbered(p, c.sent), a <= p.ns, p.Nr = c.Nr, p.nr = c.got,
           NEW d, d = [c EXCEPT !.out = @ \cup {p}]
    PROVE  d \in Conn /\ Mid(d, f, a) /\ Later(d, c) /\ Acc(d) = Acc(c) /\ (FullOk(c) => FullOk(d))
<1>1. PICK o \in SUBSET Datagram : o = c.out \cup {p}
  BY ConnFacts
<1>2. d = [c EXCEPT !.out = o]
  BY <1>1
<1>3. d \in Conn
  BY <1>2 DEF Conn
<1>4. /\ d.state = c.state /\ d.Ns = c.Ns /\ d.Nr = c.Nr /\ d.peer_Nr = c.peer_Nr
      /\ d.recv_queue = c.recv_queue /\ d.recv_queue_offt = c.recv_queue_offt /\ d.out = o
      /\ d.sent = c.sent /\ d.got = c.got /\ d.handed = c.handed /\ d.send_queue = c.send_queue
      /\ d.rtms_queue = c.rtms_queue /\ d.rtimeout_timer = c.rtimeout_timer
  BY <1>2 DEF Conn
<1>5. HandedOk(d, f.sent) /\ RingOk(d, d.got, f.sent)
  BY <1>4 DEF Mid, CoreOk, HandedOk, RingOk
<1>6. OutOk(d, f.sent, a)
  <2>1. c.got \in Nat /\ c.Nr = Num(c.got) /\ Len(f.sent) <= c.got + Window
    BY ConnFacts DEF Mid, CoreOk
  <2>2. QED
    BY <1>1, <1>4, <2>1 DEF Mid, CoreOk, OutOk
<1>7. CoreOk(d, f.sent, f.got, a)
  BY <1>4, <1>5, <1>6 DEF Mid, CoreOk
<1>8. FlightOk(d, a) /\ TimerOk(d) /\ (FullOk(c) => FullOk(d)) /\ Acc(d) = Acc(c)
  <2>1. FlightOk(d, a)
    BY <1>4 DEF Mid, FlightOk
  <2>2. TimerOk(d)
    BY <1>4 DEF Mid, TimerOk
  <2>3. (FullOk(c) => FullOk(d)) /\ Acc(d) = Acc(c)
    BY <1>4 DEF FullOk, Acc
  <2>4. QED
    BY <2>1, <2>2, <2>3
<1>9. Later(d, c)
  <2>1. Later(c, c)
    BY LaterSelf
  <2>2. QED
    BY <1>4, <2>1 DEF Later
<1>10. QED
  BY <1>3, <1>7, <1>8, <1>9 DEF Mid

LEMMA AnsweredOk ==
    ASSUME NEW c \in Conn, NEW f \in Conn, NEW a \in Nat, NEW b, Turn(b, c, f, a),
           NEW d, d = Answered(b)
    PROVE  Turn(d, c, f, a) /\ FullOk(d)
<1>1. PICK x : x = l2tp_tunnel_push_sendqueue(b)
  OBVIOUS
<1>2. Turn(x, c, f, a) /\ FullOk(x)
  BY <1>1, PushTurn
<1>3. x \in Conn /\ Mid(x, f, a)
  BY <1>2 DEF Turn
<1>4. d = x \/ d = l2tp_send_ZLB(x)
  BY <1>1 DEF Answered
<1>5. CASE d = l2tp_send_ZLB(x)
  <2>1. PICK S \in Nat, g \in Nat : S = Len(x.sent) /\ g = x.got
    BY <1>3, ConnFacts, Zenon
  <2>2. PICK p : p = [Ns |-> x.Ns, Nr |-> x.Nr, body |-> ZLB, ns |-> S, nr |-> g]
    OBVIOUS
  <2>3. x.Ns \in Seqno /\ x.Nr \in Seqno
    BY <1>3, ConnFacts
  <2>4. p \in Datagram /\ p.Ns = x.Ns /\ p.Nr = x.Nr /\ p.body = ZLB /\ p.ns = S /\ p.nr = g
    BY <2>2, <2>3 DEF Datagram, ZLB
  <2>5. x.Ns = Num(S) /\ a <= S
    <3>1. PICK r \in Nat : r = f.got
      BY ConnFacts, Zenon
    <3>2. x.Ns = Num(S) /\ a <= r /\ r <= S
      BY <1>3, <2>1, <3>1 DEF Mid, CoreOk
    <3>3. QED
      BY <3>2
  <2>6. Numbered(p, x.sent)
    BY <2>1, <2>4, <2>5 DEF Numbered
  <2>7. d = [x EXCEPT !.out = @ \cup {p}]
    BY <1>5, <2>1, <2>2 DEF l2tp_send_ZLB, __l2tp_tunnel_send
  <2>8. d \in Conn /\ Mid(d, f, a) /\ Later(d, x) /\ Acc(d) = Acc(x) /\ FullOk(d)
    BY <1>2, <1>3, <2>1, <2>4, <2>5, <2>6, <2>7, SendOk
  <2>9. QED
    BY <1>2, <2>8, TurnThen
<1>6. QED
  BY <1>2, <1>4, <1>5

-----------------------------------------------------------------------------
(* The inductive invariant: each end is in order as its peer sees it, and  *)
(* so is every datagram under way.                                         *)

EndOk(c, f) == c.out = {} /\ FullOk(c) /\ \E a \in Nat : Mid(c, f, a)

ChanInv ==
    /\ conn \in [Ends -> Conn] /\ net \subseteq Packets
    /\ \A e \in Ends : EndOk(conn[e], conn[Other(e)])
    /\ \A p \in net : PacketOk(p, conn[Other(p.to)], conn[p.to])

LEMMA OtherFacts ==
    \A e \in Ends : Other(e) \in Ends /\ Other(e) # e /\ Other(Other(e)) = e
                    /\ \A x \in Ends : x = e \/ x = Other(e)
<1>1. PICK x, y \in Ends : x # y /\ Ends = {x, y}
  BY ChannelAssumption
<1>2. Other(x) = y
  BY <1>1 DEF Other
<1>3. Other(y) = x
  BY <1>1 DEF Other
<1>4. QED
  BY <1>1, <1>2, <1>3

(* What an end does leaves its peer in order.                              *)
LEMMA PeerOk ==
    ASSUME NEW c \in Conn, NEW d \in Conn, NEW f \in Conn, NEW a \in Nat, NEW b \in Nat,
           Mid(d, f, a), Mid(f, c, b), f.out = {}, Later(d, c)
    PROVE  Mid(f, d, b)
<1>1. PICK C \in Nat, D \in Nat, F \in Nat, g \in Nat, h \in Nat, r \in Nat, H \in Nat :
         /\ C = Len(c.sent) /\ D = Len(d.sent) /\ F = Len(f.sent)
         /\ g = c.got /\ h = d.got /\ r = f.got /\ H = Len(f.handed)
  BY ConnFacts, Zenon
<1>2. /\ r <= C /\ C <= r + Window /\ b <= g /\ g <= F /\ F <= b + Window
      /\ f.Ns = Num(F) /\ f.Nr = Num(r) /\ f.peer_Nr = Num(b)
      /\ RingOk(f, r, c.sent) /\ HandedOk(f, c.sent)
  BY <1>1 DEF Mid, CoreOk
<1>3. h <= F /\ a <= r /\ D <= a + Window
  BY <1>1 DEF Mid, CoreOk
<1>4. C <= D /\ g <= h /\ \A i \in 1..C : d.sent[i] = c.sent[i]
  BY <1>1 DEF Later
<1>5. RingOk(f, r, d.sent)
  <2>1. ASSUME NEW k \in 0..(Window - 1), NEW m,
               m = f.recv_queue[(f.recv_queue_offt + k) % Window], m # None
        PROVE  r + k + 1 <= D /\ m = d.sent[r + k + 1]
    <3>1. r + k + 1 <= C /\ m = c.sent[r + k + 1]
      BY <1>1, <1>2, <2>1 DEF RingOk
    <3>2. r + k + 1 \in 1..C /\ r + k + 1 <= D
      BY <1>4, <3>1
    <3>3. QED
      BY <1>4, <3>1, <3>2
  <2>2. QED
    BY <1>1, <2>1 DEF RingOk
<1>6. HandedOk(f, d.sent)
  <2>1. H <= r /\ (f.state = "ESTB" => H = r) /\ \A i \in 1..H : f.handed[i] = c.sent[i]
    BY <1>1, <1>2 DEF HandedOk
  <2>2. \A i \in 1..H : i \in 1..C
    BY <1>2, <2>1
  <2>3. \A i \in 1..H : f.handed[i] = d.sent[i]
    BY <1>4, <2>1, <2>2
  <2>4. QED
    BY <1>1, <2>1, <2>3 DEF HandedOk
<1>7. r <= D /\ D <= r + Window /\ b <= h
  <2>1. Window \in Nat
    BY HalfFacts
  <2>2. QED
    BY <1>2, <1>3, <1>4, <2>1
<1>8. OutOk(f, d.sent, b)
  BY DEF OutOk
<1>9. CoreOk(f, d.sent, d.got, b)
  BY <1>1, <1>2, <1>3, <1>5, <1>6, <1>7, <1>8 DEF CoreOk
<1>10. QED
  BY <1>9 DEF Mid

(* An old datagram is still in order when an end goes on, if it is young.  *)
LEMMA OldOk ==
    ASSUME NEW p \in Packets, NEW x \in Conn, NEW y \in Conn, NEW v \in Conn, NEW w \in Conn,
           PacketOk(p, x, y), Later(v, x),
           Len(v.sent) - p.ns <= Lifetime, Len(w.sent) - p.nr <= Lifetime
    PROVE  PacketOk(p, v, w)
<1>1. PICK n \in Nat, m \in Nat : n = p.ns /\ m = p.nr
  BY DEF Packets
<1>2. PICK s \in Seq(Nat), t \in Seq(Nat), g \in Nat, h \in Nat :
         s = x.sent /\ t = v.sent /\ g = x.got /\ h = v.got
  BY ConnFacts, Zenon
<1>3. Numbered(p, s) /\ p.Nr = Num(p.nr) /\ m <= g /\ g <= h
  BY <1>1, <1>2 DEF PacketOk, Later
<1>4. Len(s) <= Len(t) /\ \A i \in 1..Len(s) : t[i] = s[i]
  BY <1>2 DEF Later
<1>5. Numbered(p, t)
  BY <1>1, <1>3, <1>4, NumberedMore
<1>6. m <= h
  BY <1>3
<1>7. QED
  BY <1>1, <1>2, <1>3, <1>5, <1>6 DEF PacketOk

(* A new one is in order.                                                  *)
LEMMA NewOk ==
    ASSUME NEW d \in Conn, NEW f \in Conn, NEW a \in Nat, Mid(d, f, a), NEW r \in d.out, NEW to \in Ends,
           NEW p, p = [to |-> to, Ns |-> r.Ns, Nr |-> r.Nr, body |-> r.body, ns |-> r.ns, nr |-> r.nr]
    PROVE  p \in Packets /\ p.to = to /\ PacketOk(p, d, f)
<1>1. r \in Datagram
  BY ConnFacts
<1>2. /\ r.Ns \in 0..(SeqSpace - 1) /\ r.Nr \in 0..(SeqSpace - 1) /\ r.body \in Nat
      /\ r.ns \in Nat /\ r.nr \in Nat
  BY <1>1 DEF Datagram, Seqno
<1>3. /\ p \in Packets /\ p.to = to /\ p.Ns = r.Ns /\ p.Nr = r.Nr /\ p.body = r.body
      /\ p.ns = r.ns /\ p.nr = r.nr
  BY <1>2 DEF Packets
<1>4. PICK S \in Nat, F \in Nat, n \in Nat, m \in Nat :
         S = Len(d.sent) /\ F = Len(f.sent) /\ n = r.ns /\ m = r.nr
  BY <1>2, ConnFacts, Zenon
<1>5. /\ Numbered(r, d.sent) /\ r.Nr = Num(r.nr) /\ a <= n /\ r.nr <= d.got /\ F <= m + Window
  BY <1>4 DEF Mid, CoreOk, OutOk
<1>6. S <= a + Window
  BY <1>4 DEF Mid, CoreOk
<1>7. S - n <= Lifetime /\ F - m <= Lifetime
  BY <1>5, <1>6, HalfFacts
<1>8. Numbered(p, d.sent)
  BY <1>3, <1>5 DEF Numbered
<1>9. QED
  BY <1>3, <1>4, <1>5, <1>7, <1>8 DEF PacketOk

(* A handler that leaves end e in order leaves the channel in order.       *)
LEMMA PutInv ==
    ASSUME ChanInv, NEW e \in Ends, NEW a \in Nat, NEW d, Turn(d, conn[e], conn[Other(e)], a),
           FullOk(d), Put(e, d)
    PROVE  /\ ChanInv'
           /\ conn' = [conn EXCEPT ![e] = [d EXCEPT !.out = {}, !.need_ack = FALSE]]
<1>1. PICK f \in Ends : f = Other(e) /\ f # e /\ Other(f) = e /\ \A x \in Ends : x = e \/ x = f
  BY OtherFacts
<1>2. PICK c \in Conn, k \in Conn : c = conn[e] /\ k = conn[f]
  BY DEF ChanInv
<1>3. d \in Conn /\ Mid(d, k, a) /\ Later(d, c)
  BY <1>1, <1>2 DEF Turn
<1>4. PICK x : x = [d EXCEPT !.out = {}, !.need_ack = FALSE]
  OBVIOUS
<1>5. x \in Conn
  BY <1>3, <1>4 DEF Conn
<1>6. /\ x.state = d.state /\ x.Ns = d.Ns /\ x.Nr = d.Nr /\ x.peer_Nr = d.peer_Nr
      /\ x.recv_queue = d.recv_queue /\ x.recv_queue_offt = d.recv_queue_offt /\ x.out = {}
      /\ x.sent = d.sent /\ x.got = d.got /\ x.handed = d.handed /\ x.send_queue = d.send_queue
      /\ x.rtms_queue = d.rtms_queue /\ x.rtimeout_timer = d.rtimeout_timer
  BY <1>3, <1>4 DEF Conn
<1>7. Mid(x, k, a) /\ FullOk(x) /\ Later(x, c)
  <2>1. HandedOk(x, k.sent) /\ RingOk(x, x.got, k.sent) /\ OutOk(x, k.sent, a)
    BY <1>3, <1>6 DEF Mid, CoreOk, HandedOk, RingOk, OutOk
  <2>2. CoreOk(x, k.sent, k.got, a)
    BY <1>3, <1>6, <2>1 DEF Mid, CoreOk
  <2>3. FlightOk(x, a)
    BY <1>3, <1>6 DEF Mid, FlightOk
  <2>4. TimerOk(x)
    BY <1>3, <1>6 DEF Mid, TimerOk
  <2>5. FullOk(x)
    BY <1>6 DEF FullOk
  <2>6. Later(x, c)
    BY <1>3, <1>6 DEF Later
  <2>7. QED
    BY <2>2, <2>3, <2>4, <2>5, <2>6 DEF Mid
<1>8. conn' = [conn EXCEPT ![e] = x]
  BY <1>4 DEF Put
<1>9. conn' \in [Ends -> Conn] /\ conn'[e] = x /\ conn'[f] = k
  BY <1>1, <1>2, <1>5, <1>8 DEF ChanInv
<1>10. EndOk(conn'[e], conn'[Other(e)])
  BY <1>1, <1>6, <1>7, <1>9 DEF EndOk
<1>11. EndOk(conn'[f], conn'[Other(f)])
  <2>1. PICK b \in Nat : k.out = {} /\ FullOk(k) /\ Mid(k, c, b)
    BY <1>1, <1>2 DEF ChanInv, EndOk
  <2>2. Mid(k, x, b)
    BY <1>5, <1>7, <2>1, PeerOk
  <2>3. QED
    BY <1>1, <1>9, <2>1, <2>2 DEF EndOk
<1>12. ASSUME NEW p \in net' PROVE p \in Packets /\ PacketOk(p, conn'[Other(p.to)], conn'[p.to])
  <2>1. \/ p \in net /\ Young(p, conn')
        \/ \E r \in d.out : p = [to |-> Other(e), Ns |-> r.Ns, Nr |-> r.Nr, body |-> r.body,
                                 ns |-> r.ns, nr |-> r.nr]
    BY DEF Put
  <2>2. CASE p \in net /\ Young(p, conn')
    <3>1. p \in Packets /\ p.to \in Ends /\ PacketOk(p, conn[Other(p.to)], conn[p.to])
      BY <2>2 DEF ChanInv, Packets
    <3>2. PICK t \in Ends : t = p.to
      BY <3>1
    <3>3. PICK o \in Ends : o = Other(t)
      BY OtherFacts
    <3>4. Later(conn'[o], conn[o])
      <4>1. CASE o = e
        BY <1>2, <1>7, <1>9, <4>1
      <4>2. CASE o = f
        BY <1>2, <1>9, <4>2, LaterSelf
      <4>3. QED
        BY <1>1, <4>1, <4>2
    <3>5. Len(conn'[o].sent) - p.ns <= Lifetime /\ Len(conn'[t].sent) - p.nr <= Lifetime
      BY <2>2, <3>2, <3>3 DEF Young
    <3>6. PICK x1 \in Conn, y1 \in Conn, v1 \in Conn, w1 \in Conn :
             x1 = conn[o] /\ y1 = conn[t] /\ v1 = conn'[o] /\ w1 = conn'[t]
      BY <1>9 DEF ChanInv
    <3>7. PacketOk(p, x1, y1) /\ Later(v1, x1)
      BY <3>1, <3>2, <3>3, <3>4, <3>6
    <3>8. Len(v1.sent) - p.ns <= Lifetime /\ Len(w1.sent) - p.nr <= Lifetime
      BY <3>5, <3>6
    <3>9. PacketOk(p, v1, w1)
      BY <3>1, <3>7, <3>8, OldOk
    <3>10. QED
      BY <3>1, <3>2, <3>3, <3>6, <3>9
  <2>3. CASE \E r \in d.out : p = [to |-> Other(e), Ns |-> r.Ns, Nr |-> r.Nr, body |-> r.body,
                                   ns |-> r.ns, nr |-> r.nr]
    <3>1. PICK r \in d.out : p = [to |-> f, Ns |-> r.Ns, Nr |-> r.Nr, body |-> r.body,
                                  ns |-> r.ns, nr |-> r.nr]
      BY <1>1, <2>3
    <3>2. p \in Packets /\ p.to = f /\ PacketOk(p, d, k)
      BY <1>3, <3>1, NewOk
    <3>3. PacketOk(p, x, k)
      BY <1>6, <3>2 DEF PacketOk
    <3>4. QED
      BY <1>1, <1>9, <3>2, <3>3
  <2>4. QED
    BY <2>1, <2>2, <2>3
<1>13. QED
  <2>1. \A y \in Ends : EndOk(conn'[y], conn'[Other(y)])
    BY <1>1, <1>10, <1>11
  <2>2. ChanInv'
    BY <1>9, <1>12, <2>1 DEF ChanInv
  <2>3. QED
    BY <1>4, <1>8, <2>2

-----------------------------------------------------------------------------
(* A handler of end e is a step of the FIFO.                               *)

LEMMA LeftLess ==
    ASSUME NEW t \in Seq(Nat), NEW s, NEW H \in Nat, NEW h \in Nat, h <= H, Fifo!Left(t, s, H)
    PROVE  Fifo!Left(t, s, h)
<1>1. PICK N \in Nat : N = Len(t)
  BY LenProperties
<1>2. N >= H /\ \E p \in [1..N -> 1..Len(s)] :
          /\ \A i, j \in 1..N : i < j => p[i] < p[j]
          /\ \A i \in 1..N : t[i] = s[p[i]] /\ (i <= H => p[i] = i)
  BY <1>1 DEF Fifo!Left
<1>3. PICK p \in [1..N -> 1..Len(s)] :
          /\ \A i, j \in 1..N : i < j => p[i] < p[j]
          /\ \A i \in 1..N : t[i] = s[p[i]] /\ (i <= H => p[i] = i)
  BY <1>2
<1>4. \A i \in 1..N : i <= h => i <= H
  OBVIOUS
<1>5. N >= h
  BY <1>2
<1>6. \A i \in 1..N : t[i] = s[p[i]] /\ (i <= h => p[i] = i)
  BY <1>3, <1>4
<1>7. QED
  BY <1>1, <1>3, <1>5, <1>6 DEF Fifo!Left

(* What is processed is the beginning of what the peer sent.               *)
LEMMA HandedPrefix ==
    ASSUME NEW d \in Conn, NEW f \in Conn, NEW a \in Nat, Mid(d, f, a)
    PROVE  /\ Len(d.handed) <= Len(Acc(f)) /\ Len(d.handed) <= Len(f.sent)
           /\ d.handed = SubSeq(Acc(f), 1, Len(d.handed)) /\ Acc(f) \in Seq(Nat)
<1>1. PICK z \in Seq(Nat), q \in Seq(Nat), h \in Seq(Nat) :
         z = f.sent /\ q = f.send_queue /\ h = d.handed
  BY ConnFacts, Zenon
<1>2. PICK Z \in Nat, Q \in Nat, H \in Nat, g \in Nat :
         Z = Len(z) /\ Q = Len(q) /\ H = Len(h) /\ g = d.got
  BY <1>1, ConnFacts, LenProperties
<1>3. g <= Z /\ H <= g /\ \A i \in 1..H : h[i] = z[i]
  BY <1>1, <1>2 DEF Mid, CoreOk, HandedOk
<1>4. PICK y : y = z \o q
  OBVIOUS
<1>5. /\ y \in Seq(Nat) /\ Len(y) = Z + Q /\ \A i \in 1..Z : y[i] = z[i]
  <2>1. /\ y \in Seq(Nat) /\ Len(y) = Len(z) + Len(q)
        /\ \A i \in 1..Len(z) : y[i] = z[i] /\ i \in 1..Len(y)
        /\ \A i \in 1..Len(q) : y[Len(z) + i] = q[i] /\ Len(z) + i \in 1..Len(y)
    BY <1>4, JoinNat, SMTT(30)
  <2>2. QED
    BY <1>2, <2>1
<1>6. H <= Z /\ H <= Z + Q
  BY <1>3
<1>7. PICK t : t = SubSeq(y, 1, H)
  OBVIOUS
<1>8. t \in Seq(Nat) /\ Len(t) = H /\ \A i \in 1..H : t[i] = y[i]
  <2>1. H \in 0..Len(y) /\ y \in Seq(Nat)
    BY <1>5, <1>6
  <2>2. t \in Seq(Nat) /\ Len(t) = H /\ \A i \in 1..H : t[i] = y[i] /\ i \in 1..Len(y)
    BY <1>7, <2>1, PrefixFacts
  <2>3. QED
    BY <2>2
<1>9. \A i \in 1..H : i \in 1..Z
  BY <1>6
<1>10. \A i \in 1..H : h[i] = t[i]
  BY <1>3, <1>5, <1>8, <1>9
<1>11. h = t
  BY <1>2, <1>8, <1>10, SeqEqual
<1>12. Acc(f) = y
  BY <1>1, <1>4 DEF Acc
<1>13. QED
  BY <1>1, <1>2, <1>5, <1>6, <1>7, <1>11, <1>12

LEMMA PutStep ==
    ASSUME ChanInv, NEW e \in Ends, NEW a \in Nat, NEW d, Turn(d, conn[e], conn[Other(e)], a),
           conn' = [conn EXCEPT ![e] = [d EXCEPT !.out = {}, !.need_ack = FALSE]]
    PROVE  Fifo!Step(e)
<1>1. PICK f \in Ends : f = Other(e) /\ f # e /\ Other(f) = e /\ \A x \in Ends : x = e \/ x = f
  BY OtherFacts
<1>2. PICK c \in Conn, k \in Conn : c = conn[e] /\ k = conn[f]
  BY DEF ChanInv
<1>3. /\ d \in Conn /\ Mid(d, k, a) /\ Later(d, c)
      /\ Requeued(Acc(d), Acc(c), Len(c.sent), c.state = "ESTB")
  BY <1>1, <1>2 DEF Turn
<1>4. PICK x : x = [d EXCEPT !.out = {}, !.need_ack = FALSE]
  OBVIOUS
<1>5. /\ x.state = d.state /\ x.sent = d.sent /\ x.handed = d.handed /\ x.send_queue = d.send_queue
  BY <1>3, <1>4 DEF Conn
<1>6. conn \in [Ends -> Conn] /\ conn' = [conn EXCEPT ![e] = x]
  BY <1>4 DEF ChanInv
<1>7. conn'[e] = x /\ conn'[f] = k
  BY <1>1, <1>2, <1>6
<1>8. PICK A : A = [y \in Ends |-> Accepted(y)]
  OBVIOUS
<1>9. PICK A1 : A1 = [y \in Ends |-> Accepted(y)']
  OBVIOUS
<1>10. PICK h : h = [y \in Ends |-> conn[y].handed]
  OBVIOUS
<1>11. PICK h1 : h1 = [y \in Ends |-> conn'[y].handed]
  OBVIOUS
<1>12. PICK o : o = [y \in Ends |-> conn[y].state = "ESTB"]
  OBVIOUS
<1>13. PICK o1 : o1 = [y \in Ends |-> conn'[y].state = "ESTB"]
  OBVIOUS
<1>14. A[e] = Acc(c) /\ A[f] = Acc(k) /\ A1[e] = Acc(d) /\ A1[f] = Acc(k)
  BY <1>2, <1>5, <1>7, <1>8, <1>9 DEF Accepted, Acc
<1>15. h[e] = c.handed /\ h[f] = k.handed /\ h1[e] = d.handed /\ h1[f] = k.handed
  BY <1>2, <1>5, <1>7, <1>10, <1>11
<1>16. A1 = [A EXCEPT ![e] = A1[e]]
  BY <1>1, <1>8, <1>9, <1>14
<1>17. h1 = [h EXCEPT ![e] = h1[e]]
  BY <1>1, <1>10, <1>11, <1>15
<1>18. o1 \in {o, [o EXCEPT ![e] = FALSE]}
  <2>1. c.state # "ESTB" => d.state # "ESTB"
    BY <1>3 DEF Later
  <2>2. /\ o[e] = (c.state = "ESTB") /\ o1[e] = (d.state = "ESTB") /\ o1[f] = o[f]
        /\ o \in [Ends -> BOOLEAN] /\ o1 \in [Ends -> BOOLEAN]
    BY <1>1, <1>2, <1>5, <1>7, <1>12, <1>13
  <2>3. CASE d.state = "ESTB" <=> c.state = "ESTB"
    <3>1. o1 = o
      BY <1>1, <2>2, <2>3
    <3>2. QED
      BY <3>1
  <2>4. CASE d.state # "ESTB" /\ c.state = "ESTB"
    <3>1. o1 = [o EXCEPT ![e] = FALSE]
      BY <1>1, <2>2, <2>4
    <3>2. QED
      BY <3>1
  <2>5. QED
    BY <2>1, <2>3, <2>4
<1>19. \E n \in 0..Len(A1[e]) :
          /\ Fifo!Left(SubSeq(A1[e], 1, n), A[e], Len(h[f]))
          /\ \A i \in (n + 1)..Len(A1[e]) : A1[e][i] \in Messages
          /\ o[e] \/ n = Len(A1[e])
  <2>1. PICK t \in Seq(Nat) : t = Acc(d)
    <3>1. PICK z \in Seq(Nat), q \in Seq(Nat) : z = d.sent /\ q = d.send_queue
      BY <1>3, ConnFacts, Zenon
    <3>2. z \o q \in Seq(Nat)
      BY ConcatProperties
    <3>3. QED
      BY <3>1, <3>2 DEF Acc
  <2>2. PICK n \in 0..Len(t) :
          /\ Fifo!Left(SubSeq(t, 1, n), Acc(c), Len(c.sent))
          /\ \A i \in (n + 1)..Len(t) : t[i] \in Messages
          /\ c.state = "ESTB" \/ n = Len(t)
    BY <1>3, <2>1 DEF Requeued
  <2>3. PICK H \in Nat, C \in Nat : H = Len(k.handed) /\ C = Len(c.sent) /\ H <= C
    <3>1. PICK b \in Nat : Mid(k, c, b)
      BY <1>1, <1>2 DEF ChanInv, EndOk
    <3>2. Len(k.handed) <= Len(c.sent)
      BY <3>1, HandedPrefix
    <3>3. Len(k.handed) \in Nat /\ Len(c.sent) \in Nat
      BY ConnFacts, Zenon
    <3>4. QED
      BY <3>2, <3>3
  <2>4. PICK u : u = SubSeq(t, 1, n)
    OBVIOUS
  <2>5. u \in Seq(Nat)
    BY <2>4, PrefixFacts
  <2>6. Fifo!Left(u, Acc(c), H)
    BY <2>2, <2>3, <2>4, <2>5, LeftLess
  <2>7. o[e] = (c.state = "ESTB")
    BY <1>2, <1>12
  <2>8. QED
    BY <1>14, <1>15, <2>1, <2>2, <2>3, <2>4, <2>6, <2>7
<1>20. /\ o[e] \/ h1[e] = h[e]
       /\ Len(h1[e]) \in Len(h[e])..Len(A[f])
       /\ h1[e] = SubSeq(A[f], 1, Len(h1[e]))
  <2>1. o[e] \/ h1[e] = h[e]
    <3>1. c.state # "ESTB" => d.handed = c.handed
      BY <1>3 DEF Later
    <3>2. QED
      BY <1>2, <1>12, <1>15, <3>1
  <2>2. /\ Len(d.handed) <= Len(Acc(k)) /\ d.handed = SubSeq(Acc(k), 1, Len(d.handed))
        /\ Acc(k) \in Seq(Nat)
    BY <1>3, HandedPrefix
  <2>3. PICK H \in Nat, H1 \in Nat, K \in Nat :
           H = Len(c.handed) /\ H1 = Len(d.handed) /\ K = Len(Acc(k)) /\ H <= H1
    <3>1. Len(c.handed) \in Nat /\ Len(d.handed) \in Nat
      BY <1>3, ConnFacts, Zenon
    <3>2. Len(Acc(k)) \in Nat
      BY <2>2, LenProperties
    <3>3. Len(c.handed) <= Len(d.handed)
      BY <1>3 DEF Later
    <3>4. QED
      BY <3>1, <3>2, <3>3
  <2>4. H1 \in H..K
    BY <2>2, <2>3
  <2>5. QED
    BY <1>14, <1>15, <2>1, <2>2, <2>3, <2>4
<1>21. f = Fifo!Peer(e)
  BY <1>1 DEF Fifo!Peer, Other
<1>22. QED
  BY <1>8, <1>9, <1>10, <1>11, <1>12, <1>13, <1>16, <1>17, <1>18, <1>19, <1>20, <1>21
     DEF Fifo!Step, Fifo!Queue, Fifo!Take, Messages

LEMMA PutOk ==
    ASSUME ChanInv, NEW e \in Ends, NEW a \in Nat, NEW d, Turn(d, conn[e], conn[Other(e)], a),
           FullOk(d), Put(e, d)
    PROVE  ChanInv' /\ Fifo!Step(e)
BY PutInv, PutStep

-----------------------------------------------------------------------------
(* Each handler keeps the invariant and is a step of the FIFO.             *)

LEMMA EndFacts ==
    ASSUME ChanInv, NEW e \in Ends
    PROVE  /\ conn[e] \in Conn /\ conn[Other(e)] \in Conn /\ conn[e].out = {} /\ FullOk(conn[e])
           /\ \E a \in Nat : Mid(conn[e], conn[Other(e)], a)
<1>1. Other(e) \in Ends
  BY OtherFacts
<1>2. QED
  BY <1>1 DEF ChanInv, EndOk

LEMMA HandlerOk ==
    ASSUME ChanInv, NEW e \in Ends, Handler(e)
    PROVE  ChanInv' /\ Fifo!Step(e)
<1>1. PICK c \in Conn, f \in Conn : c = conn[e] /\ f = conn[Other(e)]
  BY EndFacts
<1>2. PICK a \in Nat : Mid(c, f, a)
  BY <1>1, EndFacts
<1>3. PICK b \in Handled(e, c) : c.state = "ESTB" /\ Put(e, l2tp_tunnel_push_sendqueue(b))
  BY <1>1 DEF Handler
<1>4. PICK d : d = l2tp_tunnel_push_sendqueue(b)
  OBVIOUS
<1>5. Turn(b, c, f, a)
  BY <1>2, <1>3, HandledOk
<1>6. Turn(d, c, f, a) /\ FullOk(d)
  BY <1>4, <1>5, PushTurn
<1>7. QED
  BY <1>1, <1>3, <1>4, <1>6, PutOk

(* An end that gives up.                                                   *)
LEMMA FreedOk ==
    ASSUME ChanInv, NEW e \in Ends, Put(e, l2tp_tunnel_free(conn[e]))
    PROVE  ChanInv' /\ Fifo!Step(e)
<1>1. PICK c \in Conn, f \in Conn : c = conn[e] /\ f = conn[Other(e)]
  BY EndFacts
<1>2. PICK a \in Nat : Mid(c, f, a)
  BY <1>1, EndFacts
<1>3. PICK d : d = l2tp_tunnel_free(c)
  OBVIOUS
<1>4. Turn(d, c, f, a) /\ FullOk(d)
  BY <1>2, <1>3, FreeOk
<1>5. QED
  BY <1>1, <1>3, <1>4, PutOk

LEMMA RtimeoutOk ==
    ASSUME ChanInv, NEW e \in Ends, l2tp_rtimeout(e)
    PROVE  (ChanInv' /\ Fifo!Step(e)) \/ UNCHANGED chanVars
<1>1. PICK c \in Conn, f \in Conn : c = conn[e] /\ f = conn[Other(e)]
  BY EndFacts
<1>2. PICK a \in Nat : Mid(c, f, a) /\ FullOk(c)
  BY <1>1, EndFacts
<1>3. PICK n \in Nat : n = c.retransmit + 1
  BY ConnFacts
<1>4. PICK b : b = [c EXCEPT !.retransmit = n]
  OBVIOUS
<1>5. \/ UNCHANGED chanVars
      \/ Put(e, l2tp_tunnel_free(conn[e]))
      \/ /\ c.rtms_queue # <<>> /\ n <= MaxRetransmit
         /\ Put(e, __l2tp_tunnel_send(b, Head(c.rtms_queue)))
  <2>1. b.retransmit = n /\ b.rtms_queue = c.rtms_queue /\ MaxRetransmit \in Nat
    BY <1>4, HalfFacts DEF Conn
  <2>2. b = [conn[e] EXCEPT !.retransmit = @ + 1]
    BY <1>1, <1>3, <1>4
  <2>3. \/ UNCHANGED chanVars
        \/ /\ c.rtms_queue # <<>>
           /\ Put(e, IF b.retransmit > MaxRetransmit THEN l2tp_tunnel_free(conn[e])
                     ELSE __l2tp_tunnel_send(b, Head(b.rtms_queue)))
    BY <1>1, <2>2 DEF l2tp_rtimeout
  <2>4. CASE n > MaxRetransmit
    BY <2>1, <2>3, <2>4
  <2>5. CASE n <= MaxRetransmit
    <3>1. ~(n > MaxRetransmit)
      BY <2>1, <2>5
    <3>2. QED
      BY <2>1, <2>3, <2>5, <3>1
  <2>6. QED
    BY <2>1, <2>4, <2>5
<1>6. CASE Put(e, l2tp_tunnel_free(conn[e]))
  BY <1>6, FreedOk
<1>7. CASE /\ c.rtms_queue # <<>> /\ n <= MaxRetransmit
           /\ Put(e, __l2tp_tunnel_send(b, Head(c.rtms_queue)))
  <2>1. n \in 0..MaxRetransmit
    BY <1>7, HalfFacts
  <2>2. b \in Conn
    BY <1>4, <2>1 DEF Conn
  <2>3. /\ b.state = c.state /\ b.Ns = c.Ns /\ b.Nr = c.Nr /\ b.peer_Nr = c.peer_Nr
        /\ b.recv_queue = c.recv_queue /\ b.recv_queue_offt = c.recv_queue_offt /\ b.out = c.out
        /\ b.sent = c.sent /\ b.got = c.got /\ b.handed = c.handed /\ b.send_queue = c.send_queue
        /\ b.rtms_queue = c.rtms_queue /\ b.rtimeout_timer = c.rtimeout_timer
    BY <1>4 DEF Conn
  <2>4. CoreOk(b, f.sent, f.got, a) /\ Later(b, c)
    <3>1. f.sent \in Seq(Nat) /\ f.got \in Nat /\ CoreOk(c, f.sent, f.got, a)
      BY <1>2, ConnFacts DEF Mid
    <3>2. b.state = "ESTB" => c.state = "ESTB"
      BY <2>3
    <3>3. QED
      BY <2>2, <2>3, <3>1, <3>2, SameOk, Zenon
  <2>5. FlightOk(b, a)
    BY <1>2, <2>3 DEF Mid, FlightOk
  <2>6. TimerOk(b)
    BY <1>2, <2>3 DEF Mid, TimerOk
  <2>7. Mid(b, f, a) /\ FullOk(b) /\ Acc(b) = Acc(c)
    BY <1>2, <2>3, <2>4, <2>5, <2>6 DEF Mid, FullOk, Acc
  <2>8. Turn(b, c, f, a)
    BY <1>2, <2>2, <2>4, <2>7, TurnSelf, TurnThen
  <2>9. PICK q \in Seq(Message), X \in Nat : q = c.rtms_queue /\ X = Len(q) /\ X >= 1
    <3>1. PICK q \in Seq(Message), X \in Nat : q = c.rtms_queue /\ X = Len(q)
      BY ConnFacts, Zenon
    <3>2. X # 0
      BY <1>7, <3>1, EmptySeq
    <3>3. QED
      BY <3>1, <3>2
  <2>10. PICK m \in Message : m = Head(q) /\ m = q[1]
    BY <2>9, HeadTailProperties, ElementOfSeq
  <2>11. PICK S \in Nat : /\ S = Len(b.sent) /\ S = a + X /\ m.ns = a /\ m.Ns = Num(a)
                          /\ m.body = b.sent[a + 1]
    <3>1. PICK S \in Nat : S = Len(b.sent)
      BY <2>2, ConnFacts, Zenon
    <3>2. c.state # "CLOSE"
      BY <1>2, <1>7 DEF Mid, TimerOk
    <3>3. S = a + X /\ \A i \in 1..X : /\ q[i].ns = a + i - 1 /\ q[i].Ns = Num(a + i - 1)
                                       /\ q[i].body = b.sent[a + i]
      BY <2>3, <2>5, <2>9, <3>1, <3>2 DEF FlightOk
    <3>4. 1 \in 1..X /\ a + 1 - 1 = a
      BY <2>9
    <3>5. QED
      BY <2>10, <3>1, <3>3, <3>4
  <2>12. PICK p : p = [Ns |-> m.Ns, Nr |-> b.Nr, body |-> m.body, ns |-> m.ns, nr |-> b.got]
    OBVIOUS
  <2>13. m.Ns \in Seqno /\ m.body \in Nat /\ m.ns \in Nat /\ b.Nr \in Seqno /\ b.got \in Nat
    BY <2>2, ConnFacts DEF Message
  <2>14. p \in Datagram /\ p.Ns = m.Ns /\ p.Nr = b.Nr /\ p.body = m.body /\ p.ns = m.ns /\ p.nr = b.got
    BY <2>12, <2>13 DEF Datagram
  <2>15. Numbered(p, b.sent) /\ a <= p.ns
    <3>1. a <= S /\ a < S /\ a <= a
      BY <2>9, <2>11
    <3>2. QED
      BY <2>11, <2>14, <3>1 DEF Numbered
  <2>16. PICK d : d = __l2tp_tunnel_send(b, Head(c.rtms_queue))
    OBVIOUS
  <2>17. d = [b EXCEPT !.out = @ \cup {p}]
    BY <2>9, <2>10, <2>12, <2>16 DEF __l2tp_tunnel_send
  <2>18. d \in Conn /\ Mid(d, f, a) /\ Later(d, b) /\ Acc(d) = Acc(b) /\ FullOk(d)
    BY <2>2, <2>7, <2>14, <2>15, <2>17, SendOk
  <2>19. Turn(d, c, f, a)
    BY <2>8, <2>18, TurnThen
  <2>20. QED
    BY <1>1, <1>7, <2>16, <2>18, <2>19, PutOk
<1>8. QED
  BY <1>5, <1>6, <1>7

LEMMA ReadOk ==
    ASSUME ChanInv, NEW e \in Ends, l2tp_conn_read(e)
    PROVE  ChanInv' /\ Fifo!Step(e)
<1>1. PICK c \in Conn, f \in Conn : c = conn[e] /\ f = conn[Other(e)] /\ c.out = {}
  BY EndFacts
<1>2. PICK a \in Nat : Mid(c, f, a)
  BY <1>1, EndFacts
<1>3. PICK p \in net, q \in net :
         /\ c.state # "CLOSE" /\ p.to = e /\ q.to = e
         /\ LET c1 == l2tp_tunnel_store_msg(l2tp_tunnel_store_msg(c, p), q)
                c2 == l2tp_tunnel_clean_rtmsqueue(c1)
            IN  \E d \in l2tp_tunnel_reply(e, c2) :
                   Put(e, IF d.state = "FIN" /\ d.send_queue = <<>> /\ d.rtms_queue = <<>>
                          THEN l2tp_tunnel_free(d) ELSE d)
  BY <1>1 DEF l2tp_conn_read
<1>4. p \in Packets /\ q \in Packets /\ PacketOk(p, f, c) /\ PacketOk(q, f, c)
  BY <1>1, <1>3 DEF ChanInv
<1>5. PICK x : x = l2tp_tunnel_store_msg(c, p)
  OBVIOUS
<1>6. /\ x \in Conn /\ Later(x, c) /\ x.state = c.state /\ x.out = {}
      /\ x.sent = c.sent /\ x.send_queue = c.send_queue /\ x.rtms_queue = c.rtms_queue
      /\ x.rtimeout_timer = c.rtimeout_timer
      /\ \E n \in Nat : a <= n /\ CoreOk(x, f.sent, f.got, n)
  BY <1>1, <1>2, <1>4, <1>5, StoreOk DEF Mid
<1>7. PICK a1 \in Nat : a <= a1 /\ CoreOk(x, f.sent, f.got, a1)
  BY <1>6
<1>8. PICK y : y = l2tp_tunnel_store_msg(x, q)
  OBVIOUS
<1>9. PacketOk(q, f, x)
  BY <1>4, <1>6 DEF PacketOk
<1>10. /\ y \in Conn /\ Later(y, x) /\ y.state = x.state /\ y.out = {}
       /\ y.sent = x.sent /\ y.send_queue = x.send_queue /\ y.rtms_queue = x.rtms_queue
       /\ y.rtimeout_timer = x.rtimeout_timer
       /\ \E n \in Nat : a1 <= n /\ CoreOk(y, f.sent, f.got, n)
  BY <1>4, <1>6, <1>7, <1>8, <1>9, StoreOk
<1>11. PICK a2 \in Nat : a1 <= a2 /\ CoreOk(y, f.sent, f.got, a2)
  BY <1>10
<1>12. FlightOk(y, a) /\ TimerOk(y) /\ y.state # "CLOSE"
  BY <1>2, <1>3, <1>6, <1>10 DEF Mid, FlightOk, TimerOk
<1>13. a <= a2 /\ Len(y.sent) <= a + Window
  <2>1. Len(c.sent) <= a + Window
    BY <1>2 DEF Mid, CoreOk
  <2>2. QED
    BY <1>6, <1>7, <1>10, <1>11, <2>1
<1>14. PICK z : z = l2tp_tunnel_clean_rtmsqueue(y)
  OBVIOUS
<1>15. f.sent \in Seq(Nat) /\ f.got \in Nat
  BY ConnFacts, Zenon
<1>16. /\ z \in Conn /\ z.state = y.state /\ z.sent = y.sent /\ z.send_queue = y.send_queue
       /\ CoreOk(z, f.sent, f.got, a2) /\ FlightOk(z, a2) /\ TimerOk(z) /\ Later(z, y)
  BY <1>10, <1>11, <1>12, <1>13, <1>14, <1>15, CleanOk
<1>17. Mid(z, f, a2)
  BY <1>16 DEF Mid
<1>18. Later(z, c)
  BY <1>6, <1>10, <1>16, LaterTrans
<1>19. PICK d \in l2tp_tunnel_reply(e, z) :
          Put(e, IF d.state = "FIN" /\ d.send_queue = <<>> /\ d.rtms_queue = <<>>
                 THEN l2tp_tunnel_free(d) ELSE d)
  BY <1>3, <1>5, <1>8, <1>14
<1>20. PICK b \in Processed(e, z) : d = Answered(b)
  BY DEF l2tp_tunnel_reply
<1>21. Turn(b, z, f, a2)
  BY <1>16, <1>17, ProcessedOk
<1>22. Turn(d, z, f, a2) /\ FullOk(d)
  BY <1>16, <1>20, <1>21, AnsweredOk
<1>23. Turn(d, c, f, a2)
  BY <1>6, <1>10, <1>16, <1>18, <1>22, TurnAfter
<1>24. CASE d.state = "FIN" /\ d.send_queue = <<>> /\ d.rtms_queue = <<>>
  <2>1. PICK w : w = l2tp_tunnel_free(d)
    OBVIOUS
  <2>2. d \in Conn /\ Mid(d, f, a2)
    BY <1>23 DEF Turn
  <2>3. Turn(w, d, f, a2) /\ FullOk(w) /\ w.sent = d.sent /\ w.send_queue = <<>>
    BY <2>1, <2>2, FreeOk
  <2>4. w \in Conn /\ Mid(w, f, a2) /\ Later(w, d)
    BY <2>3 DEF Turn
  <2>5. Acc(w) = Acc(d)
    BY <1>24, <2>3 DEF Acc
  <2>6. Turn(w, c, f, a2)
    BY <1>23, <2>4, <2>5, TurnThen
  <2>7. QED
    BY <1>1, <1>19, <1>24, <2>1, <2>3, <2>6, PutOk
<1>25. CASE ~(d.state = "FIN" /\ d.send_queue = <<>> /\ d.rtms_queue = <<>>)
  BY <1>1, <1>19, <1>22, <1>23, <1>25, PutOk
<1>26. QED
  BY <1>24, <1>25

LEMMA ChanInvInit ==
    ASSUME ChanInit
    PROVE  ChanInv /\ Fifo!FifoInit
<1>1. PICK c : c = l2tp_tunnel_alloc
  OBVIOUS
<1>2. PICK q : q = [i \in 0..(Window - 1) |-> None]
  OBVIOUS
<1>3. q \in [0..(Window - 1) -> Int]
  BY <1>2 DEF None
<1>4. /\ FirstNs \in Seqno /\ 0 \in 0..(Window - 1) /\ 0 \in 0..MaxRetransmit
      /\ <<>> \in Seq(Nat) /\ <<>> \in Seq(Message) /\ {} \in SUBSET Datagram
  BY HalfFacts, EmptySeq
<1>5. /\ c.state = "ESTB" /\ c.Ns = FirstNs /\ c.Nr = FirstNs /\ c.peer_Nr = FirstNs
      /\ c.send_queue = <<>> /\ c.rtms_queue = <<>> /\ c.recv_queue = q /\ c.recv_queue_offt = 0
      /\ c.rtimeout_timer = FALSE /\ c.out = {} /\ c.sent = <<>> /\ c.got = 0 /\ c.handed = <<>>
  BY <1>1, <1>2 DEF l2tp_tunnel_alloc
<1>6. c \in Conn
  BY <1>1, <1>2, <1>3, <1>4 DEF l2tp_tunnel_alloc, Conn
<1>7. Num(0) = FirstNs
  <2>1. 0 <= FirstNs /\ FirstNs < SeqSpace /\ FirstNs + 0 = FirstNs /\ FirstNs \in Int
    BY HalfFacts DEF Seqno
  <2>2. FirstNs % SeqSpace = FirstNs
    <3>1. PICK M \in Nat \ {0}, z \in Int : M = SeqSpace /\ z = FirstNs /\ 0 <= z /\ z < M /\ -M <= z
      BY <2>1, HalfFacts
    <3>2. z % M = z
      BY <3>1, ModDown
    <3>3. QED
      BY <3>1, <3>2
  <2>3. QED
    BY <2>1, <2>2 DEF Num, Plus
<1>8. RingOk(c, 0, <<>>)
  <2>1. ASSUME NEW k \in 0..(Window - 1) PROVE q[(0 + k) % Window] = None
    <3>1. (0 + k) % Window \in 0..(Window - 1)
      BY <1>4, RingFacts
    <3>2. QED
      BY <1>2, <3>1
  <2>2. QED
    BY <1>5, <2>1 DEF RingOk
<1>9. Len(<<>>) = 0
  BY EmptySeq
<1>10. HandedOk(c, <<>>) /\ OutOk(c, <<>>, 0)
  BY <1>5, <1>9 DEF HandedOk, OutOk
<1>11. CoreOk(c, c.sent, c.got, 0)
  <2>1. 0 <= 0 /\ 0 <= 0 + Window
    BY HalfFacts
  <2>2. QED
    BY <1>5, <1>7, <1>8, <1>9, <1>10, <2>1 DEF CoreOk
<1>12. Mid(c, c, 0) /\ FullOk(c)
  BY <1>5, <1>9, <1>11 DEF Mid, FlightOk, TimerOk, FullOk
<1>13. conn = [e \in Ends |-> c] /\ net = {}
  BY <1>1 DEF ChanInit
<1>14. ChanInv
  <2>1. 0 \in Nat
    OBVIOUS
  <2>2. \A e \in Ends : EndOk(conn[e], conn[Other(e)])
    BY <1>5, <1>12, <1>13, <2>1, OtherFacts DEF EndOk
  <2>3. QED
    BY <1>6, <1>13, <2>2 DEF ChanInv
<1>15. Fifo!FifoInit
  <2>1. <<>> \o <<>> = <<>>
    BY ConcatEmptySeq, EmptySeq
  <2>2. \A e \in Ends : Accepted(e) = <<>> /\ conn[e].handed = <<>> /\ conn[e].state = "ESTB"
    BY <1>5, <1>13, <2>1 DEF Accepted
  <2>3. QED
    BY <2>2 DEF Fifo!FifoInit
<1>16. QED
  BY <1>14, <1>15

LEMMA ChanInvNext ==
    ASSUME ChanInv, [ChanNext]_chanVars
    PROVE  ChanInv' /\ [Fifo!FifoNext]_(Fifo!fifoVars)
<1>1. ASSUME conn' = conn, net' \subseteq net PROVE ChanInv' /\ [Fifo!FifoNext]_(Fifo!fifoVars)
  <2>1. ChanInv'
    BY <1>1 DEF ChanInv
  <2>2. \A e \in Ends : Accepted(e)' = Accepted(e)
    BY <1>1 DEF Accepted
  <2>3. UNCHANGED Fifo!fifoVars
    BY <1>1, <2>2 DEF Fifo!fifoVars
  <2>4. QED
    BY <2>1, <2>3
<1>2. CASE UNCHANGED chanVars
  BY <1>1, <1>2 DEF chanVars
<1>3. ASSUME NEW e \in Ends, Handler(e) PROVE ChanInv' /\ [Fifo!FifoNext]_(Fifo!fifoVars)
  BY <1>3, HandlerOk DEF Fifo!FifoNext
<1>4. ASSUME NEW e \in Ends, l2tp_conn_read(e) PROVE ChanInv' /\ [Fifo!FifoNext]_(Fifo!fifoVars)
  BY <1>4, ReadOk DEF Fifo!FifoNext
<1>5. ASSUME NEW e \in Ends, l2tp_conn_error(e) PROVE ChanInv' /\ [Fifo!FifoNext]_(Fifo!fifoVars)
  BY <1>5, FreedOk DEF Fifo!FifoNext, l2tp_conn_error
<1>6. ASSUME NEW e \in Ends, l2tp_rtimeout(e) PROVE ChanInv' /\ [Fifo!FifoNext]_(Fifo!fifoVars)
  <2>1. (ChanInv' /\ Fifo!Step(e)) \/ UNCHANGED chanVars
    BY <1>6, RtimeoutOk
  <2>2. QED
    BY <1>2, <2>1 DEF Fifo!FifoNext
<1>7. ASSUME NEW e \in Ends, l2tp_tunnel_finwait_timeout(e)
      PROVE  ChanInv' /\ [Fifo!FifoNext]_(Fifo!fifoVars)
  BY <1>7, FreedOk DEF Fifo!FifoNext, l2tp_tunnel_finwait_timeout
<1>8. ASSUME NEW p \in net, Lose(p) PROVE ChanInv' /\ [Fifo!FifoNext]_(Fifo!fifoVars)
  BY <1>1, <1>8 DEF Lose
<1>9. QED
  BY <1>2, <1>3, <1>4, <1>5, <1>6, <1>7, <1>8 DEF ChanNext

(* The control channel of an L2TP tunnel is a FIFO: for every window,      *)
(* sequence space, first sequence number, limit of retransmissions and     *)
(* number of messages, as long as no datagram outlives half the sequence   *)
(* space, whatever the network loses, repeats, reorders or delays,         *)
(* l2tp_tunnel_reply processes what the peer gave l2tp_tunnel_send, in     *)
(* that order and once each, but for messages the peer withdraws from its  *)
(* send queue, and none of these was processed.                            *)
THEOREM ChannelRefinesFifo == ChanSpec => ChannelIsFifo
<1>1. ChanInit => ChanInv /\ Fifo!FifoInit
  BY ChanInvInit
<1>2. ChanInv /\ [ChanNext]_chanVars => ChanInv' /\ [Fifo!FifoNext]_(Fifo!fifoVars)
  BY ChanInvNext
<1>3. QED
  BY <1>1, <1>2, PTL DEF ChanSpec, ChannelIsFifo

(* Flow control, under the same conditions: l2tp_tunnel_push_sendqueue     *)
(* never has more messages unacknowledged than the peer's window holds and *)
(* leaves none queued while there is room, and the retransmission timer    *)
(* runs exactly while a message is unacknowledged.                         *)
THEOREM WindowIsRespected == ChanSpec => []WindowRespected
<1>1. ChanInit => ChanInv
  BY ChanInvInit
<1>2. ChanInv /\ [ChanNext]_chanVars => ChanInv'
  BY ChanInvNext
<1>3. ChanInv => WindowRespected
  <2> SUFFICES ASSUME ChanInv, NEW e \in Ends
               PROVE  /\ Len(conn[e].rtms_queue) <= Window
                      /\ conn[e].rtimeout_timer <=> conn[e].rtms_queue # <<>>
                      /\ conn[e].send_queue # <<>> => Len(conn[e].rtms_queue) = Window
    BY DEF WindowRespected
  <2>1. PICK c \in Conn, f \in Conn : c = conn[e] /\ f = conn[Other(e)] /\ FullOk(c)
    BY EndFacts
  <2>2. PICK a \in Nat : Mid(c, f, a)
    BY <2>1, EndFacts
  <2>3. TimerOk(c)
    BY <2>2 DEF Mid
  <2>4. Len(c.rtms_queue) <= Window
    <3>1. CASE c.state = "CLOSE"
      <4>1. c.rtms_queue = <<>>
        BY <2>3, <3>1 DEF TimerOk
      <4>2. Len(<<>>) = 0 /\ 0 <= Window
        BY EmptySeq, HalfFacts
      <4>3. QED
        BY <4>1, <4>2
    <3>2. CASE c.state # "CLOSE"
      <4>1. PICK S \in Nat, X \in Nat : S = Len(c.sent) /\ X = Len(c.rtms_queue)
        BY ConnFacts, Zenon
      <4>2. S <= a + Window /\ S = a + X
        BY <2>2, <3>2, <4>1 DEF Mid, CoreOk, FlightOk
      <4>3. QED
        BY <4>1, <4>2, HalfFacts
    <3>3. QED
      BY <3>1, <3>2
  <2>5. QED
    BY <2>1, <2>3, <2>4 DEF TimerOk, FullOk
<1>4. QED
  BY <1>1, <1>2, <1>3, PTL DEF ChanSpec
=============================================================================
