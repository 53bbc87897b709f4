----------------------------- MODULE PppProofs -----------------------------
(***************************************************************************)
(* What holds of a PPP session (module Ppp) for every configuration of its *)
(* network protocols, every number of retries and every bound on queued    *)
(* disconnects.  The argument follows the life of the session: until       *)
(* connect_channel has set it up nothing has happened, also when that      *)
(* fails (Fresh), then the session is held by its LCP layer, which is the  *)
(* last to finish (Held), and once the layers are freed nothing is left    *)
(* that could call them (Released).                                        *)
(***************************************************************************)
EXTENDS Ppp, TLAPS, WellFoundedInduction, NaturalsInduction

PppState == [fsm: [Automaton -> Fsm], ld: [Layer -> Flags], ses: Ses]

Queued(s, c) == \E i \in 1..Len(s.ses.calls) : s.ses.calls[i] = c

(* Every state a handler passes through.                                   *)
Typed(s) == s \in PppState /\ s.ses.conf = ses.conf

(* The session was connected and its layers exist.                         *)
Living(s) ==
    /\ ~s.ses.bad /\ ~s.ses.freed /\ ~s.ses.finished /\ ~s.ses.gone
    /\ s.ses.state # "none"
    /\ s.ses.terminating <=> s.ses.state = "finishing"
    /\ ~Queued(s, "connect")

(* LCP holds the session: a soft termination never frees its layers.       *)
LinkHeld(s) ==
    /\ s.ld["lcp"].starting /\ ~s.ld["lcp"].finished
    /\ s.fsm["lcp"].state \notin {"Initial", "Starting"}

(* Between handlers a terminating session has only LCP left.               *)
OnlyLink(s) ==
    /\ s.ses.terminating => \A d \in Layer \ {"lcp"} : ~s.ld[d].starting
    /\ Queued(s, "lcpFinished") => s.ses.terminating
    /\ s.ses.query => s.ses.auth = "active"

Base(s) == Typed(s) /\ Living(s) /\ LinkHeld(s) /\ OnlyLink(s)

(* The authentication of a session that goes on: nothing of it precedes    *)
(* the link, and it succeeded before it was reported.                      *)
Authentic(s) ==
    /\ s.ses.auth # "off" => s.ld["lcp"].up
    /\ Queued(s, "authStarted") => s.ses.auth = "acked"
    /\ s.ld["auth"].started =>
          s.ld["lcp"].up /\ (NoAuth \/ s.ses.auth = "acked")

(* The network protocols of a session that goes on.                        *)
NcpSound(s, n) ==
    /\ s.ld[n].begun \/ s.ld[n].up => s.ld["auth"].started
    /\ s.ld[n].started => s.ld[n].up
    /\ s.ld[n].passive => Mode[n] # "require" \/ n = "ccp"
    /\ n = "ccp" => s.ld[n].addr
    /\ s.fsm[n].state \notin {"Initial", "Closed"} => s.ld[n].addr

Carrying(s) ==
    s.ses.state = "active" =>
        s.ld["auth"].started /\ \E n \in Ncp : s.ld[n].started /\ ~Optional(n)

Network(s) ==
    ~s.ses.terminating =>
        Authentic(s) /\ Carrying(s) /\ \A n \in Ncp : NcpSound(s, n)

Held(s) == Base(s) /\ s.ses.linked /\ Network(s)

(* Nothing of the session exists: it waits for connect_channel, or that    *)
(* has failed and the connection is gone.                                  *)
Fresh(s) ==
    /\ Typed(s)
    /\ s.fsm = [l \in Automaton |-> NewFsm]
    /\ s.ld = [d \in Layer |-> NewLayer(d)]
    /\ s.ses.state = "none" /\ s.ses.auth = "off"
    /\ ~s.ses.bad /\ ~s.ses.freed /\ ~s.ses.finished
    /\ ~s.ses.terminating /\ ~s.ses.linked
    /\ ~s.ses.timer /\ ~s.ses.echo /\ ~s.ses.authTimer /\ ~s.ses.query
    /\ s.ses.gone => s.ses.calls = <<>>
    /\ ~s.ses.gone => s.ses.calls # <<>> /\ s.ses.calls[1] = "connect"
    /\ \A i \in 2..Len(s.ses.calls) : s.ses.calls[i] = "disconnect"

Silenced(s) ==
    /\ \A l \in Automaton : ~s.fsm[l].timer
    /\ \A d \in Layer : ~s.ld[d].timeout
    /\ ~s.ses.echo /\ ~s.ses.authTimer /\ ~s.ses.timer /\ ~s.ses.query
    /\ \A i \in 1..Len(s.ses.calls) : s.ses.calls[i] = "disconnect"

Released(s) ==
    /\ Typed(s) /\ Silenced(s)
    /\ ~s.ses.bad /\ s.ses.freed /\ s.ses.finished /\ ~s.ses.linked
    /\ s.ses.terminating /\ s.ses.state = "finishing"
    /\ ~s.ses.gone => Queued(s, "disconnect")

PppInv == Fresh(State) \/ Held(State) \/ Released(State)

(* The restart timer of the link, and when the link is open.               *)
Waiting(f) == f.state \in Negotiating \cup {"Closing", "Stopping"}

Timed(s) ==
    /\ Waiting(s.fsm["lcp"]) => s.fsm["lcp"].timer
    /\ ~s.ses.terminating =>
          (s.fsm["lcp"].state = "Opened" <=> s.ld["lcp"].up)

TimedInv == Held(State) => Timed(State)
-----------------------------------------------------------------------------
(* Induction up to a bound, and the queue that is left after a cancel.     *)

LessPairs == {p \in Nat \X Nat : p[1] < p[2]}

(* Every set of naturals with a member has a least one.                    *)
LEMMA LeastNatural ==
    ASSUME NEW T, T \subseteq Nat, T # {}
    PROVE  \E x \in T : \A y \in T : x <= y
<1>1. IsWellFoundedOn(OpToRel(<, Nat), Nat)
  BY NatLessThanWellFounded, Zenon
<1>2. OpToRel(<, Nat) = LessPairs
  BY Zenon DEF OpToRel, LessPairs
<1>3. IsWellFoundedOn(LessPairs, Nat)
  BY <1>1, <1>2, Zenon
<1>4. PICK x \in T : \A y \in T : ~(<<y, x>> \in LessPairs)
  BY <1>3, WFMin, Zenon
<1>5. ASSUME NEW y \in T, ~(x <= y) PROVE FALSE
  <2>1. x \in Nat /\ y \in Nat /\ y < x
    BY <1>5
  <2>2. <<y, x>> \in LessPairs
    BY <2>1 DEF LessPairs
  <2> QED BY <2>2, <1>4
<1> QED BY <1>5

(* A set that has 0 and, up to m, the successor of each of its members has *)
(* every number up to m.                                                   *)
LEMMA UpTo ==
    ASSUME NEW S, NEW m \in Nat, 0 \in S,
           \A k \in 0..m : k \in S /\ k < m => k + 1 \in S
    PROVE  \A k \in 0..m : k \in S
<1> DEFINE T == {k \in 0..m : k \notin S}
<1> SUFFICES ASSUME T # {} PROVE FALSE
  OBVIOUS
<1>1. T \subseteq Nat
  OBVIOUS
<1> HIDE DEF T
<1>2. PICK x \in T : \A y \in T : x <= y
  BY <1>1, LeastNatural
<1>3. x \in 0..m /\ x \notin S
  BY DEF T
<1>4. x # 0
  BY <1>3
<1>5. x - 1 \in 0..m /\ x - 1 < m /\ (x - 1) + 1 = x
  BY <1>3, <1>4
<1>6. x - 1 \in S
  BY <1>2, <1>5 DEF T
<1> QED BY <1>3, <1>5, <1>6

KeptStep(q, cs, g, i) ==
    IF i = 0 THEN <<>>
    ELSE IF q[i] \in cs THEN g[i - 1] ELSE Append(g[i - 1], q[i])

Kept(q, cs, g, m) == g = [i \in 0..m |-> KeptStep(q, cs, g, i)]

(* The prefixes of the queue that is left exist.                           *)
LEMMA KeptExists ==
    ASSUME NEW q, NEW cs, NEW m \in Nat
    PROVE  \E g : Kept(q, cs, g, m)
<1> DEFINE S == {k \in 0..m : \E g : Kept(q, cs, g, k)}
<1>1. 0 \in S
  <2> DEFINE g == [i \in 0..0 |-> <<>>]
  <2>1. g = [i \in 0..0 |-> KeptStep(q, cs, g, i)]
    BY DEF KeptStep
  <2> HIDE DEF g
  <2> QED BY <2>1 DEF Kept
<1>2. ASSUME NEW k \in 0..m, k \in S, k < m PROVE k + 1 \in S
  <2>1. PICK g : Kept(q, cs, g, k)
    BY <1>2
  <2> DEFINE h == [i \in 0..(k + 1) |-> IF i = k + 1 THEN KeptStep(q, cs, g, i)
                                                     ELSE g[i]]
  <2>2. ASSUME NEW i \in 0..(k + 1) PROVE h[i] = KeptStep(q, cs, h, i)
    <3>1. i # 0 => i - 1 \in 0..k /\ i - 1 \in 0..(k + 1) /\ i - 1 # k + 1
      OBVIOUS
    <3>2. i # 0 => h[i - 1] = g[i - 1]
      BY <3>1
    <3>3. KeptStep(q, cs, h, i) = KeptStep(q, cs, g, i)
      BY <3>2 DEF KeptStep
    <3>4. CASE i = k + 1
      BY <3>3, <3>4
    <3>5. CASE i # k + 1
      <4>1. i \in 0..k
        BY <3>5
      <4>2. g[i] = KeptStep(q, cs, g, i)
        BY <4>1, <2>1 DEF Kept
      <4> QED BY <4>2, <3>3, <3>5
    <3> QED BY <3>4, <3>5
  <2>3. h = [i \in 0..(k + 1) |-> h[i]]
    OBVIOUS
  <2> HIDE DEF h
  <2>4. h = [i \in 0..(k + 1) |-> KeptStep(q, cs, h, i)]
    BY <2>2, <2>3
  <2>5. Kept(q, cs, h, k + 1)
    BY <2>4, Zenon DEF Kept
  <2> QED BY <2>5, <1>2
<1> HIDE DEF S
<1>3. \A k \in 0..m : k \in S
  BY <1>1, <1>2, UpTo
<1>4. m \in S
  BY <1>3
<1> QED BY <1>4 DEF S

(* What is queued after a cancel is what was queued and not cancelled.     *)
LEMMA WithoutQueue ==
    ASSUME NEW S, NEW q \in Seq(S), NEW cs
    PROVE  /\ Without(q, cs) \in Seq(S)
           /\ \A i \in 1..Len(Without(q, cs)) :
                 /\ Without(q, cs)[i] \notin cs
                 /\ \E j \in 1..Len(q) : q[j] = Without(q, cs)[i]
           /\ \A j \in 1..Len(q) : q[j] \notin cs =>
                 \E i \in 1..Len(Without(q, cs)) : Without(q, cs)[i] = q[j]
<1> DEFINE m == Len(q)
<1>0. m \in Nat
  OBVIOUS
<1> DEFINE k == CHOOSE g : Kept(q, cs, g, m)
<1>1. Without(q, cs) = k[m]
  BY DEF Without, Kept, KeptStep
<1>2. Kept(q, cs, k, m)
  BY <1>0, KeptExists, Zenon
<1> HIDE DEF k
<1>3. \A i \in 0..m : k[i] = KeptStep(q, cs, k, i)
  BY <1>2 DEF Kept
<1> DEFINE Good(i) == /\ k[i] \in Seq(S)
                      /\ \A a \in 1..Len(k[i]) :
                            k[i][a] \notin cs /\ \E j \in 1..m : q[j] = k[i][a]
                      /\ \A j \in 1..i : q[j] \notin cs =>
                            \E a \in 1..Len(k[i]) : k[i][a] = q[j]
           T == {i \in 0..m : Good(i)}
<1>4. 0 \in T
  <2>1. k[0] = <<>>
    BY <1>3, <1>0 DEF KeptStep
  <2>2. k[0] \in Seq(S) /\ Len(k[0]) = 0
    BY <2>1
  <2>3. Good(0)
    BY <2>2
  <2> QED BY <2>3, <1>0
<1>5. ASSUME NEW i \in 0..m, i \in T, i < m PROVE i + 1 \in T
  <2>1. i + 1 \in 1..m /\ (i + 1) - 1 = i /\ i + 1 # 0
    BY <1>5
  <2>2. k[i + 1] = IF q[i + 1] \in cs THEN k[i] ELSE Append(k[i], q[i + 1])
    BY <1>3, <2>1 DEF KeptStep
  <2>3. q[i + 1] \in S
    BY <2>1
  <2>4. PICK old : old = k[i]
    OBVIOUS
  <2>5. PICK new : new = k[i + 1]
    OBVIOUS
  <2>6. old \in Seq(S)
    BY <1>5, <2>4
  <2>7. \A a \in 1..Len(old) : old[a] \notin cs /\ \E j \in 1..m : q[j] = old[a]
    BY <1>5, <2>4
  <2>8. \A j \in 1..i : q[j] \notin cs => \E a \in 1..Len(old) : old[a] = q[j]
    BY <1>5, <2>4
  <2>9. CASE q[i + 1] \in cs
    <3>1. new = old
      BY <2>2, <2>4, <2>5, <2>9
    <3>2. \A j \in 1..(i + 1) : q[j] \notin cs =>
             \E a \in 1..Len(old) : old[a] = q[j]
      BY <2>8, <2>9
    <3> QED BY <3>1, <3>2, <2>5, <2>6, <2>7, <2>1
  <2>10. CASE q[i + 1] \notin cs
    <3>1. new = Append(old, q[i + 1])
      BY <2>2, <2>4, <2>5, <2>10
    <3>2. /\ new \in Seq(S) /\ Len(new) = Len(old) + 1
          /\ new[Len(old) + 1] = q[i + 1]
          /\ \A a \in 1..Len(old) : new[a] = old[a]
      BY <3>1, <2>3, <2>6
    <3>3. Len(old) \in Nat
      BY <2>6
    <3>4. \A a \in 1..Len(new) :
             new[a] \notin cs /\ \E j \in 1..m : q[j] = new[a]
      <4> SUFFICES ASSUME NEW a \in 1..Len(new)
                   PROVE new[a] \notin cs /\ \E j \in 1..m : q[j] = new[a]
        OBVIOUS
      <4>1. CASE a = Len(old) + 1
        BY <4>1, <3>2, <2>10, <2>1
      <4>2. CASE a \in 1..Len(old)
        BY <4>2, <3>2, <2>7
      <4> QED BY <4>1, <4>2, <3>2, <3>3
    <3>5. \A j \in 1..(i + 1) : q[j] \notin cs =>
             \E a \in 1..Len(new) : new[a] = q[j]
      <4> SUFFICES ASSUME NEW j \in 1..(i + 1), q[j] \notin cs
                   PROVE \E a \in 1..Len(new) : new[a] = q[j]
        OBVIOUS
      <4>1. CASE j = i + 1
        BY <4>1, <3>2, <3>3
      <4>2. CASE j \in 1..i
        <5>1. PICK a \in 1..Len(old) : old[a] = q[j]
          BY <4>2, <2>8
        <5>2. a \in 1..Len(new) /\ new[a] = q[j]
          BY <5>1, <3>2, <3>3
        <5> QED BY <5>2
      <4> QED BY <4>1, <4>2
    <3> QED BY <3>2, <3>4, <3>5, <2>5, <2>1
  <2> QED BY <2>9, <2>10
<1> HIDE DEF T
<1>6. \A i \in 0..m : i \in T
  BY <1>0, <1>4, <1>5, UpTo
<1>7. m \in T
  BY <1>0, <1>6
<1>8. Good(m)
  BY <1>7 DEF T
<1> QED BY <1>1, <1>8
-----------------------------------------------------------------------------
(* The automaton: what its handlers return.                                *)

LEMMA CounterBounds ==
    /\ MaxCounter \in Nat /\ MaxTerminate \in 0..MaxCounter
    /\ MaxConfigure \in 0..MaxCounter /\ MaxFailure \in 0..MaxCounter
<1> DEFINE M == {MaxTerminate, MaxConfigure, MaxFailure}
<1>1. \E m \in M : \A k \in M : k <= m
  BY FsmAssumption
<1>2. MaxCounter \in M /\ \A k \in M : k <= MaxCounter
  BY <1>1 DEF MaxCounter
<1> QED BY <1>2, FsmAssumption

LEMMA FsmFields ==
    ASSUME NEW f \in Fsm
    PROVE  /\ f.state \in FsmState /\ f.timer \in BOOLEAN
           /\ f.counter \in 0..MaxCounter /\ f.failure \in 0..(MaxFailure + 1)
BY DEF Fsm

(* Small steps.                                                            *)
LEMMA GotoType ==
    ASSUME NEW f \in Fsm, NEW st \in FsmState
    PROVE  /\ Goto(f, st) \in Fsm /\ Goto(f, st).state = st
           /\ Goto(f, st).timer = f.timer
BY DEF Goto, Fsm

LEMMA StopTimerType ==
    ASSUME NEW f \in Fsm
    PROVE  /\ StopTimer(f) \in Fsm /\ StopTimer(f).state = f.state
           /\ ~StopTimer(f).timer
BY DEF StopTimer, Fsm

LEMMA InitReqCounterType ==
    ASSUME NEW f \in Fsm, NEW n \in 0..MaxCounter
    PROVE  /\ InitReqCounter(f, n) \in Fsm
           /\ InitReqCounter(f, n).state = f.state
           /\ InitReqCounter(f, n).timer
BY DEF InitReqCounter, Fsm

LEMMA CountType ==
    ASSUME NEW f \in Fsm
    PROVE  /\ Count(f) \in Fsm /\ Count(f).state = f.state
           /\ Count(f).timer = f.timer
<1>1. (IF f.counter > 0 THEN f.counter - 1 ELSE 0) \in 0..MaxCounter
  BY CounterBounds, FsmFields
<1> QED BY <1>1 DEF Count, Fsm

LEMMA CountFailureType ==
    ASSUME NEW f \in Fsm
    PROVE  /\ CountFailure(f) \in Fsm /\ CountFailure(f).state = f.state
           /\ CountFailure(f).timer = f.timer
<1>1. (IF f.failure > MaxFailure THEN f.failure ELSE f.failure + 1)
         \in 0..(MaxFailure + 1)
  BY FsmAssumption, FsmFields
<1> QED BY <1>1 DEF CountFailure, Fsm

LEMMA RequestType ==
    ASSUME NEW f \in Fsm, NEW snd
    PROVE  /\ Request(f, snd) \in Fsm
           /\ Request(f, snd).state
                 = IF snd = "close" THEN "Closed" ELSE f.state
           /\ snd # "close" => Request(f, snd).timer = f.timer
<1>1. Count(f) \in Fsm /\ Count(f).state = f.state /\ Count(f).timer = f.timer
  BY CountType
<1>2. /\ Close2(Count(f)) \in Fsm /\ Close2(Count(f)).state = "Closed"
  BY <1>1, StopTimerType, GotoType DEF Close2, FsmState
<1> QED BY <1>1, <1>2 DEF Request

Signal == {"none", "up", "finished"}

Answer == [f: Fsm, sig: Signal]

LEMMA ResType ==
    ASSUME NEW f, NEW sig
    PROVE  /\ f \in Fsm /\ sig \in Signal => Res(f, sig) \in Answer
           /\ Res(f, sig).f = f /\ Res(f, sig).sig = sig
BY DEF Res, Answer

LEMMA AnswerFields ==
    ASSUME NEW r \in Answer
    PROVE  r.f \in Fsm /\ r.sig \in Signal
BY DEF Answer

USE DEF FsmState, Signal

(* Administrative events.                                                  *)
LEMMA CloseType ==
    ASSUME NEW f \in Fsm
    PROVE  /\ Close(f) \in Answer
           /\ Close(f).sig = "finished" => f.state = "Starting"
           /\ Close(f).sig # "up"
           /\ f.state \in {"Initial", "Closed"} => Close(f).f = f
           /\ f.state \notin {"Initial", "Starting"} =>
                 Close(f).f.state \notin {"Initial", "Starting", "Opened"}
           /\ Waiting(Close(f).f) =>
                 Close(f).f.timer \/ (Waiting(f) /\ ~f.timer)
<1>1. f.state \in FsmState
  BY FsmFields
<1>2. CASE f.state = "Starting"
  <2>1. Close(f) = Res(Goto(StopTimer(f), "Initial"), "finished")
    BY <1>2 DEF Close, Negotiating
  <2> QED BY <1>2, <2>1, StopTimerType, GotoType, ResType DEF Waiting, Negotiating
<1>3. CASE f.state = "Stopped"
  <2>1. Close(f) = Res(Goto(StopTimer(f), "Closed"), "none")
    BY <1>3 DEF Close, Negotiating
  <2> QED BY <1>3, <2>1, StopTimerType, GotoType, ResType DEF Waiting, Negotiating
<1>4. CASE f.state = "Stopping"
  <2>1. Close(f) = Res(Goto(f, "Closing"), "none")
    BY <1>4 DEF Close, Negotiating
  <2> QED BY <1>4, <2>1, GotoType, ResType DEF Waiting, Negotiating
<1>5. CASE f.state \in Negotiating \cup {"Opened"}
  <2>1. Close(f) = Res(Goto(InitReqCounter(f, MaxTerminate), "Closing"), "none")
    BY <1>5 DEF Close, Negotiating
  <2> QED BY <1>5, <2>1, CounterBounds, InitReqCounterType, GotoType, ResType
          DEF Waiting, Negotiating
<1>6. CASE f.state \in {"Initial", "Closed", "Closing"}
  <2>1. Close(f) = Res(f, "none")
    BY <1>6 DEF Close, Negotiating
  <2> QED BY <1>6, <2>1, ResType DEF Waiting, Negotiating
<1> QED BY <1>1, <1>2, <1>3, <1>4, <1>5, <1>6 DEF Negotiating

LEMMA DownType ==
    ASSUME NEW f \in Fsm, NEW l
    PROVE  Down(l, f) \in Fsm /\ (l = "lcp" => Down(l, f) = f)
BY CloseType, AnswerFields DEF Down

LEMMA LowerDownType ==
    ASSUME NEW f \in Fsm, NEW l
    PROVE  LowerDown(l, f) \in Fsm
<1>1. f.state \in FsmState
  BY FsmFields
<1> QED BY <1>1, DownType, GotoType DEF LowerDown, Negotiating

LEMMA LowerUpType ==
    ASSUME NEW f \in Fsm, NEW snd
    PROVE  /\ LowerUp(f, snd) \in Fsm
           /\ f.state \in {"Initial", "Closed"} =>
                 LowerUp(f, snd).state = "Closed"
<1> DEFINE g == Request(InitReqCounter(f, MaxConfigure), snd)
<1>1. f.state \in FsmState
  BY FsmFields
<1>2. g \in Fsm
  BY CounterBounds, InitReqCounterType, RequestType
<1>3. Goto(g, "Req_Sent") \in Fsm /\ Goto(g, "Req_Sent").state = "Req_Sent"
  BY <1>2, GotoType
<1>4. Goto(f, "Closed") \in Fsm /\ Goto(f, "Closed").state = "Closed"
  BY GotoType
<1>5. f.state = "Starting" =>
         LowerUp(f, snd) = IF snd = "fail" THEN g ELSE Goto(g, "Req_Sent")
  BY DEF LowerUp
<1>6. f.state = "Initial" => LowerUp(f, snd) = Goto(f, "Closed")
  BY DEF LowerUp
<1>7. f.state \notin {"Initial", "Starting"} => LowerUp(f, snd) = f
  BY DEF LowerUp
<1> HIDE DEF g
<1> QED BY <1>2, <1>3, <1>4, <1>5, <1>6, <1>7

LEMMA OpenType ==
    ASSUME NEW f \in Fsm, NEW l, NEW snd
    PROVE  /\ Open(l, f, snd) \in Fsm
           /\ f.state = "Closed" /\ snd = "close" =>
                 Open(l, f, snd).state = "Closed"
           /\ f.state = "Closed" /\ snd # "close" =>
                 Open(l, f, snd).state = "Req_Sent" /\ Open(l, f, snd).timer
<1> DEFINE g == Request(Goto(InitReqCounter(f, MaxConfigure), "Req_Sent"), snd)
<1>1. f.state \in FsmState
  BY FsmFields
<1>2. Goto(f, "Starting") \in Fsm
  BY GotoType
<1>3. /\ g \in Fsm
      /\ snd = "close" => g.state = "Closed"
      /\ snd # "close" => g.state = "Req_Sent" /\ g.timer
  BY CounterBounds, InitReqCounterType, GotoType, RequestType
<1>4. LowerUp(LowerDown(l, f), snd) \in Fsm
  BY LowerDownType, LowerUpType
<1>5. f.state = "Closed" => Open(l, f, snd) = g
  BY DEF Open, Negotiating
<1>6. f.state = "Initial" => Open(l, f, snd) = Goto(f, "Starting")
  BY DEF Open
<1>7. f.state \in {"Closing", "Stopping", "Stopped", "Opened"} =>
         Open(l, f, snd) = LowerUp(LowerDown(l, f), snd)
  BY DEF Open
<1>8. f.state \in Negotiating \cup {"Starting"} => Open(l, f, snd) = f
  BY DEF Open, Negotiating
<1> HIDE DEF g
<1> QED BY <1>1, <1>2, <1>3, <1>4, <1>5, <1>6, <1>7, <1>8 DEF Negotiating

(* Packets and the restart timer.  A handler's answer is sound when a      *)
(* sleeping automaton is left asleep and an open link stays connected.     *)
Asleep(f) == f.state \in {"Initial", "Closed"}

Sound(l, f, r) ==
    /\ r \in Answer
    /\ Asleep(f) => Asleep(r.f) /\ r.sig = "none"
    /\ l = "lcp" /\ f.state \notin {"Initial", "Starting"} =>
          r.f.state \notin {"Initial", "Starting"}

(* The answer of the link's automaton keeps its restart timer running.     *)
Clocked(f) == (Waiting(f) => f.timer) /\ f.state # "Opened"

KeepsClock(f, r) == Clocked(f) /\ r.sig # "up" => Clocked(r.f)

USE DEF Asleep, Waiting, Negotiating, Clocked

LEMMA Timeout0Sound ==
    ASSUME NEW f \in Fsm, NEW l, NEW snd, l = "lcp" => snd = "ok"
    PROVE  /\ Sound(l, f, Timeout0(f, snd))
           /\ l = "lcp" => KeepsClock(f, Timeout0(f, snd))
           /\ Timeout0(f, snd).sig # "up"
<1>1. f.state \in FsmState
  BY FsmFields
<1>2. CASE f.state \in {"Closing", "Stopping"}
  <2>1. Timeout0(f, snd) = Res(Count(f), "none")
    BY <1>2 DEF Timeout0
  <2> QED BY <1>2, <2>1, CountType, ResType DEF Sound, KeepsClock
<1>3. CASE f.state = "Ack_Rcvd"
  <2>1. Timeout0(f, snd) = Res(Request(Goto(f, "Req_Sent"), snd), "none")
    BY <1>3 DEF Timeout0
  <2> QED BY <1>3, <2>1, GotoType, RequestType, ResType DEF Sound, KeepsClock
<1>4. CASE f.state \in {"Req_Sent", "Ack_Sent"}
  <2>1. Timeout0(f, snd) = Res(Request(f, snd), "none")
    BY <1>4 DEF Timeout0
  <2> QED BY <1>4, <2>1, RequestType, ResType DEF Sound, KeepsClock
<1>5. CASE f.state \notin {"Closing", "Stopping", "Ack_Rcvd", "Req_Sent", "Ack_Sent"}
  <2>1. Timeout0(f, snd) = Res(f, "none")
    BY <1>5 DEF Timeout0
  <2> QED BY <1>5, <2>1, ResType DEF Sound, KeepsClock
<1> QED BY <1>1, <1>2, <1>3, <1>4, <1>5

LEMMA Timeout1Sound ==
    ASSUME NEW f \in Fsm, NEW l
    PROVE  /\ Sound(l, f, Timeout1(f)) /\ KeepsClock(f, Timeout1(f))
           /\ Timeout1(f).sig # "up"
<1>1. CASE f.state = "Closing"
  <2>1. Timeout1(f) = Res(Goto(StopTimer(f), "Closed"), "finished")
    BY <1>1 DEF Timeout1
  <2> QED BY <1>1, <2>1, StopTimerType, GotoType, ResType DEF Sound, KeepsClock
<1>2. CASE f.state \in Negotiating \cup {"Stopping"}
  <2>1. Timeout1(f) = Res(Goto(StopTimer(f), "Stopped"), "finished")
    BY <1>2 DEF Timeout1
  <2> QED BY <1>2, <2>1, StopTimerType, GotoType, ResType DEF Sound, KeepsClock
<1>3. CASE f.state \notin Negotiating \cup {"Closing", "Stopping"}
  <2>1. Timeout1(f) = Res(f, "none")
    BY <1>3 DEF Timeout1
  <2> QED BY <1>3, <2>1, ResType DEF Sound, KeepsClock
<1> QED BY <1>1, <1>2, <1>3

LEMMA RestartTimerSound ==
    ASSUME NEW f \in Fsm, NEW l, NEW snd, l = "lcp" => snd = "ok"
    PROVE  /\ Sound(l, f, RestartTimer(f, snd))
           /\ l = "lcp" => KeepsClock(f, RestartTimer(f, snd))
           /\ RestartTimer(f, snd).sig # "up"
BY Timeout0Sound, Timeout1Sound DEF RestartTimer

LEMMA RenegotiateType ==
    ASSUME NEW f \in Fsm, NEW l, NEW snd, NEW st \in FsmState
    PROVE  /\ Renegotiate(l, f, snd, st) \in Fsm
           /\ Renegotiate(l, f, snd, st).state = st
BY DownType, RequestType, GotoType DEF Renegotiate

LEMMA ReawakenType ==
    ASSUME NEW f \in Fsm, NEW snd
    PROVE  /\ Reawaken(f, snd) \in Fsm
           /\ f.state # "Stopped" => Reawaken(f, snd) = f
           /\ f.state = "Stopped" /\ snd = "ok" =>
                 Reawaken(f, snd).timer /\ Reawaken(f, snd).state = "Stopped"
BY CounterBounds, InitReqCounterType, RequestType DEF Reawaken

LEMMA ConfReqAckSound ==
    ASSUME NEW f \in Fsm, NEW l, NEW snd, l = "lcp" => snd = "ok"
    PROVE  /\ Sound(l, f, RecvConfReqAck(l, f, snd))
           /\ l = "lcp" => KeepsClock(f, RecvConfReqAck(l, f, snd))
<1>1. CASE f.state \in {"Stopped", "Req_Sent", "Ack_Sent"}
  <2>1. RecvConfReqAck(l, f, snd) = Res(Goto(Reawaken(f, snd), "Ack_Sent"), "none")
    BY <1>1 DEF RecvConfReqAck
  <2> QED BY <1>1, <2>1, ReawakenType, GotoType, ResType DEF Sound, KeepsClock
<1>2. CASE f.state = "Ack_Rcvd"
  <2>1. RecvConfReqAck(l, f, snd) = Res(StopTimer(f), "up")
    BY <1>2 DEF RecvConfReqAck
  <2> QED BY <1>2, <2>1, StopTimerType, ResType DEF Sound, KeepsClock
<1>3. CASE f.state = "Opened"
  <2>1. RecvConfReqAck(l, f, snd) = Res(Renegotiate(l, f, snd, "Ack_Sent"), "none")
    BY <1>3 DEF RecvConfReqAck
  <2> QED BY <1>3, <2>1, RenegotiateType, ResType DEF Sound, KeepsClock
<1>4. CASE f.state \notin {"Stopped", "Req_Sent", "Ack_Sent", "Ack_Rcvd", "Opened"}
  <2>1. RecvConfReqAck(l, f, snd) = Res(f, "none")
    BY <1>4 DEF RecvConfReqAck
  <2> QED BY <1>4, <2>1, ResType DEF Sound, KeepsClock
<1> QED BY <1>1, <1>2, <1>3, <1>4

LEMMA ConfReqNakSound ==
    ASSUME NEW f \in Fsm, NEW l, NEW snd, l = "lcp" => snd = "ok"
    PROVE  /\ Sound(l, f, RecvConfReqNak(l, f, snd))
           /\ l = "lcp" => KeepsClock(f, RecvConfReqNak(l, f, snd))
<1>1. CASE f.state \in {"Stopped", "Ack_Sent"}
  <2>1. RecvConfReqNak(l, f, snd) = Res(Goto(Reawaken(f, snd), "Req_Sent"), "none")
    BY <1>1 DEF RecvConfReqNak
  <2> QED BY <1>1, <2>1, ReawakenType, GotoType, ResType DEF Sound, KeepsClock
<1>2. CASE f.state \in {"Req_Sent", "Ack_Rcvd"}
  <2> DEFINE sig == IF GivesUp(CountFailure(f)) THEN "finished" ELSE "none"
  <2>1. RecvConfReqNak(l, f, snd) = Res(CountFailure(f), sig)
    BY <1>2 DEF RecvConfReqNak
  <2>2. sig \in Signal
    OBVIOUS
  <2> HIDE DEF sig
  <2> QED BY <1>2, <2>1, <2>2, CountFailureType, ResType DEF Sound, KeepsClock
<1>3. CASE f.state = "Opened"
  <2>1. RecvConfReqNak(l, f, snd) = Res(Renegotiate(l, f, snd, "Req_Sent"), "none")
    BY <1>3 DEF RecvConfReqNak
  <2> QED BY <1>3, <2>1, RenegotiateType, ResType DEF Sound, KeepsClock
<1>4. CASE f.state \notin {"Stopped", "Req_Sent", "Ack_Sent", "Ack_Rcvd", "Opened"}
  <2>1. RecvConfReqNak(l, f, snd) = Res(f, "none")
    BY <1>4 DEF RecvConfReqNak
  <2> QED BY <1>4, <2>1, ResType DEF Sound, KeepsClock
<1> QED BY <1>1, <1>2, <1>3, <1>4

LEMMA ConfReqRejSound ==
    ASSUME NEW f \in Fsm, NEW l, NEW snd, l = "lcp" => snd = "ok"
    PROVE  /\ Sound(l, f, RecvConfReqRej(l, f, snd))
           /\ l = "lcp" => KeepsClock(f, RecvConfReqRej(l, f, snd))
<1>1. CASE f.state \in {"Stopped", "Ack_Sent"}
  <2> DEFINE g == CountFailure(Reawaken(f, snd))
             h == IF GivesUp(g) THEN Down(l, g) ELSE Goto(g, "Req_Sent")
  <2>1. RecvConfReqRej(l, f, snd) = Res(h, "none")
    BY <1>1 DEF RecvConfReqRej
  <2>2. g \in Fsm
    BY ReawakenType, CountFailureType
  <2>3. l = "lcp" => /\ g.state = f.state
                     /\ Clocked(f) /\ f.state = "Stopped" => g.timer
                     /\ Clocked(f) /\ f.state = "Ack_Sent" => g.timer
    BY <1>1, ReawakenType, CountFailureType
  <2>4. h \in Fsm
    BY <2>2, DownType, GotoType
  <2>5. l = "lcp" => h.state \in {f.state, "Req_Sent"} /\ h.timer = g.timer
    BY <2>2, <2>3, DownType, GotoType
  <2> HIDE DEF g, h
  <2> QED BY <1>1, <2>1, <2>3, <2>4, <2>5, ResType DEF Sound, KeepsClock
<1>2. CASE f.state \notin {"Stopped", "Ack_Sent"}
  <2>1. RecvConfReqRej(l, f, snd) = RecvConfReqNak(l, f, snd)
    BY <1>2 DEF RecvConfReqRej
  <2> QED BY <2>1, ConfReqNakSound
<1> QED BY <1>1, <1>2

LEMMA ConfReqSound ==
    ASSUME NEW f \in Fsm, NEW l, NEW snd, l = "lcp" => snd = "ok",
           NEW v \in {"ack", "nak", "rej"}
    PROVE  /\ Sound(l, f, RecvConfReq(l, f, snd, v))
           /\ l = "lcp" => KeepsClock(f, RecvConfReq(l, f, snd, v))
BY ConfReqAckSound, ConfReqNakSound, ConfReqRejSound DEF RecvConfReq

LEMMA ConfAckSound ==
    ASSUME NEW f \in Fsm, NEW l, NEW snd, l = "lcp" => snd = "ok"
    PROVE  /\ Sound(l, f, RecvConfAck(l, f, snd))
           /\ l = "lcp" => KeepsClock(f, RecvConfAck(l, f, snd))
<1>1. CASE f.state = "Req_Sent"
  <2>1. RecvConfAck(l, f, snd) = Res(Goto(f, "Ack_Rcvd"), "none")
    BY <1>1 DEF RecvConfAck
  <2> QED BY <1>1, <2>1, GotoType, ResType DEF Sound, KeepsClock
<1>2. CASE f.state = "Ack_Rcvd"
  <2>1. RecvConfAck(l, f, snd) = Res(Goto(Request(f, snd), "Req_Sent"), "none")
    BY <1>2 DEF RecvConfAck
  <2> QED BY <1>2, <2>1, RequestType, GotoType, ResType DEF Sound, KeepsClock
<1>3. CASE f.state = "Ack_Sent"
  <2>1. RecvConfAck(l, f, snd) = Res(StopTimer(f), "up")
    BY <1>3 DEF RecvConfAck
  <2> QED BY <1>3, <2>1, StopTimerType, ResType DEF Sound, KeepsClock
<1>4. CASE f.state = "Opened"
  <2>1. RecvConfAck(l, f, snd) = Res(Renegotiate(l, f, snd, "Req_Sent"), "none")
    BY <1>4 DEF RecvConfAck
  <2> QED BY <1>4, <2>1, RenegotiateType, ResType DEF Sound, KeepsClock
<1>5. CASE f.state \notin {"Req_Sent", "Ack_Sent", "Ack_Rcvd", "Opened"}
  <2>1. RecvConfAck(l, f, snd) = Res(f, "none")
    BY <1>5 DEF RecvConfAck
  <2> QED BY <1>5, <2>1, ResType DEF Sound, KeepsClock
<1> QED BY <1>1, <1>2, <1>3, <1>4, <1>5

LEMMA ConfRejSound ==
    ASSUME NEW f \in Fsm, NEW l, NEW snd, l = "lcp" => snd = "ok"
    PROVE  /\ Sound(l, f, RecvConfRej(l, f, snd))
           /\ l = "lcp" => KeepsClock(f, RecvConfRej(l, f, snd))
           /\ RecvConfRej(l, f, snd).sig = "none"
<1>1. CASE f.state \in {"Req_Sent", "Ack_Sent"}
  <2> DEFINE g == CountFailure(f)
             n == IF f.state = "Req_Sent" THEN MaxFailure ELSE MaxConfigure
             h == IF GivesUp(g) THEN Down(l, g)
                                ELSE Request(InitReqCounter(g, n), snd)
  <2>1. RecvConfRej(l, f, snd) = Res(h, "none")
    BY <1>1 DEF RecvConfRej
  <2>2. g \in Fsm /\ g.state = f.state /\ g.timer = f.timer
    BY CountFailureType
  <2>3. n \in 0..MaxCounter
    BY CounterBounds
  <2> HIDE DEF g, n
  <2>4. h \in Fsm
    BY <2>2, <2>3, DownType, InitReqCounterType, RequestType
  <2>5. l = "lcp" => h.state = f.state /\ (f.timer => h.timer)
    BY <2>2, <2>3, DownType, InitReqCounterType, RequestType
  <2> HIDE DEF h
  <2> QED BY <1>1, <2>1, <2>4, <2>5, ResType DEF Sound, KeepsClock
<1>2. CASE f.state = "Ack_Rcvd"
  <2>1. RecvConfRej(l, f, snd) = Res(Goto(Request(f, snd), "Req_Sent"), "none")
    BY <1>2 DEF RecvConfRej
  <2> QED BY <1>2, <2>1, RequestType, GotoType, ResType DEF Sound, KeepsClock
<1>3. CASE f.state = "Opened"
  <2>1. RecvConfRej(l, f, snd) = Res(Renegotiate(l, f, snd, "Req_Sent"), "none")
    BY <1>3 DEF RecvConfRej
  <2> QED BY <1>3, <2>1, RenegotiateType, ResType DEF Sound, KeepsClock
<1>4. CASE f.state \notin {"Req_Sent", "Ack_Sent", "Ack_Rcvd", "Opened"}
  <2>1. RecvConfRej(l, f, snd) = Res(f, "none")
    BY <1>4 DEF RecvConfRej
  <2> QED BY <1>4, <2>1, ResType DEF Sound, KeepsClock
<1> QED BY <1>1, <1>2, <1>3, <1>4

LEMMA TermReqSound ==
    ASSUME NEW f \in Fsm, NEW l
    PROVE  /\ RecvTermReq(l, f) \in Fsm
           /\ Asleep(f) => RecvTermReq(l, f) = f
           /\ f.state \notin {"Initial", "Starting"} =>
                 RecvTermReq(l, f).state \notin {"Initial", "Starting"}
           /\ (Waiting(f) => f.timer) =>
                 (Waiting(RecvTermReq(l, f)) => RecvTermReq(l, f).timer)
           /\ RecvTermReq(l, f).state # "Opened"
<1>1. CASE f.state = "Opened"
  <2>1. RecvTermReq(l, f) = Goto(InitReqCounter(Down(l, f), 0), "Stopping")
    BY <1>1 DEF RecvTermReq
  <2> QED BY <1>1, <2>1, CounterBounds, DownType, InitReqCounterType, GotoType
<1>2. CASE f.state \in Negotiating
  <2>1. RecvTermReq(l, f) = Goto(f, "Req_Sent")
    BY <1>2 DEF RecvTermReq
  <2> QED BY <1>2, <2>1, GotoType
<1>3. CASE f.state \notin Negotiating \cup {"Opened"}
  BY <1>3 DEF RecvTermReq
<1> QED BY <1>1, <1>2, <1>3

LEMMA TermAckSound ==
    ASSUME NEW f \in Fsm, NEW l, NEW snd
    PROVE  Sound(l, f, RecvTermAck(l, f, snd)) /\ RecvTermAck(l, f, snd).sig # "up"
<1> DEFINE g == StopTimer(f)
<1>1. g \in Fsm /\ g.state = f.state
  BY StopTimerType
<1>2. CASE f.state = "Closing"
  <2>1. RecvTermAck(l, f, snd) = Res(Goto(g, "Closed"), "finished")
    BY <1>2 DEF RecvTermAck
  <2> HIDE DEF g
  <2> QED BY <1>1, <1>2, <2>1, GotoType, ResType DEF Sound
<1>3. CASE f.state = "Stopping"
  <2>1. RecvTermAck(l, f, snd) = Res(Goto(g, "Stopped"), "finished")
    BY <1>3 DEF RecvTermAck
  <2> HIDE DEF g
  <2> QED BY <1>1, <1>3, <2>1, GotoType, ResType DEF Sound
<1>4. CASE f.state = "Ack_Rcvd"
  <2>1. RecvTermAck(l, f, snd) = Res(Goto(g, "Req_Sent"), "none")
    BY <1>4 DEF RecvTermAck
  <2> HIDE DEF g
  <2> QED BY <1>1, <1>4, <2>1, GotoType, ResType DEF Sound
<1>5. CASE f.state = "Opened"
  <2>1. RecvTermAck(l, f, snd) = Res(Renegotiate(l, g, snd, "Req_Sent"), "none")
    BY <1>5 DEF RecvTermAck
  <2> HIDE DEF g
  <2> QED BY <1>1, <1>5, <2>1, RenegotiateType, ResType DEF Sound
<1>6. CASE f.state \notin {"Closing", "Stopping", "Ack_Rcvd", "Opened"}
  <2>1. RecvTermAck(l, f, snd) = Res(g, "none")
    BY <1>6 DEF RecvTermAck
  <2> HIDE DEF g
  <2> QED BY <1>1, <1>6, <2>1, ResType DEF Sound
<1> QED BY <1>2, <1>3, <1>4, <1>5, <1>6

LEMMA CodeRejSound ==
    ASSUME NEW f \in Fsm, NEW l
    PROVE  Sound(l, f, RecvCodeRej(l, f)) /\ RecvCodeRej(l, f).sig # "up"
<1>1. CASE f.state = "Opened"
  <2>1. RecvCodeRej(l, f) = Res(Goto(Count(Down(l, f)), "Stopping"), "none")
    BY <1>1 DEF RecvCodeRej
  <2> QED BY <1>1, <2>1, DownType, CountType, GotoType, ResType DEF Sound
<1>2. CASE f.state = "Closing"
  <2>1. RecvCodeRej(l, f) = Res(Goto(f, "Closed"), "finished")
    BY <1>2 DEF RecvCodeRej
  <2> QED BY <1>2, <2>1, GotoType, ResType DEF Sound
<1>3. CASE f.state \in Negotiating \cup {"Stopping"}
  <2>1. RecvCodeRej(l, f) = Res(Goto(f, "Stopped"), "finished")
    BY <1>3 DEF RecvCodeRej
  <2> QED BY <1>3, <2>1, GotoType, ResType DEF Sound
<1>4. CASE f.state \notin Negotiating \cup {"Opened", "Closing", "Stopping"}
  <2>1. RecvCodeRej(l, f) = Res(f, "none")
    BY <1>4 DEF RecvCodeRej
  <2> QED BY <1>4, <2>1, ResType DEF Sound
<1> QED BY <1>1, <1>2, <1>3, <1>4
-----------------------------------------------------------------------------
(* The state a handler works on.                                           *)

(* What the assumption says of the configuration of the session.           *)
LEMMA ConfFacts ==
    ASSUME ses.conf \in PppConfs
    PROVE  /\ Ncp \subseteq {"ccp", "ipcp", "ipv6cp"}
           /\ Len(NcpOrder) \in Nat /\ Len(NcpOrder) <= 3
           /\ \A i \in 1..Len(NcpOrder) : NcpOrder[i] \in Ncp
           /\ \A n \in Ncp : \E i \in 1..Len(NcpOrder) : NcpOrder[i] = n
           /\ \A n \in Ncp : Mode[n] \in {"require", "prefer", "allow", "deny"}
           /\ NoAuth \in BOOLEAN
<1> DEFINE c == ses.conf
<1>1. /\ c.order \in Seq({"ccp", "ipcp", "ipv6cp"}) /\ Len(c.order) <= 3
      /\ c.noauth \in BOOLEAN
      /\ c.mode \in [{c.order[i] : i \in 1..Len(c.order)}
                        -> {"require", "prefer", "allow", "deny"}]
  BY PppAssumption
<1>2. DOMAIN c.mode = {c.order[i] : i \in 1..Len(c.order)}
  BY <1>1
<1> QED BY <1>1, <1>2 DEF Ncp, NcpOrder, Mode, NoAuth

LEMMA TypedFields ==
    ASSUME NEW s, Typed(s)
    PROVE  /\ s.fsm \in [Automaton -> Fsm] /\ s.ld \in [Layer -> Flags]
           /\ s.ses \in Ses /\ ses.conf \in PppConfs
<1>1. s.fsm \in [Automaton -> Fsm] /\ s.ld \in [Layer -> Flags] /\ s.ses \in Ses
  BY DEF Typed, PppState
<1>2. s.ses.conf \in PppConfs
  BY <1>1 DEF Ses
<1> QED BY <1>1, <1>2 DEF Typed

LEMMA NewSes ==
    ASSUME NEW s, Typed(s), NEW x \in Ses, x.conf = s.ses.conf
    PROVE  /\ Typed([s EXCEPT !.ses = x])
           /\ [s EXCEPT !.ses = x].fsm = s.fsm
           /\ [s EXCEPT !.ses = x].ld = s.ld
           /\ [s EXCEPT !.ses = x].ses = x
BY DEF Typed, PppState

(* The fields of the session that the invariant speaks of.                 *)
SameCore(x, y) ==
    /\ x.bad = y.bad /\ x.freed = y.freed /\ x.finished = y.finished
    /\ x.gone = y.gone /\ x.state = y.state /\ x.terminating = y.terminating
    /\ x.linked = y.linked /\ x.calls = y.calls /\ x.query = y.query
    /\ x.auth = y.auth

LEMMA Plain ==
    ASSUME NEW s, Typed(s), NEW t, Typed(t), t.fsm = s.fsm, t.ld = s.ld,
           SameCore(t.ses, s.ses)
    PROVE  /\ Living(s) => Living(t)
           /\ Base(s) => Base(t)
           /\ Held(s) => Held(t)
           /\ Timed(s) => Timed(t)
<1>1. \A c : Queued(t, c) <=> Queued(s, c)
  BY DEF SameCore, Queued
<1>2. Living(s) => Living(t)
  BY <1>1 DEF SameCore, Living
<1>3. Base(s) => Base(t)
  BY <1>1, <1>2 DEF SameCore, Base, LinkHeld, OnlyLink
<1>4. /\ Authentic(s) => Authentic(t)
      /\ Carrying(s) => Carrying(t)
      /\ \A n \in Ncp : NcpSound(s, n) => NcpSound(t, n)
  BY <1>1 DEF SameCore, Authentic, Carrying, NcpSound
<1>5. Network(s) => Network(t)
  BY <1>4 DEF SameCore, Network
<1>6. Held(s) => Held(t)
  BY <1>3, <1>5 DEF SameCore, Held
<1>7. Timed(s) => Timed(t)
  BY DEF SameCore, Timed
<1> QED BY <1>2, <1>3, <1>6, <1>7

(* Writing to an automaton or to a layer that was not freed.               *)
LEMMA PutFields ==
    ASSUME NEW s, Typed(s), ~s.ses.freed, NEW l \in Automaton, NEW f \in Fsm
    PROVE  /\ Typed(Put(s, l, f))
           /\ Put(s, l, f).ses = s.ses /\ Put(s, l, f).ld = s.ld
           /\ Put(s, l, f).fsm[l] = f
           /\ \A k \in Automaton \ {l} : Put(s, l, f).fsm[k] = s.fsm[k]
<1>1. Put(s, l, f) = [s EXCEPT !.fsm = [s.fsm EXCEPT ![l] = f]]
  BY DEF Put
<1>2. s.fsm \in [Automaton -> Fsm]
  BY TypedFields
<1>3. PICK g : g = [s.fsm EXCEPT ![l] = f]
  OBVIOUS
<1>4. /\ g \in [Automaton -> Fsm] /\ g[l] = f
      /\ \A k \in Automaton \ {l} : g[k] = s.fsm[k]
  BY <1>2, <1>3
<1>5. Put(s, l, f) = [s EXCEPT !.fsm = g]
  BY <1>1, <1>3
<1> QED BY <1>4, <1>5 DEF Typed, PppState

LEMMA SetFields ==
    ASSUME NEW s, Typed(s), ~s.ses.freed, NEW d \in Layer, NEW r \in Flags
    PROVE  /\ Typed(Set(s, d, r))
           /\ Set(s, d, r).ses = s.ses /\ Set(s, d, r).fsm = s.fsm
           /\ Set(s, d, r).ld[d] = r
           /\ \A k \in Layer \ {d} : Set(s, d, r).ld[k] = s.ld[k]
<1>1. Set(s, d, r) = [s EXCEPT !.ld = [s.ld EXCEPT ![d] = r]]
  BY DEF Set
<1>2. s.ld \in [Layer -> Flags]
  BY TypedFields
<1>3. PICK g : g = [s.ld EXCEPT ![d] = r]
  OBVIOUS
<1>4. /\ g \in [Layer -> Flags] /\ g[d] = r
      /\ \A k \in Layer \ {d} : g[k] = s.ld[k]
  BY <1>2, <1>3
<1>5. Set(s, d, r) = [s EXCEPT !.ld = g]
  BY <1>1, <1>3
<1> QED BY <1>4, <1>5 DEF Typed, PppState

(* Appending to the queue of calls.                                        *)
LEMMA PostFields ==
    ASSUME NEW s, Typed(s), NEW c \in Call
    PROVE  /\ Typed(Post(s, c))
           /\ Post(s, c).fsm = s.fsm /\ Post(s, c).ld = s.ld
           /\ Post(s, c).ses = [s.ses EXCEPT !.calls = Append(s.ses.calls, c)]
           /\ \A e : Queued(Post(s, c), e) <=> Queued(s, e) \/ e = c
<1> DEFINE x == [s.ses EXCEPT !.calls = Append(s.ses.calls, c)]
<1>1. s.ses \in Ses /\ s.ses.calls \in Seq(Call)
  BY TypedFields DEF Ses
<1>2. PICK q : q = Append(s.ses.calls, c)
  OBVIOUS
<1>3. /\ q \in Seq(Call) /\ Len(q) = Len(s.ses.calls) + 1
      /\ q[Len(q)] = c /\ Len(s.ses.calls) \in Nat
      /\ \A i \in 1..Len(s.ses.calls) : q[i] = s.ses.calls[i]
  BY <1>1, <1>2
<1>4. x = [s.ses EXCEPT !.calls = q]
  BY <1>2
<1>5. x \in Ses /\ x.conf = s.ses.conf /\ x.calls = q
  BY <1>1, <1>3, <1>4 DEF Ses
<1>6. Post(s, c) = [s EXCEPT !.ses = x]
  BY DEF Post
<1> HIDE DEF x
<1>7. /\ Typed(Post(s, c)) /\ Post(s, c).fsm = s.fsm /\ Post(s, c).ld = s.ld
      /\ Post(s, c).ses = x
  BY <1>5, <1>6, NewSes
<1>8. ASSUME NEW e PROVE Queued(Post(s, c), e) <=> Queued(s, e) \/ e = c
  <2>1. Queued(Post(s, c), e) <=> \E i \in 1..Len(q) : q[i] = e
    BY <1>5, <1>7 DEF Queued
  <2>2. (\E i \in 1..Len(q) : q[i] = e)
           <=> (\E i \in 1..Len(s.ses.calls) : s.ses.calls[i] = e) \/ e = c
    <3>1. \A i \in 1..Len(q) :
             i \in 1..Len(s.ses.calls) \/ i = Len(q)
      BY <1>3
    <3>2. /\ \A i \in 1..Len(s.ses.calls) : i \in 1..Len(q)
          /\ Len(q) \in 1..Len(q)
      BY <1>3
    <3> QED BY <1>3, <3>1, <3>2
  <2> QED BY <2>1, <2>2 DEF Queued
<1> QED BY <1>7, <1>8 DEF x
-----------------------------------------------------------------------------
(* The end of a session.                                                   *)

LEMMA SessionFinishedFields ==
    ASSUME NEW s, Typed(s)
    PROVE  LET t == SessionFinished(s)
           IN  /\ Typed(t) /\ t.fsm = s.fsm /\ t.ld = s.ld
               /\ t.ses.finished /\ ~t.ses.timer /\ ~t.ses.linked /\ ~t.ses.query
               /\ t.ses.bad = s.ses.bad /\ t.ses.freed = s.ses.freed
               /\ t.ses.gone = s.ses.gone /\ t.ses.state = s.ses.state
               /\ t.ses.terminating = s.ses.terminating
               /\ s.ses.linked => Queued(t, "disconnect")
               /\ \A c : Queued(t, c) => Queued(s, c) \/ c = "disconnect"
<1> DEFINE t == SessionFinished(s)
<1>1. s.ses \in Ses /\ s.ses.calls \in Seq(Call)
  BY TypedFields DEF Ses
<1>2. PICK q : q = IF s.ses.linked THEN Append(s.ses.calls, "disconnect")
                                   ELSE s.ses.calls
  OBVIOUS
<1>3. /\ q \in Seq(Call)
      /\ s.ses.linked => \E i \in 1..Len(q) : q[i] = "disconnect"
      /\ \A i \in 1..Len(q) : \/ q[i] = "disconnect"
                              \/ \E j \in 1..Len(s.ses.calls) : s.ses.calls[j] = q[i]
  <2>1. CASE ~s.ses.linked
    BY <1>1, <1>2, <2>1
  <2>2. CASE s.ses.linked
    <3>1. q = Append(s.ses.calls, "disconnect")
      BY <1>2, <2>2
    <3>2. /\ q \in Seq(Call) /\ Len(q) = Len(s.ses.calls) + 1
          /\ Len(s.ses.calls) \in Nat
          /\ q[Len(q)] = "disconnect"
          /\ \A i \in 1..Len(s.ses.calls) : q[i] = s.ses.calls[i]
      BY <1>1, <3>1 DEF Call
    <3> QED BY <3>2
  <2> QED BY <2>1, <2>2
<1> DEFINE y == CancelQuery(s).ses
<1>8. /\ y \in Ses /\ ~y.query /\ y.calls = s.ses.calls
      /\ y.conf = s.ses.conf /\ y.bad = s.ses.bad /\ y.freed = s.ses.freed
      /\ y.gone = s.ses.gone /\ y.state = s.ses.state
      /\ y.terminating = s.ses.terminating
  <2>1. y = [s.ses EXCEPT !.query = FALSE]
    BY DEF CancelQuery, Typed, PppState
  <2> HIDE DEF y
  <2> QED BY <1>1, <2>1 DEF Ses
<1> DEFINE x == [y EXCEPT !.finished = TRUE, !.timer = FALSE, !.linked = FALSE,
                          !.calls = q]
<1>5. t = [s EXCEPT !.ses = x]
  BY <1>2, <1>8 DEF SessionFinished
<1> HIDE DEF y
<1>4. /\ x \in Ses /\ x.conf = s.ses.conf /\ x.calls = q
      /\ x.finished /\ ~x.timer /\ ~x.linked /\ ~x.query
      /\ x.bad = s.ses.bad /\ x.freed = s.ses.freed
      /\ x.gone = s.ses.gone /\ x.state = s.ses.state
      /\ x.terminating = s.ses.terminating
  BY <1>8, <1>3 DEF Ses
<1> HIDE DEF x, t
<1>6. Typed(t) /\ t.fsm = s.fsm /\ t.ld = s.ld /\ t.ses = x
  BY <1>4, <1>5, NewSes
<1>7. /\ s.ses.linked => Queued(t, "disconnect")
      /\ \A c : Queued(t, c) => Queued(s, c) \/ c = "disconnect"
  BY <1>3, <1>4, <1>6 DEF Queued
<1> QED BY <1>4, <1>6, <1>7 DEF t

LEMMA FreeLayersFields ==
    ASSUME NEW s, Typed(s)
    PROVE  LET t == FreeLayers(s)
           IN  /\ Typed(t)
               /\ \A l \in Automaton : ~t.fsm[l].timer
               /\ \A d \in Layer : ~t.ld[d].timeout
               /\ ~t.ses.echo /\ ~t.ses.authTimer /\ t.ses.freed
               /\ t.ses.timer = s.ses.timer /\ t.ses.query = s.ses.query
               /\ t.ses.bad = s.ses.bad /\ t.ses.finished = s.ses.finished
               /\ t.ses.gone = s.ses.gone /\ t.ses.state = s.ses.state
               /\ t.ses.terminating = s.ses.terminating
               /\ t.ses.linked = s.ses.linked
               /\ \A c : Queued(t, c) <=>
                     Queued(s, c) /\ c \notin {"lcpFinished", "authStarted"}
<1> DEFINE t == FreeLayers(s)
           cs == {"lcpFinished", "authStarted"}
           y == Cancel(s, cs).ses
           F == [l \in Automaton |-> StopTimer(s.fsm[l])]
           L == [d \in Layer |-> [s.ld[d] EXCEPT !.timeout = FALSE]]
           x == [y EXCEPT !.echo = FALSE, !.authTimer = FALSE,
                          !.auth = "off", !.freed = TRUE]
<1>1. /\ s.ses \in Ses /\ s.ses.calls \in Seq(Call)
      /\ s.fsm \in [Automaton -> Fsm] /\ s.ld \in [Layer -> Flags]
  BY TypedFields DEF Ses
<1>2. PICK q : q = Without(s.ses.calls, cs)
  OBVIOUS
<1>3. /\ q \in Seq(Call)
      /\ \A i \in 1..Len(q) : /\ q[i] \notin cs
                              /\ \E j \in 1..Len(s.ses.calls) : s.ses.calls[j] = q[i]
      /\ \A j \in 1..Len(s.ses.calls) : s.ses.calls[j] \notin cs =>
            \E i \in 1..Len(q) : q[i] = s.ses.calls[j]
  <2> HIDE DEF cs
  <2>1. PICK k : k = s.ses.calls
    OBVIOUS
  <2>2. k \in Seq(Call) /\ q = Without(k, cs)
    BY <1>1, <1>2, <2>1
  <2>3. /\ Without(k, cs) \in Seq(Call)
        /\ \A i \in 1..Len(Without(k, cs)) :
              /\ Without(k, cs)[i] \notin cs
              /\ \E j \in 1..Len(k) : k[j] = Without(k, cs)[i]
        /\ \A j \in 1..Len(k) : k[j] \notin cs =>
              \E i \in 1..Len(Without(k, cs)) : Without(k, cs)[i] = k[j]
    BY <2>2, WithoutQueue
  <2> QED BY <2>1, <2>2, <2>3, Zenon
<1>4. y = [s.ses EXCEPT !.calls = q]
  BY <1>2 DEF Cancel, Typed, PppState
<1>5. t = [s EXCEPT !.fsm = F, !.ld = L, !.ses = x]
  BY DEF FreeLayers
<1>6. F \in [Automaton -> Fsm] /\ \A l \in Automaton : ~F[l].timer
  BY <1>1, StopTimerType
<1>7. L \in [Layer -> Flags] /\ \A d \in Layer : ~L[d].timeout
  <2> SUFFICES ASSUME NEW d \in Layer
               PROVE /\ [s.ld[d] EXCEPT !.timeout = FALSE] \in Flags
                     /\ ~[s.ld[d] EXCEPT !.timeout = FALSE].timeout
    OBVIOUS
  <2>1. s.ld[d] \in Flags
    BY <1>1
  <2> QED BY <2>1 DEF Flags
<1> HIDE DEF y, F, L
<1>8. /\ x \in Ses /\ x.conf = s.ses.conf /\ x.calls = q
      /\ ~x.echo /\ ~x.authTimer /\ x.freed
      /\ x.timer = s.ses.timer /\ x.query = s.ses.query
      /\ x.bad = s.ses.bad /\ x.finished = s.ses.finished
      /\ x.gone = s.ses.gone /\ x.state = s.ses.state
      /\ x.terminating = s.ses.terminating /\ x.linked = s.ses.linked
  BY <1>1, <1>3, <1>4 DEF Ses
<1> HIDE DEF x, t
<1>9. Typed(t) /\ t.fsm = F /\ t.ld = L /\ t.ses = x
  BY <1>5, <1>6, <1>7, <1>8 DEF Typed, PppState
<1>10. \A c : Queued(t, c) <=> Queued(s, c) /\ c \notin cs
  <2> SUFFICES ASSUME NEW c
               PROVE Queued(t, c) <=> Queued(s, c) /\ c \notin cs
    OBVIOUS
  <2> HIDE DEF cs
  <2>1. Queued(t, c) <=> \E i \in 1..Len(q) : q[i] = c
    BY <1>8, <1>9 DEF Queued
  <2>2. PICK k : k = s.ses.calls
    OBVIOUS
  <2>3. Queued(s, c) <=> \E j \in 1..Len(k) : k[j] = c
    BY <2>2 DEF Queued
  <2>4. /\ \A i \in 1..Len(q) : q[i] \notin cs /\ \E j \in 1..Len(k) : k[j] = q[i]
        /\ \A j \in 1..Len(k) : k[j] \notin cs => \E i \in 1..Len(q) : q[i] = k[j]
    BY <1>3, <2>2
  <2> QED BY <2>1, <2>3, <2>4, Zenon
<1> QED BY <1>6, <1>7, <1>8, <1>9, <1>10 DEF t

(* Released, without what the connection still has queued.                 *)
Gone(t) ==
    /\ Typed(t) /\ Silenced(t)
    /\ ~t.ses.bad /\ t.ses.freed /\ t.ses.finished /\ ~t.ses.linked
    /\ t.ses.terminating /\ t.ses.state = "finishing"

LEMMA DestablishGone ==
    ASSUME NEW s, Typed(s), ~s.ses.bad, ~s.ses.finished,
           s.ses.terminating, s.ses.state = "finishing", ~Queued(s, "connect")
    PROVE  LET t == Destablish(s)
           IN  /\ Gone(t) /\ t.ses.gone = s.ses.gone
               /\ s.ses.linked => Queued(t, "disconnect")
<1>1. PICK u : u = SessionFinished(s)
  OBVIOUS
<1>2. PICK t : t = FreeLayers(u)
  OBVIOUS
<1>3. Destablish(s) = t
  BY <1>1, <1>2 DEF Destablish
<1>4. /\ Typed(u) /\ u.ses.finished /\ ~u.ses.timer /\ ~u.ses.linked
      /\ ~u.ses.query /\ ~u.ses.bad /\ u.ses.gone = s.ses.gone
      /\ u.ses.state = "finishing" /\ u.ses.terminating
      /\ s.ses.linked => Queued(u, "disconnect")
      /\ \A c : Queued(u, c) => Queued(s, c) \/ c = "disconnect"
  BY <1>1, SessionFinishedFields
<1>5. /\ Typed(t)
      /\ \A l \in Automaton : ~t.fsm[l].timer
      /\ \A d \in Layer : ~t.ld[d].timeout
      /\ ~t.ses.echo /\ ~t.ses.authTimer /\ t.ses.freed
      /\ t.ses.timer = u.ses.timer /\ t.ses.query = u.ses.query
      /\ t.ses.bad = u.ses.bad /\ t.ses.finished = u.ses.finished
      /\ t.ses.gone = u.ses.gone /\ t.ses.state = u.ses.state
      /\ t.ses.terminating = u.ses.terminating
      /\ t.ses.linked = u.ses.linked
      /\ \A c : Queued(t, c) <=>
            Queued(u, c) /\ c \notin {"lcpFinished", "authStarted"}
  BY <1>2, <1>4, FreeLayersFields
<1>6. t.ses.calls \in Seq(Call)
  BY <1>5, TypedFields DEF Ses
<1>7. ASSUME NEW i \in 1..Len(t.ses.calls) PROVE t.ses.calls[i] = "disconnect"
  <2>1. t.ses.calls[i] \in Call
    BY <1>6
  <2>2. Queued(t, t.ses.calls[i])
    BY DEF Queued
  <2>3. t.ses.calls[i] \notin {"lcpFinished", "authStarted", "connect"}
    BY <2>2, <1>4, <1>5
  <2> QED BY <2>1, <2>3 DEF Call
<1>8. Silenced(t)
  BY <1>4, <1>5, <1>7 DEF Silenced
<1>9. s.ses.linked => Queued(t, "disconnect")
  BY <1>4, <1>5
<1> QED BY <1>3, <1>4, <1>5, <1>8, <1>9 DEF Gone

LEMMA Names ==
    ASSUME NEW s, Typed(s)
    PROVE  /\ "lcp" \in Automaton /\ "lcp" \in Layer /\ "auth" \in Layer
           /\ \A n \in Ncp : /\ n \in Automaton /\ n \in Layer
                             /\ n # "lcp" /\ n # "auth"
           /\ \A d \in Layer : d = "lcp" \/ d = "auth" \/ d \in Ncp
           /\ Automaton \subseteq Layer
BY TypedFields, ConfFacts DEF Automaton, Layer

LEMMA LivingSame ==
    ASSUME NEW s, NEW t, t.ses = s.ses
    PROVE  Living(t) <=> Living(s)
BY DEF Living, Queued

(* ppp_terminate walks the layers of a session it has marked.              *)
Walking(s) == Typed(s) /\ Living(s) /\ LinkHeld(s) /\ s.ses.terminating

Clock(s) == Waiting(s.fsm["lcp"]) => s.fsm["lcp"].timer

(* A layer other than LCP finishes: LCP still holds the session.           *)
LEMMA LayerFinishedWalks ==
    ASSUME NEW s, Walking(s), NEW d \in Layer, d # "lcp"
    PROVE  LET t == LayerFinished(s, d)
           IN  /\ Walking(t) /\ t.ses = s.ses /\ t.fsm = s.fsm
               /\ ~t.ld[d].starting
               /\ \A e \in Layer \ {d} : t.ld[e] = s.ld[e]
<1> DEFINE r == [s.ld[d] EXCEPT !.finished = TRUE, !.starting = FALSE]
<1>1. Typed(s) /\ ~s.ses.freed /\ ~s.ses.finished /\ Living(s) /\ LinkHeld(s)
  BY DEF Walking, Living
<1>2. s.ld[d] \in Flags
  BY <1>1, TypedFields
<1>3. r \in Flags /\ ~r.starting
  BY <1>2 DEF Flags
<1> HIDE DEF r
<1>4. PICK t : t = Set(s, d, r)
  OBVIOUS
<1>5. /\ Typed(t) /\ t.ses = s.ses /\ t.fsm = s.fsm /\ t.ld[d] = r
      /\ \A e \in Layer \ {d} : t.ld[e] = s.ld[e]
  BY <1>1, <1>3, <1>4, SetFields
<1>6. "lcp" \in Layer \ {d}
  BY <1>1, Names
<1>7. t.ld["lcp"].starting /\ ~t.ld["lcp"].finished
  BY <1>1, <1>5, <1>6 DEF LinkHeld
<1>8. LayerFinished(s, d) = t
  BY <1>1, <1>4, <1>6, <1>7 DEF LayerFinished, DestablishIfLast, r
<1>9. Walking(t)
  BY <1>1, <1>5, <1>6, <1>7, LivingSame DEF Walking, LinkHeld
<1> QED BY <1>3, <1>5, <1>8, <1>9

LEMMA AuthFinishWalks ==
    ASSUME NEW s, Walking(s)
    PROVE  LET t == AuthFinish(s)
           IN  /\ Walking(t) /\ t.fsm = s.fsm /\ ~t.ld["auth"].starting
               /\ \A e \in Layer \ {"auth"} : t.ld[e] = s.ld[e]
               /\ t.ses.linked = s.ses.linked /\ t.ses.calls = s.ses.calls
<1> DEFINE x == [s.ses EXCEPT !.auth = "off", !.authTimer = FALSE]
<1>1. Typed(s) /\ Living(s) /\ LinkHeld(s) /\ s.ses.terminating
  BY DEF Walking
<1>2. s.ses \in Ses
  BY <1>1, TypedFields
<1>3. /\ x \in Ses /\ x.conf = s.ses.conf
      /\ x.bad = s.ses.bad /\ x.freed = s.ses.freed
      /\ x.finished = s.ses.finished /\ x.gone = s.ses.gone
      /\ x.state = s.ses.state /\ x.terminating = s.ses.terminating
      /\ x.calls = s.ses.calls /\ x.linked = s.ses.linked
  BY <1>2 DEF Ses
<1>4. PICK u : u = [s EXCEPT !.ses = x]
  OBVIOUS
<1>5. AuthFinish(s) = LayerFinished(u, "auth")
  BY <1>4 DEF AuthFinish, Typed, PppState
<1> HIDE DEF x
<1>6. Typed(u) /\ u.fsm = s.fsm /\ u.ld = s.ld /\ u.ses = x
  BY <1>1, <1>3, <1>4, NewSes
<1>7. Walking(u)
  BY <1>1, <1>3, <1>6 DEF Walking, Living, LinkHeld, Queued
<1>8. "auth" \in Layer
  BY <1>1, Names
<1> QED BY <1>3, <1>5, <1>6, <1>7, <1>8, LayerFinishedWalks

LEMMA NcpFinishWalks ==
    ASSUME NEW s, Walking(s), NEW n \in Ncp
    PROVE  LET t == NcpFinish(s, n)
           IN  /\ Walking(t) /\ t.fsm["lcp"] = s.fsm["lcp"]
               /\ t.ses = s.ses /\ ~t.ld[n].starting
               /\ \A e \in Layer \ {n} : t.ld[e] = s.ld[e]
<1>1. Typed(s) /\ Living(s) /\ LinkHeld(s) /\ ~s.ses.freed /\ s.ses.terminating
  BY DEF Walking, Living
<1>2. /\ n \in Automaton /\ n \in Layer /\ n # "lcp"
      /\ "lcp" \in Automaton \ {n}
  BY <1>1, Names
<1>3. s.fsm[n] \in Fsm
  BY <1>1, <1>2, TypedFields
<1>4. PICK f : f = Goto(s.fsm[n], "Closed")
  OBVIOUS
<1>5. f \in Fsm
  BY <1>3, <1>4, GotoType
<1>6. PICK u : u = Put(s, n, f)
  OBVIOUS
<1>7. /\ Typed(u) /\ u.ses = s.ses /\ u.ld = s.ld
      /\ u.fsm["lcp"] = s.fsm["lcp"]
  BY <1>1, <1>2, <1>5, <1>6, PutFields
<1>8. Walking(u)
  BY <1>1, <1>7, LivingSame DEF Walking, LinkHeld
<1>9. NcpFinish(s, n) = LayerFinished(u, n)
  BY <1>4, <1>6 DEF NcpFinish
<1> QED BY <1>2, <1>7, <1>8, <1>9, LayerFinishedWalks

LEMMA LcpFinishWalks ==
    ASSUME NEW s, Walking(s)
    PROVE  LET t == LcpFinish(s)
           IN  /\ Walking(t) /\ t.ld = s.ld
               /\ Clock(s) => Clock(t)
               /\ t.ses.linked = s.ses.linked
<1>1. Typed(s) /\ Living(s) /\ LinkHeld(s) /\ ~s.ses.freed /\ s.ses.terminating
  BY DEF Walking, Living
<1>2. s.ses \in Ses /\ s.fsm \in [Automaton -> Fsm] /\ "lcp" \in Automaton
  BY <1>1, TypedFields, Names
<1>3. CASE ~s.ld["lcp"].up
  <2>1. PICK t : t = Post(s, "lcpFinished")
    OBVIOUS
  <2>2. LcpFinish(s) = t
    BY <1>3, <2>1 DEF LcpFinish
  <2>3. /\ Typed(t) /\ t.fsm = s.fsm /\ t.ld = s.ld
        /\ t.ses = [s.ses EXCEPT !.calls = Append(s.ses.calls, "lcpFinished")]
        /\ \A e : Queued(t, e) <=> Queued(s, e) \/ e = "lcpFinished"
    BY <1>1, <2>1, PostFields DEF Call
  <2>4. /\ t.ses.bad = s.ses.bad /\ t.ses.freed = s.ses.freed
        /\ t.ses.finished = s.ses.finished /\ t.ses.gone = s.ses.gone
        /\ t.ses.state = s.ses.state /\ t.ses.terminating = s.ses.terminating
        /\ t.ses.linked = s.ses.linked
    BY <1>2, <2>3 DEF Ses
  <2>5. ~Queued(t, "connect")
    BY <1>1, <2>3 DEF Living
  <2>6. Walking(t)
    BY <1>1, <2>3, <2>4, <2>5 DEF Walking, Living, LinkHeld
  <2> QED BY <2>2, <2>3, <2>4, <2>6 DEF Clock
<1>4. CASE s.ld["lcp"].up
  <2> DEFINE x == [s.ses EXCEPT !.echo = FALSE]
  <2>1. /\ x \in Ses /\ x.conf = s.ses.conf /\ SameCore(x, s.ses)
    BY <1>2 DEF Ses, SameCore
  <2>2. PICK u : u = [s EXCEPT !.ses = x]
    OBVIOUS
  <2>3. PICK r : r = Close(s.fsm["lcp"])
    OBVIOUS
  <2>4. LcpFinish(s) = LcpClosed(u, r)
    BY <1>4, <2>2, <2>3 DEF LcpFinish, Typed, PppState
  <2> HIDE DEF x
  <2>5. Typed(u) /\ u.fsm = s.fsm /\ u.ld = s.ld /\ u.ses = x
    BY <1>1, <2>1, <2>2, NewSes
  <2>6. Living(u) /\ u.ses.terminating /\ ~u.ses.freed /\ u.ses.linked = s.ses.linked
    BY <1>1, <2>1, <2>5, Plain DEF SameCore
  <2>7. s.fsm["lcp"] \in Fsm /\ s.fsm["lcp"].state \notin {"Initial", "Starting"}
    BY <1>1, <1>2 DEF LinkHeld
  <2>8. /\ r \in Answer /\ r.sig # "finished" /\ r.f \in Fsm
        /\ r.f.state \notin {"Initial", "Starting"}
        /\ Waiting(r.f) => r.f.timer \/ (Waiting(s.fsm["lcp"]) /\ ~s.fsm["lcp"].timer)
    BY <2>3, <2>7, CloseType, AnswerFields
  <2>9. PICK t : t = Put(u, "lcp", r.f)
    OBVIOUS
  <2>10. LcpFinish(s) = t
    BY <2>4, <2>8, <2>9 DEF LcpClosed
  <2>11. Typed(t) /\ t.ses = u.ses /\ t.ld = u.ld /\ t.fsm["lcp"] = r.f
    BY <1>2, <2>5, <2>6, <2>8, <2>9, PutFields
  <2>12. Walking(t)
    BY <1>1, <2>5, <2>6, <2>8, <2>11, LivingSame DEF Walking, LinkHeld
  <2>13. Clock(s) => Clock(t)
    BY <2>8, <2>11 DEF Clock
  <2> QED BY <2>5, <2>6, <2>10, <2>11, <2>12, <2>13
<1> QED BY <1>3, <1>4

(* One turn of the loop: it frees nothing, and the layer is finished.      *)
LEMMA FinishStepWalks ==
    ASSUME NEW s, Walking(s), NEW d \in Layer
    PROVE  LET t == FinishStep(s, d)
           IN  /\ Walking(t)
               /\ d # "lcp" => ~t.ld[d].starting
               /\ \A e \in Layer \ {"lcp"} :
                     ~s.ld[e].starting => ~t.ld[e].starting
               /\ Clock(s) => Clock(t)
               /\ t.ses.linked = s.ses.linked
<1>1. Typed(s) /\ ~s.ses.freed
  BY DEF Walking, Living
<1>2. CASE ~s.ld[d].starting
  BY <1>2 DEF FinishStep
<1>3. CASE s.ld[d].starting
  <2>1. PICK t : t = Finish(s, d)
    OBVIOUS
  <2>2. /\ Walking(t)
        /\ d # "lcp" => ~t.ld[d].starting
        /\ \A e \in Layer \ {"lcp"} : ~s.ld[e].starting => ~t.ld[e].starting
        /\ Clock(s) => Clock(t)
        /\ t.ses.linked = s.ses.linked
    <3>1. CASE d = "lcp"
      BY <2>1, <3>1, LcpFinishWalks DEF Finish
    <3>2. CASE d = "auth"
      <4>1. t = AuthFinish(s)
        BY <2>1, <3>2 DEF Finish
      <4>2. /\ Walking(t) /\ t.fsm = s.fsm /\ ~t.ld["auth"].starting
            /\ \A e \in Layer \ {"auth"} : t.ld[e] = s.ld[e]
            /\ t.ses.linked = s.ses.linked
        BY <4>1, AuthFinishWalks
      <4> QED BY <3>2, <4>2 DEF Clock
    <3>3. CASE d \in Ncp
      <4>1. d # "lcp" /\ d # "auth"
        BY <1>1, <3>3, Names
      <4>2. t = NcpFinish(s, d)
        BY <2>1, <4>1 DEF Finish
      <4>3. /\ Walking(t) /\ t.fsm["lcp"] = s.fsm["lcp"] /\ t.ses = s.ses
            /\ ~t.ld[d].starting /\ \A e \in Layer \ {d} : t.ld[e] = s.ld[e]
        BY <3>3, <4>2, NcpFinishWalks
      <4> QED BY <4>3 DEF Clock
    <3> QED BY <1>1, <3>1, <3>2, <3>3, Names
  <2>3. ~t.ses.freed
    BY <2>2 DEF Walking, Living
  <2>4. FinishStep(s, d) = t
    BY <1>1, <1>3, <2>1, <2>3 DEF FinishStep, StillThere
  <2> QED BY <2>2, <2>4
<1> QED BY <1>2, <1>3

LEMMA FinishNcpWalks ==
    ASSUME NEW s, Walking(s), NEW i \in 1..3
    PROVE  LET t == FinishNcp(s, i)
           IN  /\ Walking(t)
               /\ i <= Len(NcpOrder) => ~t.ld[NcpOrder[i]].starting
               /\ \A e \in Layer \ {"lcp"} :
                     ~s.ld[e].starting => ~t.ld[e].starting
               /\ Clock(s) => Clock(t)
               /\ t.ses.linked = s.ses.linked
<1>1. Typed(s)
  BY DEF Walking
<1>2. CASE i <= Len(NcpOrder)
  <2>1. NcpOrder[i] \in Ncp
    BY <1>1, <1>2, TypedFields, ConfFacts
  <2>2. NcpOrder[i] \in Layer /\ NcpOrder[i] # "lcp"
    BY <1>1, <2>1, Names
  <2>3. FinishNcp(s, i) = FinishStep(s, NcpOrder[i])
    BY <1>2 DEF FinishNcp
  <2> QED BY <2>2, <2>3, FinishStepWalks
<1>3. CASE ~(i <= Len(NcpOrder))
  BY <1>3 DEF FinishNcp
<1> QED BY <1>2, <1>3

(* The whole loop leaves only LCP.                                         *)
LEMMA FinishLayersWalks ==
    ASSUME NEW s, Walking(s)
    PROVE  LET t == FinishLayers(s)
           IN  /\ Walking(t) /\ t.ses.linked = s.ses.linked
               /\ \A d \in Layer \ {"lcp"} : ~t.ld[d].starting
               /\ Clock(s) => Clock(t)
<1>1. Typed(s)
  BY DEF Walking
<1>2. "lcp" \in Layer /\ "auth" \in Layer
  BY <1>1, Names
<1> DEFINE Keeps(a, b) ==
        /\ \A e \in Layer \ {"lcp"} : ~a.ld[e].starting => ~b.ld[e].starting
        /\ Clock(a) => Clock(b)
        /\ b.ses.linked = a.ses.linked
<1>3. PICK a : a = FinishStep(s, "lcp")
  OBVIOUS
<1>4. Walking(a) /\ Keeps(s, a)
  BY <1>2, <1>3, FinishStepWalks
<1>5. PICK b : b = FinishStep(a, "auth")
  OBVIOUS
<1>6. Walking(b) /\ Keeps(a, b) /\ ~b.ld["auth"].starting
  BY <1>2, <1>4, <1>5, FinishStepWalks
<1>7. PICK c : c = FinishNcp(b, 1)
  OBVIOUS
<1>8. /\ Walking(c) /\ Keeps(b, c)
      /\ 1 <= Len(NcpOrder) => ~c.ld[NcpOrder[1]].starting
  BY <1>6, <1>7, FinishNcpWalks
<1>9. PICK d : d = FinishNcp(c, 2)
  OBVIOUS
<1>10. /\ Walking(d) /\ Keeps(c, d)
       /\ 2 <= Len(NcpOrder) => ~d.ld[NcpOrder[2]].starting
  BY <1>8, <1>9, FinishNcpWalks
<1>11. PICK t : t = FinishNcp(d, 3)
  OBVIOUS
<1>12. /\ Walking(t) /\ Keeps(d, t)
       /\ 3 <= Len(NcpOrder) => ~t.ld[NcpOrder[3]].starting
  BY <1>10, <1>11, FinishNcpWalks
<1>13. FinishLayers(s) = t
  BY <1>3, <1>5, <1>7, <1>9, <1>11 DEF FinishLayers
<1>14. ASSUME NEW e \in Layer \ {"lcp"} PROVE ~t.ld[e].starting
  <2>1. CASE e = "auth"
    BY <2>1, <1>2, <1>6, <1>8, <1>10, <1>12
  <2>2. CASE e # "auth"
    <3>1. e \in Ncp
      BY <2>2, <1>1, Names
    <3>2. PICK i \in 1..Len(NcpOrder) : NcpOrder[i] = e
      BY <3>1, <1>1, TypedFields, ConfFacts
    <3>3. Len(NcpOrder) \in Nat /\ Len(NcpOrder) <= 3
      BY <1>1, TypedFields, ConfFacts
    <3>4. i = 1 \/ i = 2 \/ i = 3
      BY <3>2, <3>3
    <3>5. CASE i = 1
      BY <3>2, <3>3, <3>5, <1>8, <1>10, <1>12
    <3>6. CASE i = 2
      BY <3>2, <3>3, <3>6, <1>10, <1>12
    <3>7. CASE i = 3
      BY <3>2, <3>3, <3>7, <1>12
    <3> QED BY <3>4, <3>5, <3>6, <3>7
  <2> QED BY <2>1, <2>2
<1> QED BY <1>4, <1>6, <1>8, <1>10, <1>12, <1>13, <1>14

(* A soft termination frees nothing: it leaves LCP to end the session.     *)
LEMMA TerminateSoft ==
    ASSUME NEW s, Base(s)
    PROVE  LET t == Terminate(s, FALSE)
           IN  /\ Base(t) /\ t.ses.terminating
               /\ t.ses.linked = s.ses.linked
               /\ Clock(s) => Clock(t)
<1>1. /\ Typed(s) /\ Living(s) /\ LinkHeld(s) /\ OnlyLink(s)
      /\ ~s.ses.finished /\ ~s.ses.gone /\ s.ses \in Ses
  BY TypedFields DEF Base, Living
<1>2. CASE s.ses.terminating
  <2> DEFINE x == [s.ses EXCEPT !.timer = FALSE]
  <2>1. x \in Ses /\ x.conf = s.ses.conf /\ SameCore(x, s.ses)
    BY <1>1 DEF Ses, SameCore
  <2>2. PICK t : t = [s EXCEPT !.ses = x]
    OBVIOUS
  <2>3. Terminate(s, FALSE) = t
    BY <1>1, <1>2, <2>2 DEF Terminate, Typed, PppState
  <2> HIDE DEF x
  <2>4. Typed(t) /\ t.fsm = s.fsm /\ t.ld = s.ld /\ t.ses = x
    BY <1>1, <2>1, <2>2, NewSes
  <2> QED BY <1>1, <1>2, <2>1, <2>3, <2>4, Plain DEF SameCore, Clock
<1>3. CASE ~s.ses.terminating
  <2> DEFINE x == [s.ses EXCEPT !.timer = FALSE, !.terminating = TRUE,
                                !.state = "finishing"]
  <2>1. /\ x \in Ses /\ x.conf = s.ses.conf /\ x.terminating
        /\ x.state = "finishing" /\ x.bad = s.ses.bad /\ x.freed = s.ses.freed
        /\ x.finished = s.ses.finished /\ x.gone = s.ses.gone
        /\ x.linked = s.ses.linked /\ x.calls = s.ses.calls
    BY <1>1 DEF Ses
  <2>2. PICK u : u = [s EXCEPT !.ses = x]
    OBVIOUS
  <2>3. Terminate(s, FALSE) = TerminateDone(PppTerminate(u, FALSE))
    BY <1>1, <1>3, <2>2 DEF Terminate, Typed, PppState
  <2> HIDE DEF x
  <2>4. Typed(u) /\ u.fsm = s.fsm /\ u.ld = s.ld /\ u.ses = x
    BY <1>1, <2>1, <2>2, NewSes
  <2>5. Walking(u)
    BY <1>1, <2>1, <2>4 DEF Walking, Living, LinkHeld, Queued
  <2>6. PICK v : v = FinishLayers(u)
    OBVIOUS
  <2>7. /\ Walking(v) /\ v.ses.linked = s.ses.linked
        /\ \A d \in Layer \ {"lcp"} : ~v.ld[d].starting
        /\ Clock(u) => Clock(v)
    BY <2>1, <2>4, <2>5, <2>6, FinishLayersWalks
  <2>8. PppTerminate(u, FALSE) = v
    <3>1. ~u.ses.finished /\ u.ld["lcp"].starting
      BY <2>5 DEF Walking, Living, LinkHeld
    <3>2. "lcp" \in Layer
      BY <1>1, Names
    <3> QED BY <2>6, <3>1, <3>2 DEF PppTerminate
  <2>9. Typed(v) /\ v.ses \in Ses /\ ~v.ses.finished
    BY <2>7, TypedFields DEF Walking, Living
  <2> DEFINE y == [v.ses EXCEPT !.query = FALSE, !.down = TRUE]
  <2>10. /\ y \in Ses /\ y.conf = v.ses.conf /\ ~y.query
         /\ y.terminating = v.ses.terminating
         /\ y.state = v.ses.state /\ y.bad = v.ses.bad /\ y.freed = v.ses.freed
         /\ y.finished = v.ses.finished /\ y.gone = v.ses.gone
         /\ y.linked = v.ses.linked /\ y.calls = v.ses.calls
    BY <2>9 DEF Ses
  <2>11. PICK t : t = [v EXCEPT !.ses = y]
    OBVIOUS
  <2>12. Terminate(s, FALSE) = t
    BY <2>3, <2>8, <2>9, <2>11 DEF TerminateDone, CancelQuery, Typed, PppState
  <2> HIDE DEF y
  <2>13. Typed(t) /\ t.fsm = v.fsm /\ t.ld = v.ld /\ t.ses = y
    BY <2>9, <2>10, <2>11, NewSes
  <2>14. Living(t) /\ LinkHeld(t) /\ t.ses.terminating
    BY <2>7, <2>10, <2>13 DEF Walking, Living, LinkHeld, Queued
  <2>15. OnlyLink(t)
    BY <2>7, <2>10, <2>13, <2>14 DEF OnlyLink
  <2>16. Clock(s) => Clock(t)
    BY <2>4, <2>7, <2>13 DEF Clock
  <2> QED BY <2>7, <2>10, <2>12, <2>13, <2>14, <2>15, <2>16 DEF Base
<1> QED BY <1>2, <1>3

(* A hard termination frees the layers at once.                            *)
LEMMA TerminateHard ==
    ASSUME NEW s, Typed(s), Living(s)
    PROVE  LET t == Terminate(s, TRUE)
           IN  /\ Gone(t) /\ ~t.ses.gone
               /\ s.ses.linked => Queued(t, "disconnect")
<1>1. /\ ~s.ses.finished /\ ~s.ses.gone /\ ~s.ses.freed /\ ~s.ses.bad
      /\ s.ses \in Ses
  BY TypedFields DEF Living
<1> DEFINE x == [s.ses EXCEPT !.timer = FALSE, !.terminating = TRUE,
                              !.state = "finishing"]
<1>2. /\ x \in Ses /\ x.conf = s.ses.conf /\ x.terminating
      /\ x.state = "finishing" /\ x.bad = s.ses.bad /\ x.freed = s.ses.freed
      /\ x.finished = s.ses.finished /\ x.gone = s.ses.gone
      /\ x.linked = s.ses.linked /\ x.calls = s.ses.calls
  BY <1>1 DEF Ses
<1>3. PICK u : u = [s EXCEPT !.ses = x]
  OBVIOUS
<1>4. Terminate(s, TRUE) = TerminateDone(PppTerminate(u, TRUE))
  BY <1>1, <1>3 DEF Terminate, Typed, PppState
<1> HIDE DEF x
<1>5. Typed(u) /\ u.ses = x
  BY <1>2, <1>3, NewSes
<1>6. ~Queued(u, "connect") /\ ~u.ses.finished /\ ~u.ses.bad
  BY <1>1, <1>2, <1>5 DEF Living, Queued
<1>7. PICK t : t = Destablish(u)
  OBVIOUS
<1>8. /\ Gone(t) /\ t.ses.gone = u.ses.gone
      /\ u.ses.linked => Queued(t, "disconnect")
  BY <1>2, <1>5, <1>6, <1>7, DestablishGone
<1>9. PppTerminate(u, TRUE) = t
  BY <1>6, <1>7 DEF PppTerminate
<1>10. Terminate(s, TRUE) = t
  BY <1>4, <1>8, <1>9 DEF TerminateDone, Gone
<1> QED BY <1>1, <1>2, <1>5, <1>8, <1>10

LEMMA TerminateHeld ==
    ASSUME NEW s, Base(s), s.ses.linked
    PROVE  LET t == Terminate(s, FALSE)
           IN  /\ Held(t) /\ t.ses.terminating
               /\ Clock(s) => Timed(t)
<1>1. PICK t : t = Terminate(s, FALSE)
  OBVIOUS
<1>2. /\ Base(t) /\ t.ses.terminating /\ t.ses.linked
      /\ Clock(s) => Clock(t)
  BY <1>1, TerminateSoft
<1> QED BY <1>1, <1>2 DEF Held, Network, Timed, Clock

LEMMA TimedClock ==
    ASSUME NEW s, Timed(s)
    PROVE  Clock(s)
BY DEF Timed, Clock

(* LCP, the only layer left, finishes: the layers are freed.               *)
LEMMA LastLayerFinished ==
    ASSUME NEW s, Base(s), s.ses.linked, s.ses.terminating
    PROVE  Released(LayerFinished(s, "lcp"))
<1> DEFINE r == [s.ld["lcp"] EXCEPT !.finished = TRUE, !.starting = FALSE]
<1>1. /\ Typed(s) /\ Living(s) /\ OnlyLink(s)
      /\ ~s.ses.freed /\ ~s.ses.finished /\ ~s.ses.bad /\ ~s.ses.gone
      /\ s.ses.state = "finishing" /\ ~Queued(s, "connect")
  BY DEF Base, Living
<1>2. "lcp" \in Layer /\ s.ld["lcp"] \in Flags
  BY <1>1, TypedFields, Names
<1>3. r \in Flags /\ ~r.starting
  BY <1>2 DEF Flags
<1>4. PICK u : u = Set(s, "lcp", r)
  OBVIOUS
<1>5. LayerFinished(s, "lcp") = DestablishIfLast(u)
  BY <1>1, <1>4 DEF LayerFinished
<1> HIDE DEF r
<1>6. /\ Typed(u) /\ u.ses = s.ses /\ u.ld["lcp"] = r
      /\ \A e \in Layer \ {"lcp"} : u.ld[e] = s.ld[e]
  BY <1>1, <1>2, <1>3, <1>4, SetFields
<1>7. \A d \in Layer : ~u.ld[d].starting
  BY <1>1, <1>3, <1>6 DEF OnlyLink
<1>8. PICK t : t = Destablish(u)
  OBVIOUS
<1>9. LayerFinished(s, "lcp") = t
  BY <1>5, <1>7, <1>8 DEF DestablishIfLast
<1>10. ~Queued(u, "connect")
  BY <1>1, <1>6 DEF Queued
<1>11. /\ Gone(t) /\ t.ses.gone = u.ses.gone
       /\ u.ses.linked => Queued(t, "disconnect")
  BY <1>1, <1>6, <1>8, <1>10, DestablishGone
<1> QED BY <1>6, <1>9, <1>11 DEF Gone, Released

-----------------------------------------------------------------------------
(* Writing to the network protocols of a held session.                     *)

LEMMA BaseSame ==
    ASSUME NEW s, Base(s), NEW t, Typed(t), t.ses = s.ses, LinkHeld(t),
           s.ses.terminating => \A d \in Layer \ {"lcp"} : ~t.ld[d].starting
    PROVE  Base(t)
BY LivingSame DEF Base, OnlyLink, Queued

LEMMA BasePut ==
    ASSUME NEW s, Base(s), NEW n \in Ncp, NEW f \in Fsm
    PROVE  LET t == Put(s, n, f)
           IN  /\ Base(t) /\ t.ses = s.ses /\ t.ld = s.ld /\ t.fsm[n] = f
               /\ \A k \in Automaton \ {n} : t.fsm[k] = s.fsm[k]
               /\ t.fsm["lcp"] = s.fsm["lcp"]
               /\ Timed(s) => Timed(t)
<1>1. Typed(s) /\ ~s.ses.freed /\ LinkHeld(s) /\ OnlyLink(s)
  BY DEF Base, Living
<1>2. n \in Automaton /\ n # "lcp" /\ "lcp" \in Automaton
  BY <1>1, Names
<1>3. PICK t : t = Put(s, n, f)
  OBVIOUS
<1>4. /\ Typed(t) /\ t.ses = s.ses /\ t.ld = s.ld /\ t.fsm[n] = f
      /\ \A k \in Automaton \ {n} : t.fsm[k] = s.fsm[k]
  BY <1>1, <1>2, <1>3, PutFields
<1>5. t.fsm["lcp"] = s.fsm["lcp"]
  BY <1>2, <1>4
<1>6. LinkHeld(t)
  BY <1>1, <1>4, <1>5 DEF LinkHeld
<1>7. Base(t)
  BY <1>1, <1>4, <1>6, BaseSame DEF OnlyLink
<1>8. Timed(s) => Timed(t)
  BY <1>4, <1>5 DEF Timed
<1> QED BY <1>3, <1>4, <1>5, <1>7, <1>8

LEMMA BaseSet ==
    ASSUME NEW s, Base(s), NEW d \in Layer, d # "lcp", NEW r \in Flags,
           s.ses.terminating => ~r.starting
    PROVE  LET t == Set(s, d, r)
           IN  /\ Base(t) /\ t.ses = s.ses /\ t.fsm = s.fsm /\ t.ld[d] = r
               /\ \A k \in Layer \ {d} : t.ld[k] = s.ld[k]
               /\ t.ld["lcp"] = s.ld["lcp"]
               /\ Timed(s) => Timed(t)
<1>1. Typed(s) /\ ~s.ses.freed /\ LinkHeld(s) /\ OnlyLink(s)
  BY DEF Base, Living
<1>2. "lcp" \in Layer
  BY <1>1, Names
<1>3. PICK t : t = Set(s, d, r)
  OBVIOUS
<1>4. /\ Typed(t) /\ t.ses = s.ses /\ t.fsm = s.fsm /\ t.ld[d] = r
      /\ \A k \in Layer \ {d} : t.ld[k] = s.ld[k]
  BY <1>1, <1>3, SetFields
<1>5. t.ld["lcp"] = s.ld["lcp"]
  BY <1>2, <1>4
<1>6. LinkHeld(t)
  BY <1>1, <1>4, <1>5 DEF LinkHeld
<1>7. s.ses.terminating => \A e \in Layer \ {"lcp"} : ~t.ld[e].starting
  BY <1>1, <1>4 DEF OnlyLink
<1>8. Base(t)
  BY <1>4, <1>6, <1>7, BaseSame
<1>9. Timed(s) => Timed(t)
  BY <1>4, <1>5 DEF Timed
<1> QED BY <1>3, <1>4, <1>5, <1>8, <1>9

(* An automaton of a network protocol moves: it is asleep or the protocol  *)
(* has an address.                                                         *)
LEMMA HeldPut ==
    ASSUME NEW s, Held(s), NEW n \in Ncp, NEW f \in Fsm,
           ~s.ses.terminating => Asleep(f) \/ s.ld[n].addr
    PROVE  LET t == Put(s, n, f)
           IN  /\ Held(t) /\ t.ses = s.ses /\ t.ld = s.ld /\ t.fsm[n] = f
               /\ t.fsm["lcp"] = s.fsm["lcp"]
               /\ Timed(s) => Timed(t)
<1>1. PICK t : t = Put(s, n, f)
  OBVIOUS
<1>2. /\ Base(t) /\ t.ses = s.ses /\ t.ld = s.ld /\ t.fsm[n] = f
      /\ \A k \in Automaton \ {n} : t.fsm[k] = s.fsm[k]
      /\ t.fsm["lcp"] = s.fsm["lcp"]
      /\ Timed(s) => Timed(t)
  BY <1>1, BasePut DEF Held
<1>3. ASSUME ~t.ses.terminating PROVE Authentic(t) /\ Carrying(t)
  BY <1>2, <1>3 DEF Held, Network, Authentic, Carrying, Queued
<1>4. ASSUME ~t.ses.terminating, NEW k \in Ncp PROVE NcpSound(t, k)
  <2>1. NcpSound(s, k)
    BY <1>2, <1>4 DEF Held, Network
  <2>2. CASE k = n
    BY <1>2, <1>4, <2>1, <2>2 DEF NcpSound
  <2>3. CASE k # n
    <3>1. k \in Automaton
      BY DEF Automaton
    <3> QED BY <1>2, <2>1, <2>3, <3>1 DEF NcpSound
  <2> QED BY <2>2, <2>3
<1>5. Network(t)
  BY <1>3, <1>4 DEF Network
<1> QED BY <1>1, <1>2, <1>5 DEF Held

(* The flags of a network protocol change.                                 *)
FlagsFit(s, n, r) ==
    /\ r.begun \/ r.up => s.ld["auth"].started
    /\ r.started => r.up
    /\ s.ld[n].started => r.started
    /\ r.passive => Mode[n] # "require" \/ n = "ccp"
    /\ n = "ccp" => r.addr
    /\ ~Asleep(s.fsm[n]) => r.addr

LEMMA HeldSet ==
    ASSUME NEW s, Held(s), NEW n \in Ncp, NEW r \in Flags,
           s.ses.terminating => ~r.starting,
           ~s.ses.terminating => FlagsFit(s, n, r)
    PROVE  LET t == Set(s, n, r)
           IN  /\ Held(t) /\ t.ses = s.ses /\ t.fsm = s.fsm /\ t.ld[n] = r
               /\ \A k \in Layer \ {n} : t.ld[k] = s.ld[k]
               /\ Timed(s) => Timed(t)
<1>1. PICK t : t = Set(s, n, r)
  OBVIOUS
<1>2. Typed(s)
  BY DEF Held, Base
<1>3. n \in Layer /\ n # "lcp" /\ n # "auth" /\ "auth" \in Layer
  BY <1>2, Names
<1>4. /\ Base(t) /\ t.ses = s.ses /\ t.fsm = s.fsm /\ t.ld[n] = r
      /\ \A k \in Layer \ {n} : t.ld[k] = s.ld[k]
      /\ t.ld["lcp"] = s.ld["lcp"]
      /\ Timed(s) => Timed(t)
  BY <1>1, <1>3, BaseSet DEF Held
<1>5. t.ld["auth"] = s.ld["auth"]
  BY <1>3, <1>4
<1>6. ASSUME ~t.ses.terminating PROVE Authentic(t)
  BY <1>4, <1>5, <1>6 DEF Held, Network, Authentic, Queued
<1>7. ASSUME ~t.ses.terminating, NEW k \in Ncp
      PROVE  NcpSound(t, k) /\ (s.ld[k].started => t.ld[k].started)
  <2>1. NcpSound(s, k)
    BY <1>4, <1>7 DEF Held, Network
  <2>2. CASE k = n
    BY <1>4, <1>5, <1>7, <2>1, <2>2 DEF NcpSound, FlagsFit
  <2>3. CASE k # n
    <3>1. k \in Layer
      BY <1>2, Names
    <3> QED BY <1>4, <1>5, <2>1, <2>3, <3>1 DEF NcpSound
  <2> QED BY <2>2, <2>3
<1>8. ASSUME ~t.ses.terminating PROVE Carrying(t)
  BY <1>4, <1>5, <1>7, <1>8 DEF Held, Network, Carrying
<1>9. Network(t)
  BY <1>6, <1>7, <1>8 DEF Network
<1> QED BY <1>1, <1>4, <1>9 DEF Held

-----------------------------------------------------------------------------
(* Layers coming up.                                                       *)

(* What a step of a network protocol keeps of the rest of the session.     *)
Onward(s, t) ==
    /\ Held(t)
    /\ Timed(s) => Timed(t)
    /\ t.ses.terminating \/ \A d \in Layer : t.ld[d].addr = s.ld[d].addr

LEMMA ActivateOnward ==
    ASSUME NEW s, Held(s), NEW env, s.ses.state = "starting",
           s.ld["auth"].started,
           \E n \in Ncp : s.ld[n].started /\ ~Optional(n)
    PROVE  Onward(s, Activate(s, env))
<1>1. /\ Typed(s) /\ s.ses \in Ses /\ ~s.ses.terminating /\ Base(s)
      /\ s.ses.linked /\ Network(s)
  BY TypedFields DEF Held, Base, Living
<1>0. CASE env.ifup = "shutdown"
  BY <1>0 DEF Activate, Onward
<1>2. CASE env.ifup = "fail"
  BY <1>1, <1>2, TerminateHeld, TimedClock DEF Activate, Onward
<1>3. CASE env.ifup \notin {"shutdown", "fail"}
  <2> DEFINE x == [s.ses EXCEPT !.state = "active", !.timer = TimeoutOn]
  <2>1. /\ x \in Ses /\ x.conf = s.ses.conf /\ x.state = "active"
        /\ x.bad = s.ses.bad /\ x.freed = s.ses.freed
        /\ x.finished = s.ses.finished /\ x.gone = s.ses.gone
        /\ x.terminating = s.ses.terminating /\ x.linked = s.ses.linked
        /\ x.calls = s.ses.calls /\ x.query = s.ses.query
        /\ x.auth = s.ses.auth
    BY <1>1, PppAssumption DEF Ses
  <2>2. PICK t : t = [s EXCEPT !.ses = x]
    OBVIOUS
  <2>3. Activate(s, env) = t
    BY <1>1, <1>3, <2>2 DEF Activate, Typed, PppState
  <2> HIDE DEF x
  <2>4. Typed(t) /\ t.fsm = s.fsm /\ t.ld = s.ld /\ t.ses = x
    BY <1>1, <2>1, <2>2, NewSes
  <2>5. Living(t)
    BY <1>1, <2>1, <2>4 DEF Base, Living, Queued
  <2>6. Base(t)
    BY <1>1, <2>1, <2>4, <2>5 DEF Base, LinkHeld, OnlyLink, Queued
  <2>7. Authentic(t) /\ Carrying(t)
    BY <1>1, <2>1, <2>4 DEF Network, Authentic, Carrying, Queued
  <2>8. \A n \in Ncp : NcpSound(t, n)
    BY <1>1, <2>4 DEF Network, NcpSound
  <2>9. Held(t)
    BY <1>1, <2>1, <2>4, <2>6, <2>7, <2>8 DEF Held, Network
  <2>10. Timed(s) => Timed(t)
    BY <2>1, <2>4 DEF Timed
  <2> QED BY <2>3, <2>4, <2>9, <2>10 DEF Onward
<1> QED BY <1>0, <1>2, <1>3

LEMMA NodeStartedOnward ==
    ASSUME NEW s, Held(s), NEW env
    PROVE  Onward(s, NodeStarted(s, env))
<1>1. CASE NcpsReady(s) /\ s.ses.state = "starting"
  <2>1. PICK n \in Ncp : s.ld[n].started /\ ~Optional(n)
    BY <1>1 DEF NcpsReady
  <2>2. ~s.ses.terminating
    BY <1>1 DEF Held, Base, Living
  <2>3. NcpSound(s, n)
    BY <2>2 DEF Held, Network
  <2>4. s.ld["auth"].started
    BY <2>1, <2>3 DEF NcpSound
  <2> QED BY <1>1, <2>1, <2>4, ActivateOnward DEF NodeStarted
<1>2. CASE ~(NcpsReady(s) /\ s.ses.state = "starting")
  BY <1>2 DEF NodeStarted, Onward
<1> QED BY <1>1, <1>2


(* A flag of a network protocol is written and the node is looked at.      *)
LEMMA FlagOnward ==
    ASSUME NEW s, Held(s), NEW n \in Ncp, NEW r \in Flags, NEW env,
           r.addr = s.ld[n].addr, r.starting = s.ld[n].starting,
           ~s.ses.terminating => FlagsFit(s, n, r)
    PROVE  Onward(s, NodeStarted(Set(s, n, r), env))
<1>1. Typed(s) /\ (s.ses.terminating => ~r.starting)
  <2>1. Typed(s) /\ OnlyLink(s)
    BY DEF Held, Base
  <2>2. n \in Layer /\ n # "lcp"
    BY <2>1, Names
  <2> QED BY <2>1, <2>2 DEF OnlyLink
<1>2. PICK t : t = Set(s, n, r)
  OBVIOUS
<1>3. /\ Held(t) /\ t.ses = s.ses /\ t.ld[n] = r
      /\ \A k \in Layer \ {n} : t.ld[k] = s.ld[k]
      /\ Timed(s) => Timed(t)
  BY <1>1, <1>2, HeldSet
<1>4. \A d \in Layer : t.ld[d].addr = s.ld[d].addr
  BY <1>3
<1>5. Onward(t, NodeStarted(t, env))
  BY <1>3, NodeStartedOnward
<1> QED BY <1>2, <1>3, <1>4, <1>5 DEF Onward

LEMMA NcpStartedOnward ==
    ASSUME NEW s, Held(s), NEW n \in Ncp, NEW env,
           ~s.ses.terminating => s.ld[n].up
    PROVE  Onward(s, NcpStarted(s, n, env))
<1>1. CASE s.ld[n].started
  BY <1>1 DEF NcpStarted, Onward
<1>2. CASE ~s.ld[n].started
  <2> DEFINE r == [s.ld[n] EXCEPT !.started = TRUE]
  <2>1. Typed(s) /\ s.ld[n] \in Flags
    BY TypedFields, Names DEF Held, Base
  <2>2. /\ r \in Flags /\ r.started /\ r.begun = s.ld[n].begun
        /\ r.up = s.ld[n].up /\ r.starting = s.ld[n].starting
        /\ r.passive = s.ld[n].passive /\ r.addr = s.ld[n].addr
    BY <2>1 DEF Flags
  <2>3. NcpStarted(s, n, env) = NodeStarted(Set(s, n, r), env)
    BY <1>2 DEF NcpStarted
  <2> HIDE DEF r
  <2>4. ASSUME ~s.ses.terminating PROVE FlagsFit(s, n, r)
    <3>1. NcpSound(s, n)
      BY <2>4 DEF Held, Network
    <3> QED BY <2>2, <2>4, <3>1 DEF NcpSound, FlagsFit
  <2> QED BY <2>2, <2>3, <2>4, FlagOnward
<1> QED BY <1>1, <1>2

LEMMA NcpPassiveOnward ==
    ASSUME NEW s, Held(s), NEW n \in Ncp, NEW env,
           Mode[n] # "require" \/ n = "ccp"
    PROVE  Onward(s, NcpPassive(s, n, env))
<1>1. CASE s.ld[n].started
  BY <1>1 DEF NcpPassive, Onward
<1>2. CASE ~s.ld[n].started
  <2> DEFINE r == [s.ld[n] EXCEPT !.passive = TRUE]
  <2>1. Typed(s) /\ s.ld[n] \in Flags
    BY TypedFields, Names DEF Held, Base
  <2>2. /\ r \in Flags /\ r.started = s.ld[n].started
        /\ r.begun = s.ld[n].begun /\ r.up = s.ld[n].up
        /\ r.starting = s.ld[n].starting /\ r.addr = s.ld[n].addr
    BY <2>1 DEF Flags
  <2>3. NcpPassive(s, n, env) = NodeStarted(Set(s, n, r), env)
    BY <1>2 DEF NcpPassive
  <2> HIDE DEF r
  <2>4. ASSUME ~s.ses.terminating PROVE FlagsFit(s, n, r)
    <3>1. NcpSound(s, n)
      BY <2>4 DEF Held, Network
    <3> QED BY <2>2, <2>4, <3>1 DEF NcpSound, FlagsFit
  <2> QED BY <2>2, <2>3, <2>4, FlagOnward
<1> QED BY <1>1, <1>2

(* A network protocol that has begun comes up.                             *)
LEMMA NcpUpOnward ==
    ASSUME NEW s, Held(s), NEW n \in Ncp, NEW env,
           ~s.ses.terminating => s.ld["auth"].started
    PROVE  Onward(s, NcpUp(s, n, env))
<1>1. CASE s.ld[n].up
  BY <1>1 DEF NcpUp, Onward
<1>2. CASE ~s.ld[n].up
  <2> DEFINE r == [s.ld[n] EXCEPT !.up = TRUE]
  <2>1. Typed(s) /\ s.ld[n] \in Flags /\ OnlyLink(s) /\ n \in Layer /\ n # "lcp"
    BY TypedFields, Names DEF Held, Base
  <2>2. /\ r \in Flags /\ r.up /\ r.started = s.ld[n].started
        /\ r.begun = s.ld[n].begun /\ r.passive = s.ld[n].passive
        /\ r.starting = s.ld[n].starting /\ r.addr = s.ld[n].addr
    BY <2>1 DEF Flags
  <2>3. PICK t : t = Set(s, n, r)
    OBVIOUS
  <2>4. NcpUp(s, n, env) = NcpStarted(t, n, env)
    BY <1>2, <2>3 DEF NcpUp
  <2> HIDE DEF r
  <2>5. ASSUME ~s.ses.terminating PROVE FlagsFit(s, n, r)
    <3>1. NcpSound(s, n)
      BY <2>5 DEF Held, Network
    <3> QED BY <2>2, <2>5, <3>1 DEF NcpSound, FlagsFit
  <2>6. s.ses.terminating => ~r.starting
    BY <2>1, <2>2 DEF OnlyLink
  <2>7. /\ Held(t) /\ t.ses = s.ses /\ t.ld[n] = r
        /\ \A k \in Layer \ {n} : t.ld[k] = s.ld[k]
        /\ Timed(s) => Timed(t)
    BY <2>2, <2>3, <2>5, <2>6, HeldSet
  <2>8. Onward(t, NcpStarted(t, n, env))
    BY <2>2, <2>7, NcpStartedOnward
  <2>9. \A d \in Layer : t.ld[d].addr = s.ld[d].addr
    BY <2>2, <2>7
  <2> QED BY <2>4, <2>7, <2>8, <2>9 DEF Onward
<1> QED BY <1>1, <1>2

(* Opening a network protocol.  It goes wrong only when the protocol is    *)
(* required and no address is left; the caller then ends the session.      *)
LEMMA OpenNcpHeld ==
    ASSUME NEW s, Held(s), NEW n \in Ncp, NEW env
    PROVE  LET t == OpenNcp(s, n, env)
           IN  /\ Base(t) /\ t.ses = s.ses
               /\ \A d \in Layer \ {n} : t.ld[d] = s.ld[d]
               /\ \A k \in Ncp : t.ld[k].started = s.ld[k].started
               /\ t.ld[n].begun = s.ld[n].begun /\ t.ld[n].up = s.ld[n].up
               /\ Timed(s) => Timed(t)
               /\ Held(t) \/ (Snd(s, n, env) = "fail" /\ Mode[n] = "require"
                                /\ ~s.ld[n].addr)
<1> DEFINE r == [s.ld[n] EXCEPT !.addr = s.ld[n].addr \/ env.send[n] # "close"]
<1>1. /\ Base(s) /\ Typed(s) /\ ~s.ses.freed /\ OnlyLink(s) /\ Network(s)
      /\ s.ses.linked
  BY DEF Held, Base, Living
<1>2. /\ n \in Layer /\ n \in Automaton /\ n # "lcp"
      /\ \A k \in Ncp : k \in Layer
  BY <1>1, Names
<1>3. s.ld[n] \in Flags /\ s.fsm[n] \in Fsm
  BY <1>1, <1>2, TypedFields
<1>4. /\ r \in Flags /\ r.started = s.ld[n].started
      /\ r.begun = s.ld[n].begun /\ r.up = s.ld[n].up
      /\ r.starting = s.ld[n].starting /\ r.passive = s.ld[n].passive
      /\ r.addr = (s.ld[n].addr \/ env.send[n] # "close")
  BY <1>3 DEF Flags
<1>5. PICK u : u = Set(s, n, r)
  OBVIOUS
<1>6. Asked(s, n, env) = u
  BY <1>1, <1>2, <1>5 DEF Asked, Set
<1> HIDE DEF r
<1>7. PICK snd : snd = Snd(s, n, env)
  OBVIOUS
<1>8. PICK f : f = Open(n, LowerUp(s.fsm[n], snd), snd)
  OBVIOUS
<1>9. f \in Fsm
  BY <1>3, <1>8, LowerUpType, OpenType
<1>10. PICK t : t = Put(u, n, f)
  OBVIOUS
<1>11. OpenNcp(s, n, env) = t
  BY <1>6, <1>7, <1>8, <1>10 DEF OpenNcp
<1>12. s.ses.terminating => ~r.starting
  BY <1>1, <1>2, <1>4 DEF OnlyLink
<1>13. /\ Base(u) /\ u.ses = s.ses /\ u.ld[n] = r
       /\ \A d \in Layer \ {n} : u.ld[d] = s.ld[d]
       /\ Timed(s) => Timed(u)
  BY <1>1, <1>2, <1>4, <1>5, <1>12, BaseSet
<1>14. /\ Base(t) /\ t.ses = u.ses /\ t.ld = u.ld
       /\ Timed(u) => Timed(t)
  BY <1>9, <1>10, <1>13, BasePut
<1>15. \A k \in Ncp : t.ld[k].started = s.ld[k].started
  BY <1>2, <1>4, <1>13, <1>14
<1>16. Held(t) \/ (snd = "fail" /\ Mode[n] = "require" /\ ~s.ld[n].addr)
  <2>1. CASE s.ses.terminating
    BY <1>1, <1>13, <1>14, <2>1 DEF Held, Network
  <2>2. CASE ~s.ses.terminating /\ r.addr
    <3>1. FlagsFit(s, n, r)
      <4>1. NcpSound(s, n)
        BY <1>1, <2>2 DEF Network
      <4> QED BY <1>4, <2>2, <4>1 DEF FlagsFit, NcpSound
    <3>2. Held(u)
      BY <1>4, <1>5, <2>2, <3>1, HeldSet
    <3> QED BY <1>9, <1>10, <1>13, <2>2, <3>2, HeldPut
  <2>3. CASE ~s.ses.terminating /\ ~r.addr
    <3>1. NcpSound(s, n) /\ ~s.ld[n].addr /\ env.send[n] = "close"
      BY <1>1, <1>4, <2>3 DEF Network
    <3>2. Asleep(s.fsm[n]) /\ n # "ccp"
      BY <3>1 DEF NcpSound
    <3>3. FlagsFit(s, n, r)
      BY <1>4, <3>1, <3>2 DEF FlagsFit, NcpSound
    <3>4. Held(u)
      BY <1>4, <1>5, <2>3, <3>3, HeldSet
    <3>5. CASE Mode[n] = "require"
      BY <1>2, <1>7, <3>1, <3>5 DEF Snd
    <3>6. CASE Mode[n] # "require"
      <4>1. snd = "close"
        BY <1>2, <1>7, <3>1, <3>6 DEF Snd
      <4>2. PICK g : g = LowerUp(s.fsm[n], snd)
        OBVIOUS
      <4>3. g \in Fsm /\ g.state = "Closed"
        BY <1>3, <3>2, <4>2, LowerUpType
      <4>4. f.state = "Closed"
        BY <1>8, <4>1, <4>2, <4>3, OpenType
      <4> QED BY <1>9, <1>10, <3>4, <4>4, HeldPut
    <3> QED BY <3>5, <3>6
  <2> QED BY <2>1, <2>2, <2>3
<1> QED BY <1>4, <1>7, <1>11, <1>13, <1>14, <1>15, <1>16

(* The loop that starts the network protocols: the peer is authenticated   *)
(* and nothing that carries traffic is up yet, so no interface can fail.   *)
Launching(s) ==
    /\ Held(s) /\ ~s.ses.terminating /\ s.ld["auth"].started
    /\ \A n \in Ncp : s.ld[n].started => Optional(n)

LEMMA LaunchingSet ==
    ASSUME NEW s, Launching(s), NEW n \in Ncp, NEW r \in Flags,
           FlagsFit(s, n, r), r.started => Optional(n)
    PROVE  LET t == Set(s, n, r)
           IN  /\ Launching(t) /\ t.fsm = s.fsm /\ t.ld[n] = r
               /\ t.ses = s.ses
               /\ Timed(s) => Timed(t)
<1>1. Typed(s) /\ ~s.ses.terminating /\ Held(s)
  BY DEF Launching, Held, Base
<1>2. "auth" \in Layer \ {n} /\ n \in Layer /\ \A k \in Ncp : k \in Layer
  BY <1>1, Names
<1>3. PICK t : t = Set(s, n, r)
  OBVIOUS
<1>4. /\ Held(t) /\ t.ses = s.ses /\ t.fsm = s.fsm /\ t.ld[n] = r
      /\ \A k \in Layer \ {n} : t.ld[k] = s.ld[k]
      /\ Timed(s) => Timed(t)
  BY <1>1, <1>3, HeldSet
<1>5. \A k \in Ncp : t.ld[k].started => Optional(k)
  BY <1>2, <1>4 DEF Launching
<1> QED BY <1>1, <1>2, <1>3, <1>4, <1>5 DEF Launching

(* While launching, a node that reports changes nothing.                   *)
LEMMA LaunchingNode ==
    ASSUME NEW s, Launching(s), NEW env
    PROVE  NodeStarted(s, env) = s
BY DEF Launching, NodeStarted, NcpsReady

(* A disabled CCP counts as up at once.                                    *)
LEMMA LaunchingUp ==
    ASSUME NEW s, Launching(s), NEW n \in Ncp, NEW env, Optional(n)
    PROVE  /\ Launching(NcpUp(s, n, env))
           /\ Timed(s) => Timed(NcpUp(s, n, env))
<1>1. CASE s.ld[n].up
  BY <1>1 DEF NcpUp
<1>2. CASE ~s.ld[n].up
  <2> DEFINE r == [s.ld[n] EXCEPT !.up = TRUE]
             q == [r EXCEPT !.started = TRUE]
  <2>1. Typed(s) /\ s.ld[n] \in Flags /\ NcpSound(s, n) /\ s.ld["auth"].started
    BY TypedFields, Names DEF Launching, Held, Base, Network
  <2>2. /\ r \in Flags /\ r.up /\ r.started = s.ld[n].started
        /\ r.begun = s.ld[n].begun /\ r.passive = s.ld[n].passive
        /\ r.addr = s.ld[n].addr
    BY <2>1 DEF Flags
  <2>3. PICK t : t = Set(s, n, r)
    OBVIOUS
  <2>4. NcpUp(s, n, env) = NcpStarted(t, n, env)
    BY <1>2, <2>3 DEF NcpUp
  <2> HIDE DEF r
  <2>5. FlagsFit(s, n, r)
    BY <2>1, <2>2 DEF FlagsFit, NcpSound
  <2>6. Launching(t) /\ t.ld[n] = r /\ t.fsm = s.fsm /\ (Timed(s) => Timed(t))
    BY <2>2, <2>3, <2>5, LaunchingSet
  <2>7. CASE t.ld[n].started
    BY <2>4, <2>6, <2>7 DEF NcpStarted
  <2>8. CASE ~t.ld[n].started
    <3>1. /\ q \in Flags /\ q.started /\ q.up = r.up /\ q.begun = r.begun
          /\ q.passive = r.passive /\ q.addr = r.addr
      BY <2>2 DEF Flags
    <3>2. PICK u : u = Set(t, n, q)
      OBVIOUS
    <3>3. NcpUp(s, n, env) = NodeStarted(u, env)
      BY <2>4, <2>6, <2>8, <3>2 DEF NcpStarted
    <3> HIDE DEF q
    <3>4. FlagsFit(t, n, q)
      <4>1. t.ld["auth"].started
        BY <2>6 DEF Launching
      <4> QED BY <2>1, <2>2, <2>6, <3>1, <4>1 DEF FlagsFit, NcpSound
    <3>5. Launching(u) /\ (Timed(t) => Timed(u))
      BY <2>6, <3>1, <3>2, <3>4, LaunchingSet
    <3> QED BY <2>6, <3>3, <3>5, LaunchingNode
  <2> QED BY <2>7, <2>8
<1> QED BY <1>1, <1>2

(* One protocol is started.                                                *)
LEMMA NcpStartLaunches ==
    ASSUME NEW s, Launching(s), NEW n \in Ncp, NEW env
    PROVE  LET t == NcpStart(s, n, env)
           IN  /\ Base(t) /\ t.ses.linked
               /\ Timed(s) => Timed(t)
               /\ Launching(t) \/ StartFails(s, n, env)
<1> DEFINE r == [s.ld[n] EXCEPT !.starting = TRUE,
                                !.begun = n # "ccp" \/ Mode[n] # "deny"]
<1>1. /\ Typed(s) /\ s.ld[n] \in Flags /\ NcpSound(s, n)
      /\ s.ld["auth"].started /\ Held(s) /\ ~s.ses.terminating /\ n # "lcp"
  BY TypedFields, Names DEF Launching, Held, Base, Network
<1>2. /\ r \in Flags /\ r.up = s.ld[n].up /\ r.started = s.ld[n].started
      /\ r.passive = s.ld[n].passive /\ r.addr = s.ld[n].addr
  BY <1>1 DEF Flags
<1>3. PICK u : u = Set(s, n, r)
  OBVIOUS
<1>4. NcpStart(s, n, env) = NcpBegin(u, n, env)
  BY <1>3 DEF NcpStart
<1> HIDE DEF r
<1>5. FlagsFit(s, n, r)
  BY <1>1, <1>2 DEF FlagsFit, NcpSound
<1>6. r.started => Optional(n)
  BY <1>2 DEF Launching
<1>7. Launching(u) /\ u.ld[n] = r /\ u.fsm = s.fsm /\ (Timed(s) => Timed(u))
  BY <1>2, <1>3, <1>5, <1>6, LaunchingSet
<1>8. ASSUME NEW t, Launching(t) PROVE Base(t) /\ t.ses.linked
  BY <1>8 DEF Launching, Held
<1>9. CASE Mode[n] = "deny"
  <2>1. CASE n = "ccp"
    <3>1. Optional(n)
      BY <1>9, <2>1 DEF Optional
    <3>2. NcpBegin(u, n, env) = NcpUp(u, n, env)
      BY <1>9, <2>1 DEF NcpBegin
    <3> QED BY <1>4, <1>7, <1>8, <3>1, <3>2, LaunchingUp
  <2>2. CASE n # "ccp"
    BY <1>4, <1>7, <1>8, <1>9, <2>2 DEF NcpBegin
  <2> QED BY <2>1, <2>2
<1>10. CASE Mode[n] # "deny" /\ u.ld[n].passive
  <2>1. CASE n = "ccp"
    BY <1>4, <1>7, <1>8, <1>10, <2>1 DEF NcpBegin
  <2>2. CASE n # "ccp"
    <3> DEFINE q == [u.ld[n] EXCEPT !.timeout = TRUE]
    <3>1. /\ q \in Flags /\ q.up = r.up /\ q.started = r.started
          /\ q.begun = r.begun /\ q.passive = r.passive /\ q.addr = r.addr
      BY <1>2, <1>7 DEF Flags
    <3>2. PICK v : v = Set(u, n, q)
      OBVIOUS
    <3>3. NcpBegin(u, n, env) = v
      BY <1>10, <2>2, <3>2 DEF NcpBegin
    <3> HIDE DEF q
    <3>4. FlagsFit(u, n, q)
      <4>1. u.ld["auth"].started
        BY <1>7 DEF Launching
      <4> QED BY <1>5, <1>7, <3>1, <4>1 DEF FlagsFit
    <3>5. Launching(v) /\ (Timed(u) => Timed(v))
      BY <1>6, <1>7, <3>1, <3>2, <3>4, LaunchingSet
    <3> QED BY <1>4, <1>7, <1>8, <3>3, <3>5
  <2> QED BY <2>1, <2>2
<1>11. CASE Mode[n] # "deny" /\ ~u.ld[n].passive
  <2>1. PICK t : t = OpenNcp(u, n, env)
    OBVIOUS
  <2>2. NcpStart(s, n, env) = t
    BY <1>4, <1>11, <2>1 DEF NcpBegin
  <2>3. Held(u)
    BY <1>7 DEF Launching
  <2>4. /\ Base(t) /\ t.ses = u.ses
        /\ \A d \in Layer \ {n} : t.ld[d] = u.ld[d]
        /\ \A k \in Ncp : t.ld[k].started = u.ld[k].started
        /\ Timed(u) => Timed(t)
        /\ Held(t) \/ (Snd(u, n, env) = "fail" /\ Mode[n] = "require"
                        /\ ~u.ld[n].addr)
    BY <2>1, <2>3, OpenNcpHeld
  <2>5. u.ses.linked
    BY <2>3 DEF Held
  <2>6. CASE Held(t)
    <3>1. "auth" \in Layer \ {n}
      BY <1>1, Names
    <3>2. Launching(t)
      BY <1>7, <2>4, <2>6, <3>1 DEF Launching
    <3> QED BY <1>7, <2>2, <2>4, <2>5, <3>2
  <2>7. CASE Snd(u, n, env) = "fail"
    <3>1. Snd(s, n, env) = "fail"
      BY <1>2, <1>7, <2>7 DEF Snd
    <3>2. StartFails(s, n, env)
      BY <1>2, <1>7, <1>11, <3>1 DEF StartFails
    <3> QED BY <1>7, <2>2, <2>4, <2>5, <3>2
  <2> QED BY <2>4, <2>6, <2>7
<1> QED BY <1>9, <1>10, <1>11

(* The loop ends with every protocol started or with the session ending.   *)
Launched(a) ==
    /\ a.stop => Held(a.s) /\ a.s.ses.terminating
    /\ ~a.stop => Launching(a.s)

LEMMA StartNcpLaunches ==
    ASSUME NEW a, Launched(a), NEW i \in {1, 2, 3}, NEW env
    PROVE  /\ Launched(StartNcp(a, i, env))
           /\ Timed(a.s) => Timed(StartNcp(a, i, env).s)
<1>1. CASE a.stop \/ i > Len(NcpOrder)
  BY <1>1 DEF StartNcp
<1>2. CASE ~(a.stop \/ i > Len(NcpOrder))
  <2>1. Launching(a.s) /\ ~a.stop
    BY <1>2 DEF Launched
  <2>2. Typed(a.s)
    BY <2>1 DEF Launching, Held, Base
  <2>3. NcpOrder[i] \in Ncp
    <3>1. ses.conf \in PppConfs
      BY <2>2, TypedFields
    <3>2. Len(NcpOrder) \in Nat /\ \A j \in 1..Len(NcpOrder) : NcpOrder[j] \in Ncp
      BY <3>1, ConfFacts
    <3>3. i \in 1..Len(NcpOrder)
      BY <1>2, <3>2
    <3> QED BY <3>2, <3>3
  <2>4. PICK n : n = NcpOrder[i]
    OBVIOUS
  <2>5. PICK t : t = NcpStart(a.s, n, env)
    OBVIOUS
  <2>6. /\ Base(t) /\ t.ses.linked
        /\ Timed(a.s) => Timed(t)
        /\ Launching(t) \/ StartFails(a.s, n, env)
    BY <2>1, <2>3, <2>4, <2>5, NcpStartLaunches
  <2>7. StartNcp(a, i, env) = StartedOr(t, StartFails(a.s, n, env))
    BY <1>2, <2>4, <2>5, Zenon DEF StartNcp
  <2>8. CASE StartFails(a.s, n, env)
    <3>1. PICK u : u = Terminate(t, FALSE)
      OBVIOUS
    <3>2. Held(u) /\ u.ses.terminating /\ (Timed(t) => Timed(u))
      BY <2>6, <3>1, TerminateHeld, TimedClock
    <3>3. PICK b : b = StartNcp(a, i, env)
      OBVIOUS
    <3>4. b.s = u /\ b.stop
      BY <2>7, <2>8, <3>1, <3>3 DEF StartedOr
    <3> QED BY <2>6, <3>2, <3>3, <3>4 DEF Launched
  <2>9. CASE ~StartFails(a.s, n, env)
    <3>1. PICK b : b = StartNcp(a, i, env)
      OBVIOUS
    <3>2. b.s = t /\ ~b.stop
      BY <2>7, <2>9, <3>1 DEF StartedOr
    <3> QED BY <2>6, <2>9, <3>1, <3>2 DEF Launched
  <2> QED BY <2>8, <2>9
<1> QED BY <1>1, <1>2

(* Every protocol is started, or the session is ending.                    *)
LEMMA StartNcpsHeld ==
    ASSUME NEW s, Launching(s), NEW env
    PROVE  LET t == StartNcps(s, env)
           IN  /\ Held(t)
               /\ t.ses.terminating \/ t.ld["auth"].started
               /\ Timed(s) => Timed(t)
<1>1. PICK a : a = [s |-> s, stop |-> FALSE]
  OBVIOUS
<1>2. a.s = s /\ ~a.stop
  BY <1>1
<1>3. Launched(a)
  BY <1>2 DEF Launched
<1>4. PICK b : b = StartNcp(a, 1, env)
  OBVIOUS
<1>5. Launched(b) /\ (Timed(a.s) => Timed(b.s))
  BY <1>3, <1>4, StartNcpLaunches
<1>6. PICK c : c = StartNcp(b, 2, env)
  OBVIOUS
<1>7. Launched(c) /\ (Timed(b.s) => Timed(c.s))
  BY <1>5, <1>6, StartNcpLaunches
<1>8. PICK e : e = StartNcp(c, 3, env)
  OBVIOUS
<1>9. Launched(e) /\ (Timed(c.s) => Timed(e.s))
  BY <1>7, <1>8, StartNcpLaunches
<1>10. StartNcps(s, env) = e.s
  BY <1>1, <1>4, <1>6, <1>8, Zenon DEF StartNcps
<1>11. Held(e.s) /\ (e.s.ses.terminating \/ e.s.ld["auth"].started)
  BY <1>9 DEF Launched, Launching
<1> QED BY <1>2, <1>5, <1>7, <1>9, <1>10, <1>11

(* The flags of the authentication layer change.                           *)
LEMMA HeldSetAuth ==
    ASSUME NEW s, Held(s), ~s.ses.terminating, NEW r \in Flags,
           s.ld["auth"].started => r.started,
           r.started => s.ld["lcp"].up /\ (NoAuth \/ s.ses.auth = "acked")
    PROVE  LET t == Set(s, "auth", r)
           IN  /\ Held(t) /\ t.ses = s.ses /\ t.fsm = s.fsm
               /\ t.ld["auth"] = r
               /\ \A k \in Layer \ {"auth"} : t.ld[k] = s.ld[k]
               /\ Timed(s) => Timed(t)
<1>1. PICK t : t = Set(s, "auth", r)
  OBVIOUS
<1>2. Typed(s) /\ Network(s)
  BY DEF Held, Base
<1>3. "auth" \in Layer /\ "lcp" \in Layer \ {"auth"}
  BY <1>2, Names
<1>4. /\ Base(t) /\ t.ses = s.ses /\ t.fsm = s.fsm /\ t.ld["auth"] = r
      /\ \A k \in Layer \ {"auth"} : t.ld[k] = s.ld[k]
      /\ t.ld["lcp"] = s.ld["lcp"]
      /\ Timed(s) => Timed(t)
  BY <1>1, <1>3, BaseSet DEF Held
<1>5. \A n \in Ncp : t.ld[n] = s.ld[n]
  BY <1>2, <1>4, Names
<1>6. Authentic(t)
  BY <1>2, <1>4 DEF Network, Authentic, Queued
<1>7. Carrying(t)
  BY <1>2, <1>4, <1>5 DEF Network, Carrying
<1>8. \A n \in Ncp : NcpSound(t, n)
  BY <1>2, <1>4, <1>5 DEF Network, NcpSound
<1> QED BY <1>1, <1>4, <1>6, <1>7, <1>8 DEF Held, Network

(* The authentication reports its success: the network protocols start.    *)
LEMMA AuthStartedHeld ==
    ASSUME NEW s, Held(s), ~s.ses.terminating, NEW env,
           s.ld["lcp"].up, NoAuth \/ s.ses.auth = "acked"
    PROVE  LET t == AuthStarted(s, env)
           IN  /\ Held(t)
               /\ t.ses.terminating \/ t.ld["lcp"].up
               /\ Timed(s) => Timed(t)
<1>1. CASE s.ld["auth"].started
  BY <1>1 DEF AuthStarted
<1>2. CASE ~s.ld["auth"].started
  <2> DEFINE r == [s.ld["auth"] EXCEPT !.started = TRUE]
  <2>1. Typed(s) /\ s.ld["auth"] \in Flags
    BY TypedFields, Names DEF Held, Base
  <2>2. r \in Flags /\ r.started
    BY <2>1 DEF Flags
  <2>3. PICK u : u = Set(s, "auth", r)
    OBVIOUS
  <2>4. AuthStarted(s, env) = StartNcps(u, env)
    BY <1>2, <2>3 DEF AuthStarted
  <2> HIDE DEF r
  <2>5. /\ Held(u) /\ u.ses = s.ses /\ u.ld["auth"] = r
        /\ \A k \in Layer \ {"auth"} : u.ld[k] = s.ld[k]
        /\ Timed(s) => Timed(u)
    BY <1>2, <2>2, <2>3, HeldSetAuth
  <2>6. ASSUME NEW n \in Ncp PROVE ~u.ld[n].started
    <3>1. NcpSound(s, n) /\ n \in Layer \ {"auth"}
      BY <2>1, Names DEF Held, Network
    <3> QED BY <1>2, <2>5, <3>1 DEF NcpSound
  <2>7. Launching(u)
    BY <2>2, <2>5, <2>6 DEF Launching
  <2>8. PICK t : t = StartNcps(u, env)
    OBVIOUS
  <2>9. /\ Held(t)
        /\ t.ses.terminating \/ t.ld["auth"].started
        /\ Timed(u) => Timed(t)
    BY <2>7, <2>8, StartNcpsHeld
  <2>10. t.ses.terminating \/ t.ld["lcp"].up
    BY <2>9 DEF Held, Network, Authentic
  <2> QED BY <2>4, <2>5, <2>8, <2>9, <2>10
<1> QED BY <1>1, <1>2

-----------------------------------------------------------------------------
(* The link of a held session.                                             *)

LEMMA HeldLink ==
    ASSUME NEW s, Held(s), NEW f \in Fsm, f.state \notin {"Initial", "Starting"}
    PROVE  LET t == Put(s, "lcp", f)
           IN  /\ Held(t) /\ t.ses = s.ses /\ t.ld = s.ld /\ t.fsm["lcp"] = f
<1>1. Base(s) /\ Typed(s) /\ ~s.ses.freed /\ LinkHeld(s) /\ Network(s)
  BY DEF Held, Base, Living
<1>2. "lcp" \in Automaton /\ \A n \in Ncp : n \in Automaton /\ n # "lcp"
  BY <1>1, Names
<1>3. PICK t : t = Put(s, "lcp", f)
  OBVIOUS
<1>4. /\ Typed(t) /\ t.ses = s.ses /\ t.ld = s.ld /\ t.fsm["lcp"] = f
      /\ \A k \in Automaton \ {"lcp"} : t.fsm[k] = s.fsm[k]
  BY <1>1, <1>2, <1>3, PutFields
<1>5. LinkHeld(t)
  BY <1>1, <1>4 DEF LinkHeld
<1>6. Base(t)
  BY <1>1, <1>4, <1>5, BaseSame DEF Base, OnlyLink
<1>7. ASSUME ~t.ses.terminating PROVE Authentic(t) /\ Carrying(t)
  BY <1>1, <1>4, <1>7 DEF Network, Authentic, Carrying, Queued
<1>8. ASSUME ~t.ses.terminating, NEW n \in Ncp PROVE NcpSound(t, n)
  BY <1>1, <1>2, <1>4, <1>8 DEF Network, NcpSound
<1> QED BY <1>3, <1>4, <1>6, <1>7, <1>8 DEF Held, Network

LEMMA BaseSetLink ==
    ASSUME NEW s, Base(s), NEW r \in Flags, r.starting, ~r.finished
    PROVE  LET t == Set(s, "lcp", r)
           IN  /\ Base(t) /\ t.ses = s.ses /\ t.fsm = s.fsm
               /\ t.ld["lcp"] = r
               /\ \A k \in Layer \ {"lcp"} : t.ld[k] = s.ld[k]
<1>1. Typed(s) /\ ~s.ses.freed /\ LinkHeld(s) /\ OnlyLink(s)
  BY DEF Base, Living
<1>2. "lcp" \in Layer
  BY <1>1, Names
<1>3. PICK t : t = Set(s, "lcp", r)
  OBVIOUS
<1>4. /\ Typed(t) /\ t.ses = s.ses /\ t.fsm = s.fsm /\ t.ld["lcp"] = r
      /\ \A k \in Layer \ {"lcp"} : t.ld[k] = s.ld[k]
  BY <1>1, <1>2, <1>3, SetFields
<1>5. LinkHeld(t)
  BY <1>1, <1>4 DEF LinkHeld
<1>6. Base(t)
  BY <1>1, <1>4, <1>5, BaseSame DEF OnlyLink
<1> QED BY <1>3, <1>4, <1>6

(* The link comes up.                                                      *)
LEMMA HeldSetLink ==
    ASSUME NEW s, Held(s), NEW r \in Flags, r.starting, ~r.finished, r.up
    PROVE  LET t == Set(s, "lcp", r)
           IN  /\ Held(t) /\ t.ses = s.ses /\ t.fsm = s.fsm
               /\ t.ld["lcp"] = r
               /\ \A k \in Layer \ {"lcp"} : t.ld[k] = s.ld[k]
<1>1. Base(s) /\ Typed(s) /\ Network(s)
  BY DEF Held, Base
<1>2. PICK t : t = Set(s, "lcp", r)
  OBVIOUS
<1>3. /\ Base(t) /\ t.ses = s.ses /\ t.fsm = s.fsm /\ t.ld["lcp"] = r
      /\ \A k \in Layer \ {"lcp"} : t.ld[k] = s.ld[k]
  BY <1>1, <1>2, BaseSetLink
<1>4. t.ld["auth"] = s.ld["auth"] /\ \A n \in Ncp : t.ld[n] = s.ld[n]
  BY <1>1, <1>3, Names
<1>5. ASSUME ~t.ses.terminating PROVE Authentic(t) /\ Carrying(t)
  BY <1>1, <1>3, <1>4, <1>5 DEF Network, Authentic, Carrying, Queued
<1>6. ASSUME ~t.ses.terminating, NEW n \in Ncp PROVE NcpSound(t, n)
  BY <1>1, <1>3, <1>4, <1>6 DEF Network, NcpSound
<1> QED BY <1>2, <1>3, <1>5, <1>6 DEF Held, Network

(* The authentication starts, on a link that has just come up.             *)
LEMMA AuthStartHeld ==
    ASSUME NEW s, Held(s), ~s.ses.terminating, NEW env, s.ld["lcp"].up,
           s.ses.auth = "off", ~Queued(s, "authStarted"), ~s.ld["auth"].started
    PROVE  LET t == AuthStart(s, env)
           IN  Held(t) /\ (t.ses.terminating \/ t.ld["lcp"].up)
<1> DEFINE r == [s.ld["auth"] EXCEPT !.starting = TRUE]
<1>1. Typed(s) /\ s.ld["auth"] \in Flags
  BY TypedFields, Names DEF Held, Base
<1>2. r \in Flags /\ r.started = s.ld["auth"].started
  BY <1>1 DEF Flags
<1>3. PICK u : u = Set(s, "auth", r)
  OBVIOUS
<1>4. AuthStart(s, env) =
         IF NoAuth THEN AuthStarted(u, env)
         ELSE [u EXCEPT !.ses.auth = "active", !.ses.authTimer = TRUE]
  BY <1>3 DEF AuthStart
<1> HIDE DEF r
<1>5. /\ Held(u) /\ u.ses = s.ses /\ u.fsm = s.fsm /\ u.ld["auth"] = r
      /\ \A k \in Layer \ {"auth"} : u.ld[k] = s.ld[k]
  BY <1>2, <1>3, HeldSetAuth
<1>6. u.ld["lcp"].up
  BY <1>1, <1>5, Names
<1>7. CASE NoAuth
  BY <1>4, <1>5, <1>6, <1>7, AuthStartedHeld
<1>8. CASE ~NoAuth
  <2> DEFINE x == [u.ses EXCEPT !.auth = "active", !.authTimer = TRUE]
  <2>1. Base(u) /\ Typed(u) /\ u.ses \in Ses /\ Network(u) /\ u.ses.linked
    BY <1>5, TypedFields DEF Held, Base
  <2>2. /\ x \in Ses /\ x.conf = u.ses.conf /\ x.auth = "active"
        /\ x.bad = u.ses.bad /\ x.freed = u.ses.freed
        /\ x.finished = u.ses.finished /\ x.gone = u.ses.gone
        /\ x.terminating = u.ses.terminating /\ x.linked = u.ses.linked
        /\ x.calls = u.ses.calls /\ x.query = u.ses.query
        /\ x.state = u.ses.state
    BY <2>1 DEF Ses
  <2>3. PICK t : t = [u EXCEPT !.ses = x]
    OBVIOUS
  <2>4. AuthStart(s, env) = t
    BY <1>4, <1>8, <2>1, <2>3 DEF Typed, PppState, Ses
  <2> HIDE DEF x
  <2>5. Typed(t) /\ t.fsm = u.fsm /\ t.ld = u.ld /\ t.ses = x
    BY <2>1, <2>2, <2>3, NewSes
  <2>6. \A c : Queued(t, c) <=> Queued(s, c)
    BY <1>5, <2>2, <2>5 DEF Queued
  <2>7. Base(t)
    BY <2>1, <2>2, <2>5, <2>6 DEF Base, Living, LinkHeld, OnlyLink, Queued
  <2>8. Authentic(t) /\ Carrying(t)
    BY <1>2, <1>5, <1>6, <2>1, <2>2, <2>5, <2>6
       DEF Network, Authentic, Carrying
  <2>9. \A n \in Ncp : NcpSound(t, n)
    BY <1>5, <2>1, <2>5 DEF Network, NcpSound
  <2> QED BY <1>6, <2>1, <2>2, <2>4, <2>5, <2>7, <2>8, <2>9 DEF Held, Network
<1> QED BY <1>7, <1>8

(* lcp_layer_up: the session goes on with the link up, or is ending.       *)
LEMMA LcpUpHeld ==
    ASSUME NEW s, Held(s), ~s.ses.terminating, NEW env
    PROVE  LET t == LcpUp(s, env)
           IN  Held(t) /\ (t.ses.terminating \/ t.ld["lcp"].up)
<1> DEFINE r == [s.ld["lcp"] EXCEPT !.up = TRUE, !.started = TRUE]
           u == IF s.ld["lcp"].up THEN s ELSE AuthStart(Set(s, "lcp", r), env)
<1>1. Typed(s) /\ s.ld["lcp"] \in Flags /\ LinkHeld(s) /\ Network(s)
  BY TypedFields, Names DEF Held, Base
<1>2. LcpUp(s, env) = [u EXCEPT !.ses.echo = EchoOn]
  BY DEF LcpUp
<1>3. Held(u) /\ (u.ses.terminating \/ u.ld["lcp"].up)
  <2>1. CASE s.ld["lcp"].up
    BY <2>1
  <2>2. CASE ~s.ld["lcp"].up
    <3>1. /\ r \in Flags /\ r.up /\ r.starting = s.ld["lcp"].starting
          /\ r.finished = s.ld["lcp"].finished
      BY <1>1 DEF Flags
    <3>2. PICK v : v = Set(s, "lcp", r)
      OBVIOUS
    <3>3. u = AuthStart(v, env)
      BY <2>2, <3>2
    <3> HIDE DEF r, u
    <3>0. r.starting /\ ~r.finished
      BY <1>1, <3>1 DEF LinkHeld
    <3>4. /\ Held(v) /\ v.ses = s.ses /\ v.ld["lcp"] = r
          /\ \A k \in Layer \ {"lcp"} : v.ld[k] = s.ld[k]
      BY <3>0, <3>1, <3>2, HeldSetLink
    <3>5. v.ld["auth"] = s.ld["auth"]
      BY <1>1, <3>4, Names
    <3>6. /\ s.ses.auth = "off" /\ ~Queued(s, "authStarted")
          /\ ~s.ld["auth"].started
      BY <1>1, <2>2 DEF Network, Authentic
    <3>7. ~Queued(v, "authStarted")
      BY <3>4, <3>6 DEF Queued
    <3> QED BY <3>1, <3>3, <3>4, <3>5, <3>6, <3>7, AuthStartHeld
  <2> QED BY <2>1, <2>2
<1> HIDE DEF u
<1> DEFINE x == [u.ses EXCEPT !.echo = EchoOn]
<1>4. Typed(u) /\ u.ses \in Ses
  BY <1>3, TypedFields DEF Held, Base
<1>5. /\ x \in Ses /\ x.conf = u.ses.conf /\ SameCore(x, u.ses)
  BY <1>4, PppAssumption DEF Ses, SameCore
<1>6. PICK t : t = [u EXCEPT !.ses = x]
  OBVIOUS
<1>7. LcpUp(s, env) = t
  BY <1>2, <1>4, <1>6 DEF Typed, PppState
<1> HIDE DEF x
<1>8. Typed(t) /\ t.fsm = u.fsm /\ t.ld = u.ld /\ t.ses = x
  BY <1>4, <1>5, <1>6, NewSes
<1>9. Held(t)
  BY <1>3, <1>4, <1>5, <1>8, Plain
<1> QED BY <1>3, <1>5, <1>7, <1>8, <1>9 DEF SameCore

-----------------------------------------------------------------------------
(* Layers going down by themselves, and the callbacks of the automata.     *)

(* lcp_layer_finished ends the session, and frees its layers if the        *)
(* session was ending already.                                             *)
LEMMA LcpFinishedEnds ==
    ASSUME NEW s, Held(s)
    PROVE  LET t == LcpFinished(s)
           IN  \/ Released(t)
               \/ Held(t) /\ t.ses.terminating /\ (Clock(s) => Timed(t))
<1> DEFINE x == [s.ses EXCEPT !.echo = FALSE]
           r == [s.ld["lcp"] EXCEPT !.up = FALSE]
<1>1. /\ Base(s) /\ Typed(s) /\ s.ses \in Ses /\ s.ld["lcp"] \in Flags
      /\ LinkHeld(s) /\ s.ses.linked
  BY TypedFields, Names DEF Held, Base
<1>2. x \in Ses /\ x.conf = s.ses.conf /\ SameCore(x, s.ses)
  BY <1>1 DEF Ses, SameCore
<1>3. r \in Flags /\ r.starting /\ ~r.finished
  BY <1>1 DEF Flags, LinkHeld
<1>4. PICK u : u = [s EXCEPT !.ses = x]
  OBVIOUS
<1>5. u = [s EXCEPT !.ses.echo = FALSE]
  BY <1>1, <1>4 DEF Typed, PppState
<1>6. PICK v : v = Set(u, "lcp", r)
  OBVIOUS
<1>7. LcpFinished(s) = IF s.ld["lcp"].up /\ s.ses.terminating
                       THEN LayerFinished(v, "lcp") ELSE Terminate(v, FALSE)
  BY <1>5, <1>6 DEF LcpFinished
<1> HIDE DEF x, r
<1>8. Typed(u) /\ u.fsm = s.fsm /\ u.ld = s.ld /\ u.ses = x
  BY <1>1, <1>2, <1>4, NewSes
<1>9. Base(u)
  BY <1>1, <1>2, <1>8, Plain
<1>10. Base(v) /\ v.ses = x /\ v.fsm = s.fsm
  BY <1>3, <1>6, <1>8, <1>9, BaseSetLink
<1>11. v.ses.linked /\ v.ses.terminating = s.ses.terminating
  BY <1>1, <1>2, <1>10 DEF SameCore
<1>12. Clock(s) => Clock(v)
  BY <1>10 DEF Clock
<1>13. CASE s.ld["lcp"].up /\ s.ses.terminating
  BY <1>7, <1>10, <1>11, <1>13, LastLayerFinished
<1>14. CASE ~(s.ld["lcp"].up /\ s.ses.terminating)
  <2>1. PICK t : t = Terminate(v, FALSE)
    OBVIOUS
  <2>2. Held(t) /\ t.ses.terminating /\ (Clock(v) => Timed(t))
    BY <1>10, <1>11, <2>1, TerminateHeld
  <2> QED BY <1>7, <1>12, <1>14, <2>1, <2>2
<1> QED BY <1>13, <1>14

LEMMA NcpFinishedHeld ==
    ASSUME NEW s, Held(s), NEW n \in Ncp, NEW env
    PROVE  LET t == NcpFinished(s, n, env)
           IN  Held(t) /\ (Timed(s) => Timed(t))
<1>1. PICK u : u = IF ~s.ld[n].up /\ (Mode[n] # "require" \/ n = "ccp")
                   THEN NcpPassive(s, n, env) ELSE Terminate(s, FALSE)
  OBVIOUS
<1>2. NcpFinished(s, n, env) = NcpClosed(u, n)
  BY <1>1 DEF NcpFinished
<1>3. Held(u) /\ (Timed(s) => Timed(u))
  <2>1. CASE ~s.ld[n].up /\ (Mode[n] # "require" \/ n = "ccp")
    BY <1>1, <2>1, NcpPassiveOnward DEF Onward
  <2>2. CASE ~(~s.ld[n].up /\ (Mode[n] # "require" \/ n = "ccp"))
    <3>1. Base(s) /\ s.ses.linked
      BY DEF Held
    <3> QED BY <1>1, <2>2, <3>1, TerminateHeld, TimedClock
  <2> QED BY <2>1, <2>2
<1>4. u.fsm[n] \in Fsm
  BY <1>3, TypedFields, Names DEF Held, Base
<1>5. PICK f : f = Goto(u.fsm[n], "Closed")
  OBVIOUS
<1>6. f \in Fsm /\ Asleep(f)
  BY <1>4, <1>5, GotoType
<1>7. NcpFinished(s, n, env) = Put(u, n, f)
  BY <1>2, <1>5 DEF NcpClosed
<1> QED BY <1>3, <1>6, <1>7, HeldPut

(* A handler of the link's automaton, with its callback.                   *)
LEMMA ApplyLink ==
    ASSUME NEW s, Held(s), NEW env, NEW r \in Answer,
           r.f.state \notin {"Initial", "Starting"},
           r.sig = "up" => ~s.ses.terminating
    PROVE  LET t == Apply(s, "lcp", r, env)
           IN  \/ Released(t)
               \/ /\ Held(t)
                  /\ \/ Timed(t)
                     \/ /\ r.sig # "up"
                        /\ \/ Waiting(r.f) /\ ~r.f.timer
                           \/ /\ ~s.ses.terminating
                              /\ ~(r.f.state = "Opened" <=> s.ld["lcp"].up)
<1>1. r.f \in Fsm /\ r.sig \in Signal
  BY AnswerFields
<1>2. PICK u : u = Put(s, "lcp", r.f)
  OBVIOUS
<1>3. Held(u) /\ u.ses = s.ses /\ u.ld = s.ld /\ u.fsm["lcp"] = r.f
  BY <1>1, <1>2, HeldLink
<1>4. Apply(s, "lcp", r, env) = Callback(u, "lcp", r.sig, env)
  BY <1>2 DEF Apply
<1>5. CASE r.sig = "up"
  <2>1. PICK v : v = LcpUp(u, env)
    OBVIOUS
  <2>2. Held(v) /\ (v.ses.terminating \/ v.ld["lcp"].up)
    BY <1>3, <1>5, <2>1, LcpUpHeld
  <2>3. v.fsm["lcp"] \in Fsm
    BY <2>2, TypedFields, Names DEF Held, Base
  <2>4. PICK f : f = Goto(v.fsm["lcp"], "Opened")
    OBVIOUS
  <2>5. f \in Fsm /\ f.state = "Opened"
    BY <2>3, <2>4, GotoType
  <2>6. PICK t : t = Put(v, "lcp", f)
    OBVIOUS
  <2>7. Apply(s, "lcp", r, env) = t
    BY <1>4, <1>5, <2>1, <2>4, <2>6 DEF Callback, Opened
  <2>8. Held(t) /\ t.ses = v.ses /\ t.ld = v.ld /\ t.fsm["lcp"] = f
    BY <2>2, <2>5, <2>6, HeldLink
  <2>9. Timed(t)
    BY <2>2, <2>5, <2>8 DEF Timed
  <2> QED BY <2>7, <2>8, <2>9
<1>6. CASE r.sig = "finished"
  <2>1. PICK t : t = LcpFinished(u)
    OBVIOUS
  <2>2. Apply(s, "lcp", r, env) = t
    BY <1>4, <1>6, <2>1 DEF Callback
  <2>3. Released(t) \/ (Held(t) /\ (Clock(u) => Timed(t)))
    BY <1>3, <2>1, LcpFinishedEnds
  <2>4. Clock(u) \/ (Waiting(r.f) /\ ~r.f.timer)
    BY <1>3 DEF Clock
  <2> QED BY <1>6, <2>2, <2>3, <2>4
<1>7. CASE r.sig = "none"
  <2>1. Apply(s, "lcp", r, env) = u
    BY <1>4, <1>7 DEF Callback
  <2>2. \/ Timed(u)
        \/ Waiting(r.f) /\ ~r.f.timer
        \/ ~s.ses.terminating /\ ~(r.f.state = "Opened" <=> s.ld["lcp"].up)
    BY <1>3 DEF Timed
  <2> QED BY <1>3, <1>7, <2>1, <2>2
<1> QED BY <1>1, <1>5, <1>6, <1>7

(* A handler of a network protocol's automaton, with its callback.         *)
LEMMA ApplyNcp ==
    ASSUME NEW s, Held(s), NEW n \in Ncp, NEW env, NEW r \in Answer,
           ~s.ses.terminating => Asleep(r.f) \/ s.ld[n].addr,
           r.sig = "up" =>
              ~s.ses.terminating /\ s.ld[n].addr /\ s.ld["auth"].started
    PROVE  LET t == Apply(s, n, r, env)
           IN  Held(t) /\ (Timed(s) => Timed(t))
<1>1. r.f \in Fsm /\ r.sig \in Signal
  BY AnswerFields
<1>2. PICK u : u = Put(s, n, r.f)
  OBVIOUS
<1>3. /\ Held(u) /\ u.ses = s.ses /\ u.ld = s.ld /\ u.fsm[n] = r.f
      /\ Timed(s) => Timed(u)
  BY <1>1, <1>2, HeldPut
<1>4. Apply(s, n, r, env) = Callback(u, n, r.sig, env)
  BY <1>2 DEF Apply
<1>5. Typed(s)
  BY DEF Held, Base
<1>6. n # "lcp" /\ n \in Layer
  BY <1>5, Names
<1>7. CASE r.sig = "up"
  <2>1. PICK v : v = IF u.ld[n].delay THEN u ELSE NcpUp(u, n, env)
    OBVIOUS
  <2>2. Onward(u, v)
    <3>1. CASE u.ld[n].delay
      BY <1>3, <2>1, <3>1 DEF Onward
    <3>2. CASE ~u.ld[n].delay
      BY <1>3, <1>7, <2>1, <3>2, NcpUpOnward
    <3> QED BY <3>1, <3>2
  <2>3. Held(v) /\ (Timed(s) => Timed(v))
    BY <1>3, <2>2 DEF Onward
  <2>4. v.ses.terminating \/ v.ld[n].addr
    BY <1>3, <1>6, <1>7, <2>2 DEF Onward
  <2>5. v.fsm[n] \in Fsm
    BY <2>3, TypedFields, Names DEF Held, Base
  <2>6. PICK f : f = Goto(v.fsm[n], "Opened")
    OBVIOUS
  <2>7. f \in Fsm
    BY <2>5, <2>6, GotoType
  <2>8. Apply(s, n, r, env) = Put(v, n, f)
    BY <1>3, <1>4, <1>6, <1>7, <2>1, <2>6 DEF Callback, Opened
  <2> QED BY <2>3, <2>4, <2>7, <2>8, HeldPut
<1>8. CASE r.sig = "finished"
  <2>1. Apply(s, n, r, env) = NcpFinished(u, n, env)
    BY <1>4, <1>6, <1>8 DEF Callback
  <2> QED BY <1>3, <2>1, NcpFinishedHeld
<1>9. CASE r.sig = "none"
  BY <1>3, <1>4, <1>9 DEF Callback
<1> QED BY <1>1, <1>7, <1>8, <1>9

-----------------------------------------------------------------------------
(* The steps of the session.                                               *)

(* The peer sends neither a Terminate-Ack nor a Code-Reject: these stop    *)
(* the link's restart timer in states that wait for an answer.             *)
Polite == PeerCodes \cap {"TermAck", "CodeRej"} = {}

(* How a handler that begins in a held session s ends, in t.               *)
Settled(s, t) ==
    \/ Released(t)
    \/ Held(t) /\ (Polite /\ Timed(s) => Timed(t))

LEMMA StateFields ==
    State.fsm = fsm /\ State.ld = ld /\ State.ses = ses
BY DEF State

LEMMA Installed ==
    ASSUME NEW s, Typed(s), Becomes(s)
    PROVE  /\ State' = s
           /\ Fresh(s) => Fresh(State)'
           /\ Held(s) <=> Held(State)'
           /\ Released(s) => Released(State)'
           /\ Timed(s) => Timed(State)'
<1>1. s = [fsm |-> s.fsm, ld |-> s.ld, ses |-> s.ses]
  BY DEF Typed, PppState
<1>2. State' = s
  BY <1>1 DEF Becomes, State
<1>3. ses'.conf = ses.conf
  BY DEF Becomes, Typed
<1>4. Ncp' = Ncp /\ Mode' = Mode /\ NoAuth' = NoAuth
  BY <1>3 DEF Ncp, Mode, NoAuth
<1>5. Automaton' = Automaton /\ Layer' = Layer
  BY <1>4 DEF Automaton, Layer
<1>6. PppState' = PppState
  BY <1>5 DEF PppState
<1>7. Typed(State)'
  BY <1>2, <1>3, <1>6 DEF Typed
<1>8. \A n : Optional(n)' = Optional(n)
  BY <1>4 DEF Optional
<1>9. Base(s) <=> Base(State)'
  BY <1>2, <1>5, <1>7 DEF Base, Living, LinkHeld, OnlyLink, Queued
<1>10. Authentic(s) <=> Authentic(State)'
  BY <1>2, <1>4 DEF Authentic, Queued
<1>11. Carrying(s) <=> Carrying(State)'
  BY <1>2, <1>4, <1>8 DEF Carrying
<1>12. \A n : NcpSound(s, n) <=> NcpSound(State, n)'
  BY <1>2, <1>4 DEF NcpSound
<1>13. Network(s) <=> Network(State)'
  BY <1>2, <1>4, <1>10, <1>11, <1>12 DEF Network
<1>14. Held(s) <=> Held(State)'
  BY <1>2, <1>9, <1>13 DEF Held
<1>15. Silenced(s) => Silenced(State)'
  BY <1>2, <1>5 DEF Silenced
<1>16. Released(s) => Released(State)'
  BY <1>2, <1>7, <1>15 DEF Released, Queued
<1>17. Timed(s) => Timed(State)'
  BY <1>2 DEF Timed
<1>18. \A d : NewLayer(d)' = NewLayer(d)
  BY <1>4 DEF NewLayer
<1>19. /\ [l \in Automaton |-> NewFsm]' = [l \in Automaton |-> NewFsm]
       /\ [d \in Layer |-> NewLayer(d)]' = [d \in Layer |-> NewLayer(d)]
  BY <1>5, <1>18
<1>20. Fresh(s) => Fresh(State)'
  BY <1>2, <1>7, <1>19 DEF Fresh
<1> QED BY <1>2, <1>14, <1>16, <1>17, <1>20

(* What a step of a held session has to show.                              *)
LEMMA SettledStep ==
    ASSUME Held(State), NEW t, Settled(State, t), Becomes(t)
    PROVE  PppInv' /\ (Polite /\ TimedInv => TimedInv')
<1>1. Typed(t)
  BY DEF Settled, Released, Held, Base
<1>2. CASE Released(t)
  <2>1. Released(State)'
    BY <1>1, <1>2, Installed
  <2>2. ~Held(State)'
    BY <1>1, <1>2, Installed DEF Released, Held, Base, Living
  <2> QED BY <2>1, <2>2 DEF PppInv, TimedInv
<1>3. CASE Held(t) /\ (Polite /\ Timed(State) => Timed(t))
  <2>1. Held(State)' /\ (Timed(t) => Timed(State)')
    BY <1>1, <1>3, Installed
  <2> QED BY <1>3, <2>1 DEF PppInv, TimedInv
<1> QED BY <1>2, <1>3 DEF Settled

LEMMA SettledAfter ==
    ASSUME NEW s, NEW u, NEW t, Timed(s) => Timed(u), Settled(u, t)
    PROVE  Settled(s, t)
BY DEF Settled

LEMMA TerminateSettled ==
    ASSUME NEW s, Held(s)
    PROVE  Settled(s, Terminate(s, FALSE))
<1>1. Base(s) /\ s.ses.linked
  BY DEF Held
<1> QED BY <1>1, TerminateHeld, TimedClock DEF Settled

LEMMA TerminateHardSettled ==
    ASSUME NEW s, Held(s)
    PROVE  Settled(s, Terminate(s, TRUE))
<1>1. Typed(s) /\ Living(s) /\ s.ses.linked
  BY DEF Held, Base
<1> QED BY <1>1, TerminateHard DEF Settled, Gone, Released

(* Which steps are possible only while the session is held.                *)
LEMMA OnlyWhenHeld ==
    ASSUME PppInv
    PROVE  /\ Typed(State) /\ ses \in Ses
           /\ Alive => Held(State)
           /\ \A l \in Automaton : fsm[l].timer => Held(State)
           /\ \A d \in Layer : ld[d].timeout => Held(State)
           /\ ses.echo \/ ses.timer \/ ses.query \/ ses.authTimer => Held(State)
           /\ ses.state # "none" /\ ~ses.finished => Held(State)
<1>1. Typed(State)
  BY DEF PppInv, Fresh, Held, Base, Released
<1>2. ses \in Ses
  BY <1>1, StateFields, TypedFields
<1>3. CASE Fresh(State)
  <2>1. \A l \in Automaton : ~fsm[l].timer
    BY <1>3, StateFields DEF Fresh, NewFsm
  <2>2. \A d \in Layer : ~ld[d].timeout
    BY <1>3, StateFields DEF Fresh, NewLayer
  <2> QED BY <1>1, <1>2, <1>3, <2>1, <2>2, StateFields DEF Fresh, Alive
<1>4. CASE Released(State)
  BY <1>1, <1>2, <1>4, StateFields DEF Released, Silenced, Alive
<1>5. CASE Held(State)
  BY <1>1, <1>2, <1>5
<1> QED BY <1>3, <1>4, <1>5 DEF PppInv

Preserved == PppInv' /\ (Polite /\ TimedInv => TimedInv')

LEMMA LinkSettled ==
    ASSUME NEW s, Held(s), NEW env, NEW r, Sound("lcp", s.fsm["lcp"], r),
           r.sig = "up" => ~s.ses.terminating,
           Polite /\ Timed(s) =>
              \/ r.f = s.fsm["lcp"] /\ r.sig # "up"
              \/ KeepsClock(s.fsm["lcp"], r) /\ s.fsm["lcp"].state # "Opened"
    PROVE  Settled(s, Apply(s, "lcp", r, env))
<1>1. r \in Answer /\ r.f.state \notin {"Initial", "Starting"}
  BY DEF Held, Base, LinkHeld, Sound
<1>2. PICK t : t = Apply(s, "lcp", r, env)
  OBVIOUS
<1>3. \/ Released(t)
      \/ /\ Held(t)
         /\ \/ Timed(t)
            \/ /\ r.sig # "up"
               /\ \/ Waiting(r.f) /\ ~r.f.timer
                  \/ /\ ~s.ses.terminating
                     /\ ~(r.f.state = "Opened" <=> s.ld["lcp"].up)
  BY <1>1, <1>2, ApplyLink
<1>4. ASSUME Polite, Timed(s), Held(t) PROVE Timed(t)
  <2>1. CASE r.f = s.fsm["lcp"] /\ r.sig # "up"
    <3>1. ~(Waiting(r.f) /\ ~r.f.timer)
      BY <1>4, <2>1 DEF Timed
    <3>2. ~s.ses.terminating => (r.f.state = "Opened" <=> s.ld["lcp"].up)
      BY <1>4, <2>1 DEF Timed
    <3> QED BY <1>3, <1>4, <3>1, <3>2 DEF Released, Held, Base, Living
  <2>2. CASE KeepsClock(s.fsm["lcp"], r) /\ s.fsm["lcp"].state # "Opened"
    <3>1. Clocked(s.fsm["lcp"])
      BY <1>4, <2>2 DEF Timed
    <3>2. r.sig # "up" => Clocked(r.f)
      BY <2>2, <3>1 DEF KeepsClock
    <3>3. ~s.ses.terminating => ~s.ld["lcp"].up
      BY <1>4, <2>2 DEF Timed
    <3> QED BY <1>3, <1>4, <3>2, <3>3 DEF Released, Held, Base, Living
  <2> QED BY <1>4, <2>1, <2>2
<1> QED BY <1>2, <1>3, <1>4 DEF Settled

LEMMA LinkAlive ==
    ASSUME PppInv, NEW code, LcpAccepts(code)
    PROVE  /\ Held(State) /\ fsm["lcp"] \in Fsm
           /\ code \in PeerCodes
           /\ code \notin {"TermReq", "TermAck"} => ~State.ses.terminating
           /\ code \in {"ConfAck", "ConfNak", "ConfRej"} =>
                 ~State.ld["lcp"].up
<1>1. Held(State)
  BY OnlyWhenHeld DEF LcpAccepts
<1>2. fsm["lcp"] \in Fsm
  BY <1>1, StateFields, TypedFields, Names DEF Held, Base
<1> QED BY <1>1, <1>2, StateFields DEF LcpAccepts, Sends

LEMMA LcpConfReqStep ==
    ASSUME PppInv, NEW v \in {"ack", "nak", "rej", "fail"}, NEW env,
           LcpConfReq(v, env)
    PROVE  Preserved
<1>1. /\ Held(State) /\ fsm["lcp"] \in Fsm /\ ~State.ses.terminating
  BY LinkAlive DEF LcpConfReq
<1>2. CASE Becomes(Terminate(State, FALSE))
  BY <1>1, <1>2, TerminateSettled, SettledStep DEF Preserved
<1>3. CASE /\ v # "fail" /\ ~ld["lcp"].up
           /\ LcpApply(RecvConfReq("lcp", fsm["lcp"], "ok", v), env)
  <2>1. PICK r : r = RecvConfReq("lcp", State.fsm["lcp"], "ok", v)
    OBVIOUS
  <2>2. Sound("lcp", State.fsm["lcp"], r) /\ KeepsClock(State.fsm["lcp"], r)
    BY <1>1, <1>3, <2>1, StateFields, ConfReqSound
  <2>3. Timed(State) => State.fsm["lcp"].state # "Opened"
    BY <1>1, <1>3, StateFields DEF Timed
  <2>4. Settled(State, Apply(State, "lcp", r, env))
    BY <1>1, <2>2, <2>3, LinkSettled
  <2>5. Becomes(Apply(State, "lcp", r, env))
    BY <1>3, <2>1, StateFields DEF LcpApply
  <2> QED BY <1>1, <2>4, <2>5, SettledStep DEF Preserved
<1> QED BY <1>2, <1>3 DEF LcpConfReq

LEMMA LcpConfAckStep ==
    ASSUME PppInv, NEW env, LcpConfAck(env)
    PROVE  Preserved
<1>1. /\ Held(State) /\ fsm["lcp"] \in Fsm /\ ~State.ses.terminating
      /\ ~State.ld["lcp"].up
  BY LinkAlive DEF LcpConfAck
<1>2. PICK r : r = RecvConfAck("lcp", State.fsm["lcp"], "ok")
  OBVIOUS
<1>3. Sound("lcp", State.fsm["lcp"], r) /\ KeepsClock(State.fsm["lcp"], r)
  BY <1>1, <1>2, StateFields, ConfAckSound
<1>4. Timed(State) => State.fsm["lcp"].state # "Opened"
  BY <1>1 DEF Timed
<1>5. Settled(State, Apply(State, "lcp", r, env))
  BY <1>1, <1>3, <1>4, LinkSettled
<1>6. Becomes(Apply(State, "lcp", r, env))
  BY <1>2, StateFields DEF LcpConfAck, LcpApply
<1> QED BY <1>1, <1>5, <1>6, SettledStep DEF Preserved

LEMMA LcpConfNakStep ==
    ASSUME PppInv, LcpConfNak
    PROVE  Preserved
<1>1. /\ Held(State) /\ fsm["lcp"] \in Fsm /\ ~State.ses.terminating
      /\ ~State.ld["lcp"].up
  BY LinkAlive DEF LcpConfNak
<1>2. PICK r : r = RecvConfRej("lcp", State.fsm["lcp"], "ok")
  OBVIOUS
<1>3. /\ Sound("lcp", State.fsm["lcp"], r) /\ KeepsClock(State.fsm["lcp"], r)
      /\ r.sig = "none"
  BY <1>1, <1>2, StateFields, ConfRejSound
<1>4. Timed(State) => State.fsm["lcp"].state # "Opened"
  BY <1>1 DEF Timed
<1>5. Settled(State, Apply(State, "lcp", r, Quiet))
  BY <1>1, <1>3, <1>4, LinkSettled
<1>6. Apply(State, "lcp", r, Quiet) = Put(State, "lcp", r.f)
  BY <1>3 DEF Apply, Callback
<1>7. Becomes(Put(State, "lcp", r.f))
  BY <1>2, StateFields DEF LcpConfNak
<1> QED BY <1>1, <1>5, <1>6, <1>7, SettledStep DEF Preserved

LEMMA LcpBadAnswerStep ==
    ASSUME PppInv, LcpBadAnswer
    PROVE  Preserved
<1>1. Held(State)
  BY LinkAlive DEF LcpBadAnswer
<1> QED BY <1>1, TerminateSettled, SettledStep DEF LcpBadAnswer, Preserved

LEMMA LcpTermReqStep ==
    ASSUME PppInv, LcpTermReq
    PROVE  Preserved
<1>1. Held(State) /\ fsm["lcp"] \in Fsm
  BY LinkAlive DEF LcpTermReq
<1>2. PICK f : f = RecvTermReq("lcp", State.fsm["lcp"])
  OBVIOUS
<1>3. /\ f \in Fsm /\ f.state \notin {"Initial", "Starting"}
      /\ Clock(State) => (Waiting(f) => f.timer)
  BY <1>1, <1>2, StateFields, TermReqSound DEF Held, Base, LinkHeld, Clock
<1>4. PICK u : u = Put(State, "lcp", f)
  OBVIOUS
<1>5. Held(u) /\ u.fsm["lcp"] = f
  BY <1>1, <1>3, <1>4, HeldLink
<1>6. PICK t : t = Terminate(u, FALSE)
  OBVIOUS
<1>7. Base(u) /\ u.ses.linked
  BY <1>5 DEF Held
<1>8. Held(t) /\ (Clock(u) => Timed(t))
  BY <1>6, <1>7, TerminateHeld
<1>9. Timed(State) => Clock(u)
  BY <1>3, <1>5, TimedClock DEF Clock
<1>10. Settled(State, t)
  BY <1>8, <1>9 DEF Settled
<1>11. Becomes(t)
  BY <1>2, <1>4, <1>6, StateFields DEF LcpTermReq
<1> QED BY <1>1, <1>10, <1>11, SettledStep DEF Preserved

LEMMA LcpTermAckStep ==
    ASSUME PppInv, LcpTermAck
    PROVE  Preserved
<1>1. Held(State) /\ fsm["lcp"] \in Fsm /\ ~Polite
  BY LinkAlive DEF LcpTermAck, Polite
<1>2. PICK r : r = RecvTermAck("lcp", State.fsm["lcp"], "ok")
  OBVIOUS
<1>3. Sound("lcp", State.fsm["lcp"], r) /\ r.sig # "up"
  BY <1>1, <1>2, StateFields, TermAckSound
<1>4. Settled(State, Apply(State, "lcp", r, Quiet))
  BY <1>1, <1>3, LinkSettled
<1>5. Becomes(Apply(State, "lcp", r, Quiet))
  BY <1>2, StateFields DEF LcpTermAck, LcpApply
<1> QED BY <1>1, <1>4, <1>5, SettledStep DEF Preserved

LEMMA LcpCodeRejStep ==
    ASSUME PppInv, LcpCodeRej
    PROVE  Preserved
<1>1. Held(State) /\ fsm["lcp"] \in Fsm /\ ~Polite
  BY LinkAlive DEF LcpCodeRej, Polite
<1>2. PICK r : r = RecvCodeRej("lcp", State.fsm["lcp"])
  OBVIOUS
<1>3. Sound("lcp", State.fsm["lcp"], r) /\ r.sig # "up"
  BY <1>1, <1>2, StateFields, CodeRejSound
<1>4. Settled(State, Apply(State, "lcp", r, Quiet))
  BY <1>1, <1>3, LinkSettled
<1>5. Becomes(Apply(State, "lcp", r, Quiet))
  BY <1>2, StateFields DEF LcpCodeRej, LcpApply
<1> QED BY <1>1, <1>4, <1>5, SettledStep DEF Preserved

(* A step that changes only what the invariant does not speak of.          *)
LEMMA HeldPlain ==
    ASSUME NEW s, Held(s), NEW x \in Ses, x.conf = s.ses.conf,
           SameCore(x, s.ses)
    PROVE  LET t == [s EXCEPT !.ses = x]
           IN  /\ Held(t) /\ t.ses = x /\ t.fsm = s.fsm /\ t.ld = s.ld
               /\ Timed(s) => Timed(t)
<1>1. Typed(s)
  BY DEF Held, Base
<1>2. PICK t : t = [s EXCEPT !.ses = x]
  OBVIOUS
<1>3. Typed(t) /\ t.fsm = s.fsm /\ t.ld = s.ld /\ t.ses = x
  BY <1>1, <1>2, NewSes
<1> QED BY <1>1, <1>2, <1>3, Plain

LEMMA LcpEchoStep ==
    ASSUME PppInv, NEW loop \in BOOLEAN, LcpEcho(loop)
    PROVE  Preserved
<1>1. Held(State)
  BY LinkAlive DEF LcpEcho
<1>2. PICK u : u = IF loop THEN Terminate(State, FALSE) ELSE State
  OBVIOUS
<1>3. Held(u) /\ (Timed(State) => Timed(u))
  <2>1. Base(State) /\ State.ses.linked
    BY <1>1 DEF Held
  <2> QED BY <1>1, <1>2, <2>1, TerminateHeld, TimedClock
<1> DEFINE x == [u.ses EXCEPT !.echoSent = 0]
<1>4. Typed(u) /\ u.ses \in Ses /\ ~u.ses.freed
  BY <1>3, TypedFields DEF Held, Base, Living
<1>5. x \in Ses /\ x.conf = u.ses.conf /\ SameCore(x, u.ses)
  BY <1>4, PppAssumption DEF Ses, SameCore
<1>6. PICK t : t = [u EXCEPT !.ses = x]
  OBVIOUS
<1>7. ResetEcho(u) = t
  BY <1>4, <1>6 DEF ResetEcho, Typed, PppState
<1> HIDE DEF x
<1>8. Held(t) /\ (Timed(u) => Timed(t))
  BY <1>3, <1>5, <1>6, HeldPlain
<1>9. Settled(State, t)
  BY <1>3, <1>8 DEF Settled
<1>10. Becomes(t)
  BY <1>2, <1>7 DEF LcpEcho
<1> QED BY <1>1, <1>9, <1>10, SettledStep DEF Preserved

LEMMA LcpProtoRejStep ==
    ASSUME PppInv, NEW n \in Ncp, NEW env, LcpProtoRej(n, env)
    PROVE  Preserved
<1>1. Held(State) /\ ~State.ses.terminating
  BY LinkAlive DEF LcpProtoRej
<1>2. CASE n = "ccp" /\ ~Optional(n)
  BY <1>1, <1>2, TerminateSettled, SettledStep DEF LcpProtoRej, Preserved
<1>3. CASE ~(n = "ccp" /\ ~Optional(n))
  <2>1. PICK r : r = Close(LowerDown(n, State.fsm[n]))
    OBVIOUS
  <2>2. State.fsm[n] \in Fsm
    BY <1>1, TypedFields, Names DEF Held, Base
  <2>3. r \in Answer /\ r.sig # "up"
    BY <2>1, <2>2, LowerDownType, CloseType
  <2>4. NcpSound(State, n)
    BY <1>1 DEF Held, Network
  <2>5. State.ld[n].addr
    BY <1>3, <2>4, StateFields DEF LcpProtoRej, NcpSound
  <2>6. PICK t : t = Apply(State, n, r, env)
    OBVIOUS
  <2>7. Held(t) /\ (Timed(State) => Timed(t))
    BY <1>1, <2>3, <2>5, <2>6, ApplyNcp
  <2>8. Becomes(t)
    BY <1>3, <2>1, <2>6, StateFields DEF LcpProtoRej
  <2> QED BY <1>1, <2>7, <2>8, SettledStep DEF Settled, Preserved
<1> QED BY <1>2, <1>3

(* What the handlers of the network protocols' packets begin with.         *)
LEMMA NcpAlive ==
    ASSUME PppInv, NEW n \in Ncp, NEW code, NcpAccepts(n, code)
    PROVE  /\ Held(State) /\ ~State.ses.terminating
           /\ State.fsm[n] \in Fsm /\ State.ld[n] \in Flags
           /\ NcpSound(State, n)
           /\ State.ld["auth"].started
           /\ n # "lcp"
<1>1. Held(State)
  BY OnlyWhenHeld DEF NcpAccepts
<1>2. ~State.ses.terminating /\ State.ld[n].begun
  BY StateFields DEF NcpAccepts
<1>3. /\ State.fsm[n] \in Fsm /\ State.ld[n] \in Flags /\ n # "lcp"
  BY <1>1, TypedFields, Names DEF Held, Base
<1>4. NcpSound(State, n)
  BY <1>1, <1>2 DEF Held, Network
<1> QED BY <1>1, <1>2, <1>3, <1>4 DEF NcpSound

LEMMA NcpApplyStep ==
    ASSUME NEW n \in Ncp, NEW env, NEW r, Held(State), ~State.ses.terminating,
           NcpSound(State, n), State.ld["auth"].started,
           Sound(n, State.fsm[n], r), NcpApply(n, r, env)
    PROVE  Preserved
<1>1. /\ r \in Answer
      /\ Asleep(r.f) \/ State.ld[n].addr
      /\ r.sig = "up" => State.ld[n].addr
  BY DEF Sound, NcpSound
<1>2. PICK t : t = Apply(State, n, r, env)
  OBVIOUS
<1>3. Held(t) /\ (Timed(State) => Timed(t))
  BY <1>1, <1>2, ApplyNcp
<1>4. Becomes(t)
  BY <1>2 DEF NcpApply
<1> QED BY <1>3, <1>4, SettledStep DEF Settled, Preserved

LEMMA NcpConfAckStep ==
    ASSUME PppInv, NEW n \in Ncp, NEW env, NcpConfAck(n, env)
    PROVE  Preserved
<1>1. /\ Held(State) /\ ~State.ses.terminating /\ State.fsm[n] \in Fsm
      /\ NcpSound(State, n) /\ State.ld["auth"].started /\ n # "lcp"
  BY NcpAlive DEF NcpConfAck
<1>2. PICK r : r = RecvConfAck(n, State.fsm[n], Snd(State, n, env))
  OBVIOUS
<1>3. Sound(n, State.fsm[n], r)
  BY <1>1, <1>2, ConfAckSound
<1>4. NcpApply(n, r, env)
  BY <1>2, StateFields DEF NcpConfAck
<1> QED BY <1>1, <1>3, <1>4, NcpApplyStep

LEMMA NcpConfNakStep ==
    ASSUME PppInv, NEW n \in Ncp, NEW env, NcpConfNak(n, env)
    PROVE  Preserved
<1>1. /\ Held(State) /\ ~State.ses.terminating /\ State.fsm[n] \in Fsm
      /\ NcpSound(State, n) /\ State.ld["auth"].started /\ n # "lcp"
  BY NcpAlive DEF NcpConfNak
<1>2. PICK r : r = RecvConfRej(n, State.fsm[n], Snd(State, n, env))
  OBVIOUS
<1>3. Sound(n, State.fsm[n], r)
  BY <1>1, <1>2, ConfRejSound
<1>4. NcpApply(n, r, env)
  BY <1>2, StateFields DEF NcpConfNak
<1> QED BY <1>1, <1>3, <1>4, NcpApplyStep

LEMMA NcpBadAnswerStep ==
    ASSUME PppInv, NEW n \in Ncp, NcpBadAnswer(n)
    PROVE  Preserved
<1>1. Held(State)
  BY NcpAlive DEF NcpBadAnswer
<1> QED BY <1>1, TerminateSettled, SettledStep DEF NcpBadAnswer, Preserved

LEMMA NcpTermReqStep ==
    ASSUME PppInv, NEW n \in Ncp, NEW env, NcpTermReq(n, env)
    PROVE  Preserved
<1>1. /\ Held(State) /\ ~State.ses.terminating /\ State.fsm[n] \in Fsm
      /\ NcpSound(State, n)
  BY NcpAlive DEF NcpTermReq
<1>2. PICK f : f = RecvTermReq(n, State.fsm[n])
  OBVIOUS
<1>3. f \in Fsm /\ (Asleep(f) \/ State.ld[n].addr)
  BY <1>1, <1>2, TermReqSound DEF NcpSound
<1>4. CASE n = "ccp"
  <2>1. PICK r : r = Close(f)
    OBVIOUS
  <2>2. r \in Answer /\ r.sig # "up" /\ State.ld[n].addr
    BY <1>1, <1>3, <1>4, <2>1, CloseType DEF NcpSound
  <2>3. PICK t : t = Apply(State, n, r, env)
    OBVIOUS
  <2>4. Held(t) /\ (Timed(State) => Timed(t))
    BY <1>1, <2>2, <2>3, ApplyNcp
  <2>5. Becomes(t)
    BY <1>2, <1>4, <2>1, <2>3, StateFields DEF NcpTermReq
  <2> QED BY <1>1, <2>4, <2>5, SettledStep DEF Settled, Preserved
<1>5. CASE n # "ccp"
  <2>1. PICK u : u = Put(State, n, f)
    OBVIOUS
  <2>2. Held(u) /\ (Timed(State) => Timed(u))
    BY <1>1, <1>3, <2>1, HeldPut
  <2>3. Settled(State, Terminate(u, FALSE))
    BY <2>2, TerminateSettled, SettledAfter
  <2>4. Becomes(Terminate(u, FALSE))
    BY <1>2, <1>5, <2>1, StateFields DEF NcpTermReq
  <2> QED BY <1>1, <2>3, <2>4, SettledStep DEF Preserved
<1> QED BY <1>4, <1>5

LEMMA NcpTermAckStep ==
    ASSUME PppInv, NEW n \in Ncp, NEW env, NcpTermAck(n, env)
    PROVE  Preserved
<1>1. /\ Held(State) /\ ~State.ses.terminating /\ State.fsm[n] \in Fsm
      /\ NcpSound(State, n) /\ State.ld["auth"].started
  BY NcpAlive DEF NcpTermAck
<1>2. PICK r : r = RecvTermAck(n, State.fsm[n], "ok")
  OBVIOUS
<1>3. Sound(n, State.fsm[n], r)
  BY <1>1, <1>2, TermAckSound
<1>4. NcpApply(n, r, env)
  BY <1>2, StateFields DEF NcpTermAck
<1> QED BY <1>1, <1>3, <1>4, NcpApplyStep

LEMMA NcpCodeRejStep ==
    ASSUME PppInv, NEW n \in Ncp, NEW env, NcpCodeRej(n, env)
    PROVE  Preserved
<1>1. /\ Held(State) /\ ~State.ses.terminating /\ State.fsm[n] \in Fsm
      /\ NcpSound(State, n) /\ State.ld["auth"].started
  BY NcpAlive DEF NcpCodeRej
<1>2. PICK r : r = RecvCodeRej(n, State.fsm[n])
  OBVIOUS
<1>3. Sound(n, State.fsm[n], r)
  BY <1>1, <1>2, CodeRejSound
<1>4. NcpApply(n, r, env)
  BY <1>2, StateFields DEF NcpCodeRej
<1> QED BY <1>1, <1>3, <1>4, NcpApplyStep

(* A protocol gets an address, and an acknowledgement may be held back.    *)
LEMMA AddressHeld ==
    ASSUME NEW s, Held(s), ~s.ses.terminating, NEW n \in Ncp,
           NEW r \in Flags, r.addr, r.begun = s.ld[n].begun,
           r.up = s.ld[n].up, r.started = s.ld[n].started,
           r.passive => s.ld[n].passive
    PROVE  LET t == Set(s, n, r)
           IN  /\ Held(t) /\ t.ses = s.ses /\ t.ld[n] = r
               /\ t.ld["auth"] = s.ld["auth"]
               /\ Timed(s) => Timed(t)
<1>1. NcpSound(s, n) /\ Typed(s)
  BY DEF Held, Base, Network
<1>2. FlagsFit(s, n, r)
  BY <1>1 DEF NcpSound, FlagsFit
<1>3. "auth" \in Layer \ {n}
  BY <1>1, Names
<1>4. PICK t : t = Set(s, n, r)
  OBVIOUS
<1>5. /\ Held(t) /\ t.ses = s.ses /\ t.ld[n] = r
      /\ \A k \in Layer \ {n} : t.ld[k] = s.ld[k]
      /\ Timed(s) => Timed(t)
  BY <1>2, <1>4, HeldSet
<1> QED BY <1>3, <1>4, <1>5

LEMMA OptionsHeld ==
    ASSUME Held(State), ~State.ses.terminating, NEW n \in Ncp, NEW opt
    PROVE  LET t == NcpOptions(n, opt)
           IN  /\ Held(t) /\ t.ses = State.ses
               /\ t.ld["auth"] = State.ld["auth"]
               /\ Timed(State) => Timed(t)
<1>1. CASE opt = "absent"
  BY <1>1 DEF NcpOptions
<1>2. CASE opt # "absent"
  <2> DEFINE r == [State.ld[n] EXCEPT !.addr = TRUE,
                     !.delay = IF opt = "acked" THEN CcpPending(State) ELSE @]
  <2>1. Typed(State) /\ State.ld[n] \in Flags /\ ~State.ses.freed
    BY TypedFields, Names DEF Held, Base, Living
  <2>2. CcpPending(State) \in BOOLEAN
    BY DEF CcpPending
  <2>3. /\ r \in Flags /\ r.addr /\ r.begun = State.ld[n].begun
        /\ r.up = State.ld[n].up /\ r.started = State.ld[n].started
        /\ r.passive = State.ld[n].passive
    BY <2>1, <2>2 DEF Flags
  <2>4. NcpOptions(n, opt) = Set(State, n, r)
    <3>1. n \in Layer /\ State.ld \in [Layer -> Flags]
      BY <2>1, TypedFields, Names
    <3>2. PICK b : b = IF opt = "acked" THEN CcpPending(State)
                                        ELSE State.ld[n].delay
      OBVIOUS
    <3>3. NcpOptions(n, opt) =
             [State EXCEPT !.ld[n].addr = TRUE, !.ld[n].delay = b]
      BY <1>2, <2>1, <3>1, <3>2 DEF NcpOptions, Flags
    <3>4. r = [State.ld[n] EXCEPT !.addr = TRUE, !.delay = b]
      BY <2>1, <3>2 DEF Flags
    <3> HIDE DEF r
    <3>5. Set(State, n, r) = [State EXCEPT !.ld[n] = r]
      BY <2>1 DEF Set
    <3>6. [State.ld EXCEPT ![n] = r] =
             [State.ld EXCEPT ![n].addr = TRUE, ![n].delay = b]
      BY <3>1, <3>4
    <3> QED BY <3>3, <3>5, <3>6
  <2> HIDE DEF r
  <2>5. r.passive => State.ld[n].passive
    BY <2>3
  <2> QED BY <2>3, <2>4, <2>5, AddressHeld
<1> QED BY <1>1, <1>2

(* A passive protocol opens itself: it is not a required one, so that it   *)
(* may do so without an address.                                           *)
LEMMA LeavePassiveHeld ==
    ASSUME NEW s, Held(s), ~s.ses.terminating, NEW n \in Ncp, NEW verdict,
           NEW env
    PROVE  LET t == LeavePassive(s, n, verdict, env)
           IN  /\ Held(t) /\ t.ses = s.ses
               /\ t.ld["auth"] = s.ld["auth"]
               /\ Timed(s) => Timed(t)
<1>1. CASE s.ld[n].passive /\ (n = "ccp" \/ verdict # "none")
  <2> DEFINE r == [s.ld[n] EXCEPT !.passive = FALSE, !.timeout = FALSE]
  <2>1. /\ Typed(s) /\ s.ld[n] \in Flags /\ ~s.ses.freed /\ NcpSound(s, n)
        /\ "auth" \in Layer \ {n}
    BY TypedFields, Names DEF Held, Base, Living, Network
  <2>2. /\ r \in Flags /\ r.addr = s.ld[n].addr /\ r.begun = s.ld[n].begun
        /\ r.up = s.ld[n].up /\ r.started = s.ld[n].started /\ ~r.passive
    BY <2>1 DEF Flags
  <2>3. PICK u : u = Set(s, n, r)
    OBVIOUS
  <2>4. u = [s EXCEPT !.ld[n].passive = FALSE, !.ld[n].timeout = FALSE]
    BY <2>1, <2>3 DEF Set, Flags, Typed, PppState
  <2>5. LeavePassive(s, n, verdict, env) = OpenNcp(u, n, env)
    BY <1>1, <2>4, Zenon DEF LeavePassive
  <2> HIDE DEF r
  <2>6. FlagsFit(s, n, r)
    BY <2>1, <2>2 DEF FlagsFit, NcpSound
  <2>7. /\ Held(u) /\ u.ses = s.ses /\ u.ld[n] = r
        /\ \A k \in Layer \ {n} : u.ld[k] = s.ld[k]
        /\ Timed(s) => Timed(u)
    BY <2>2, <2>3, <2>6, HeldSet
  <2>8. Mode[n] # "require" \/ u.ld[n].addr
    BY <1>1, <2>1, <2>2, <2>7 DEF NcpSound
  <2>9. PICK t : t = OpenNcp(u, n, env)
    OBVIOUS
  <2>10. /\ Held(t) /\ t.ses = u.ses
         /\ \A k \in Layer \ {n} : t.ld[k] = u.ld[k]
         /\ Timed(u) => Timed(t)
    BY <2>7, <2>8, <2>9, OpenNcpHeld
  <2> QED BY <2>1, <2>5, <2>7, <2>9, <2>10
<1>2. CASE ~(s.ld[n].passive /\ (n = "ccp" \/ verdict # "none"))
  <2>1. LeavePassive(s, n, verdict, env) = s
    BY <1>2, Zenon DEF LeavePassive
  <2> QED BY <2>1
<1> QED BY <1>1, <1>2

LEMMA NcpConfReqStep ==
    ASSUME PppInv, NEW n \in Ncp, NEW v \in {"ack", "nak", "rej", "none", "fail"},
           NEW opt, NEW env, NcpConfReq(n, v, opt, env)
    PROVE  Preserved
<1>1. /\ Held(State) /\ ~State.ses.terminating /\ n # "lcp"
      /\ State.ld["auth"].started
  BY NcpAlive DEF NcpConfReq
<1>2. PICK s : s = NcpOptions(n, opt)
  OBVIOUS
<1>3. /\ Held(s) /\ s.ses = State.ses /\ s.ld["auth"] = State.ld["auth"]
      /\ Timed(State) => Timed(s)
  BY <1>1, <1>2, OptionsHeld
<1>4. PICK u : u = LeavePassive(s, n, v, env)
  OBVIOUS
<1>5. /\ Held(u) /\ u.ses = s.ses /\ u.ld["auth"] = s.ld["auth"]
      /\ Timed(s) => Timed(u)
  BY <1>1, <1>3, <1>4, LeavePassiveHeld
<1>6. PICK w : w = Release(u, n, env)
  OBVIOUS
<1>7. Becomes(NcpAnswer(w, n, v, env))
  BY <1>2, <1>4, <1>6 DEF NcpConfReq
<1>8. /\ Held(w)
      /\ Timed(u) => Timed(w)
      /\ ld[n].delay \/ w = u
  <2>1. CASE ld[n].delay /\ ~u.ld[n].delay
    BY <1>1, <1>3, <1>5, <1>6, <2>1, NcpUpOnward DEF Release, Onward
  <2>2. CASE ~(ld[n].delay /\ ~u.ld[n].delay)
    <3>1. w = u
      BY <1>6, <2>2 DEF Release
    <3> QED BY <1>5, <3>1
  <2> QED BY <2>1, <2>2
<1>9. CASE w.ld[n].up \/ ld[n].delay
  <2>1. NcpAnswer(w, n, v, env) = IF v = "ack" THEN w ELSE Terminate(w, FALSE)
    BY <1>9 DEF NcpAnswer
  <2>2. Settled(w, NcpAnswer(w, n, v, env))
    BY <1>8, <2>1, TerminateSettled DEF Settled
  <2>3. Settled(State, NcpAnswer(w, n, v, env))
    BY <1>3, <1>5, <1>8, <2>2, SettledAfter
  <2> QED BY <1>1, <1>7, <2>3, SettledStep DEF Preserved
<1>10. CASE ~(w.ld[n].up \/ ld[n].delay) /\ v = "none"
  <2>1. NcpAnswer(w, n, v, env) = w
    BY <1>10 DEF NcpAnswer
  <2>2. Settled(State, w)
    BY <1>3, <1>5, <1>8 DEF Settled
  <2> QED BY <1>1, <1>7, <2>1, <2>2, SettledStep DEF Preserved
<1>12. CASE ~(w.ld[n].up \/ ld[n].delay) /\ v = "fail"
  <2>1. NcpAnswer(w, n, v, env) = Terminate(w, FALSE)
    BY <1>12 DEF NcpAnswer
  <2>2. Settled(State, Terminate(w, FALSE))
    BY <1>3, <1>5, <1>8, TerminateSettled, SettledAfter
  <2> QED BY <1>1, <1>7, <2>1, <2>2, SettledStep DEF Preserved
<1>11. CASE ~(w.ld[n].up \/ ld[n].delay) /\ v \notin {"none", "fail"}
  <2>1. w = u
    BY <1>8, <1>11
  <2>2. PICK r : r = RecvConfReq(n, w.fsm[n], Snd(w, n, env), v)
    OBVIOUS
  <2>3. w.fsm[n] \in Fsm /\ NcpSound(w, n)
    BY <1>1, <1>3, <1>5, <2>1, TypedFields, Names DEF Held, Base, Network
  <2>4. Sound(n, w.fsm[n], r)
    BY <1>1, <1>11, <2>2, <2>3, ConfReqSound
  <2>5. /\ r \in Answer
        /\ Asleep(r.f) \/ w.ld[n].addr
        /\ r.sig = "up" => w.ld[n].addr
    BY <2>3, <2>4 DEF Sound, NcpSound
  <2>6. PICK t : t = Apply(w, n, r, env)
    OBVIOUS
  <2>7. ~w.ses.terminating /\ w.ld["auth"].started
    BY <1>1, <1>3, <1>5, <2>1
  <2>8. Held(t) /\ (Timed(w) => Timed(t))
    BY <1>8, <2>5, <2>6, <2>7, ApplyNcp
  <2>9. NcpAnswer(w, n, v, env) = t
    BY <1>11, <2>2, <2>6 DEF NcpAnswer
  <2>10. Settled(State, t)
    BY <1>3, <1>5, <1>8, <2>8 DEF Settled
  <2> QED BY <1>1, <1>7, <2>9, <2>10, SettledStep DEF Preserved
<1> QED BY <1>9, <1>10, <1>11, <1>12

LEMMA NcpNoAddressStep ==
    ASSUME PppInv, NEW n \in Ncp, NEW refused \in BOOLEAN, NEW env,
           NcpNoAddress(n, refused, env)
    PROVE  Preserved
<1>1. /\ Held(State) /\ ~State.ses.terminating /\ State.ld[n] \in Flags
  BY NcpAlive DEF NcpNoAddress
<1> DEFINE r == [State.ld[n] EXCEPT !.addr = TRUE]
<1>2. /\ r \in Flags /\ r.addr /\ r.begun = State.ld[n].begun
      /\ r.up = State.ld[n].up /\ r.started = State.ld[n].started
      /\ r.passive = State.ld[n].passive
  BY <1>1 DEF Flags
<1>3. PICK a : a = Set(State, n, r)
  OBVIOUS
<1>4. a = [State EXCEPT !.ld[n].addr = TRUE]
  BY <1>1, <1>3 DEF Set, Held, Base, Living
<1> HIDE DEF r
<1>5. r.passive => State.ld[n].passive
  BY <1>2
<1>6. /\ Held(a) /\ a.ses = State.ses
      /\ Timed(State) => Timed(a)
  BY <1>1, <1>2, <1>3, <1>5, AddressHeld
<1>7. PICK s : s = IF refused THEN LeavePassive(a, n, "fail", env) ELSE State
  OBVIOUS
<1>8. Held(s) /\ (Timed(State) => Timed(s))
  BY <1>1, <1>6, <1>7, LeavePassiveHeld
<1>9. Becomes(Terminate(s, FALSE)) \/ Becomes(s)
  BY <1>4, <1>7, Zenon DEF NcpNoAddress
<1>10. Settled(State, Terminate(s, FALSE))
  BY <1>8, TerminateSettled, SettledAfter
<1>11. Settled(State, s)
  BY <1>8 DEF Settled
<1> QED BY <1>1, <1>9, <1>10, <1>11, SettledStep DEF Preserved

-----------------------------------------------------------------------------
(* Timers.                                                                 *)

LEMMA LinkTimerStep ==
    ASSUME PppInv, RestartTimerFires("lcp", Quiet)
    PROVE  Preserved
<1>1. "lcp" \in Automaton
  BY DEF Automaton
<1>2. Held(State)
  BY <1>1, OnlyWhenHeld DEF RestartTimerFires
<1>3. PICK f : f = State.fsm["lcp"]
  OBVIOUS
<1>4. f \in Fsm
  BY <1>1, <1>2, <1>3, TypedFields DEF Held, Base
<1>5. PICK r : r = RestartTimer(f, "ok")
  OBVIOUS
<1>6. Sound("lcp", f, r) /\ KeepsClock(f, r) /\ r.sig # "up"
  BY <1>4, <1>5, RestartTimerSound
<1>7. f.state = "Opened" => r.f = f
  BY <1>5 DEF RestartTimer, Timeout0, Timeout1, Res
<1>8. Settled(State, Apply(State, "lcp", r, Quiet))
  BY <1>2, <1>3, <1>6, <1>7, LinkSettled
<1>9. Becomes(Apply(State, "lcp", r, Quiet))
  BY <1>3, <1>5, StateFields DEF RestartTimerFires, Snd
<1> QED BY <1>2, <1>8, <1>9, SettledStep DEF Preserved

LEMMA NcpTimerStep ==
    ASSUME PppInv, NEW n \in Ncp, NEW env, RestartTimerFires(n, env)
    PROVE  Preserved
<1>1. n \in Automaton
  BY DEF Automaton
<1>2. Held(State)
  BY <1>1, OnlyWhenHeld DEF RestartTimerFires
<1>3. PICK r : r = RestartTimer(State.fsm[n], Snd(State, n, env))
  OBVIOUS
<1>4. State.fsm[n] \in Fsm /\ n # "lcp"
  BY <1>1, <1>2, TypedFields, Names DEF Held, Base
<1>5. Sound(n, State.fsm[n], r) /\ r.sig # "up"
  BY <1>3, <1>4, RestartTimerSound
<1>6. ~State.ses.terminating => Asleep(r.f) \/ State.ld[n].addr
  BY <1>2, <1>5 DEF Sound, NcpSound, Held, Network
<1>7. PICK t : t = Apply(State, n, r, env)
  OBVIOUS
<1>8. Held(t) /\ (Timed(State) => Timed(t))
  BY <1>2, <1>5, <1>6, <1>7, ApplyNcp DEF Sound
<1>9. Becomes(t)
  BY <1>3, <1>7, StateFields DEF RestartTimerFires
<1> QED BY <1>2, <1>8, <1>9, SettledStep DEF Settled, Preserved

LEMMA NcpStartTimeoutStep ==
    ASSUME PppInv, NEW n \in Ncp, NcpStartTimeout(n)
    PROVE  Preserved
<1>1. n \in Layer
  BY DEF Layer
<1>2. Held(State)
  BY <1>1, OnlyWhenHeld DEF NcpStartTimeout
<1> DEFINE r == [State.ld[n] EXCEPT !.timeout = FALSE]
<1>3. /\ State.ld[n] \in Flags /\ ~State.ses.freed /\ OnlyLink(State)
      /\ n # "lcp"
  BY <1>1, <1>2, TypedFields, Names DEF Held, Base, Living
<1>4. /\ r \in Flags /\ r.addr = State.ld[n].addr
      /\ r.begun = State.ld[n].begun /\ r.up = State.ld[n].up
      /\ r.started = State.ld[n].started /\ r.passive = State.ld[n].passive
      /\ r.starting = State.ld[n].starting
  BY <1>3 DEF Flags
<1>5. PICK s : s = Set(State, n, r)
  OBVIOUS
<1>6. s = [State EXCEPT !.ld[n].timeout = FALSE]
  BY <1>3, <1>5 DEF Set
<1> HIDE DEF r
<1>7. State.ses.terminating => ~r.starting
  BY <1>1, <1>3, <1>4 DEF OnlyLink
<1>8. ASSUME ~State.ses.terminating PROVE FlagsFit(State, n, r)
  BY <1>2, <1>4, <1>8 DEF Held, Network, NcpSound, FlagsFit
<1>9. Held(s) /\ (Timed(State) => Timed(s))
  BY <1>2, <1>4, <1>5, <1>7, <1>8, HeldSet
<1>10. Becomes(Terminate(s, FALSE)) \/ Becomes(s)
  BY <1>6, Zenon DEF NcpStartTimeout
<1>11. Settled(State, Terminate(s, FALSE)) /\ Settled(State, s)
  BY <1>9, TerminateSettled, SettledAfter DEF Settled
<1> QED BY <1>2, <1>10, <1>11, SettledStep DEF Preserved

LEMMA EchoTimerStep ==
    ASSUME PppInv, EchoTimerFires
    PROVE  Preserved
<1>1. Held(State) /\ ses \in Ses
  BY OnlyWhenHeld DEF EchoTimerFires
<1>4. CASE Becomes([State EXCEPT !.ses.echoSent = 0])
  <2> DEFINE x == [ses EXCEPT !.echoSent = 0]
  <2>1. x \in Ses /\ x.conf = ses.conf /\ SameCore(x, ses)
    BY <1>1, PppAssumption DEF Ses, SameCore
  <2>2. PICK t : t = [State EXCEPT !.ses = x]
    OBVIOUS
  <2>3. Becomes(t)
    BY <1>4, <2>2 DEF State
  <2> HIDE DEF x
  <2>4. Held(t) /\ (Timed(State) => Timed(t))
    BY <1>1, <2>1, <2>2, StateFields, HeldPlain
  <2> QED BY <1>1, <2>3, <2>4, SettledStep DEF Settled, Preserved
<1>2. CASE EchoLimit /\ Becomes(Terminate(State, TRUE))
  BY <1>1, <1>2, TerminateHardSettled, SettledStep DEF Preserved
<1>3. CASE ~EchoLimit /\ Becomes([State EXCEPT !.ses.echoSent = @ + 1])
  <2> DEFINE x == [ses EXCEPT !.echoSent = ses.echoSent + 1]
  <2>1. ses.echoSent + 1 \in 0..(EchoFailure + 1)
    BY <1>1, <1>3, PppAssumption DEF EchoLimit, Ses
  <2>2. x \in Ses /\ x.conf = ses.conf /\ SameCore(x, ses)
    BY <1>1, <2>1 DEF Ses, SameCore
  <2>3. PICK t : t = [State EXCEPT !.ses = x]
    OBVIOUS
  <2>4. Becomes(t)
    BY <1>3, <2>3, StateFields DEF State
  <2> HIDE DEF x
  <2>5. Held(t) /\ (Timed(State) => Timed(t))
    BY <1>1, <2>2, <2>3, StateFields, HeldPlain
  <2> QED BY <1>1, <2>4, <2>5, SettledStep DEF Settled, Preserved
<1> QED BY <1>2, <1>3, <1>4 DEF EchoTimerFires

LEMMA SessionTimerStep ==
    ASSUME PppInv, SessionTimerFires
    PROVE  Preserved
<1>1. Held(State)
  BY OnlyWhenHeld DEF SessionTimerFires
<1> QED BY <1>1, TerminateSettled, SettledStep DEF SessionTimerFires, Preserved

-----------------------------------------------------------------------------
(* Authentication and queued calls.                                        *)

(* The authenticator moves on and the queue changes.                       *)
LEMMA HeldAuth ==
    ASSUME NEW s, Held(s), NEW t, Typed(t), t.fsm = s.fsm, t.ld = s.ld,
           t.ses.bad = s.ses.bad, t.ses.freed = s.ses.freed,
           t.ses.finished = s.ses.finished, t.ses.gone = s.ses.gone,
           t.ses.state = s.ses.state,
           t.ses.terminating = s.ses.terminating,
           t.ses.linked = s.ses.linked,
           \A c : Queued(t, c) => \/ Queued(s, c) \/ c = "disconnect"
                                  \/ c = "authStarted" /\ t.ses.auth = "acked",
           t.ses.query => t.ses.auth = "active",
           \/ t.ses.auth = s.ses.auth
           \/ s.ses.auth # "off" /\ t.ses.auth = "acked"
    PROVE  Held(t) /\ (Timed(s) => Timed(t))
<1>1. Base(s) /\ Living(s) /\ LinkHeld(s) /\ OnlyLink(s) /\ Network(s)
  BY DEF Held, Base
<1>2. Living(t)
  BY <1>1 DEF Living
<1>3. OnlyLink(t)
  BY <1>1 DEF OnlyLink
<1>4. Base(t)
  BY <1>1, <1>2, <1>3 DEF Base, LinkHeld
<1>5. ASSUME ~t.ses.terminating PROVE Authentic(t)
  BY <1>1, <1>5 DEF Network, Authentic
<1>6. ASSUME ~t.ses.terminating PROVE Carrying(t)
  BY <1>1, <1>6 DEF Network, Carrying
<1>7. ASSUME ~t.ses.terminating, NEW n \in Ncp PROVE NcpSound(t, n)
  BY <1>1, <1>7 DEF Network, NcpSound
<1>8. Timed(s) => Timed(t)
  BY DEF Timed
<1> QED BY <1>4, <1>5, <1>6, <1>7, <1>8 DEF Held, Network

(* The password check accepts the peer.                                    *)
LEMMA AcceptHeld ==
    ASSUME NEW s, Held(s), s.ses.auth # "off", ~s.ses.query
    PROVE  LET t == Accept(s)
           IN  Held(t) /\ (Timed(s) => Timed(t))
<1> DEFINE x == [s.ses EXCEPT !.auth = "acked"]
<1>1. Typed(s) /\ s.ses \in Ses
  BY TypedFields DEF Held, Base
<1>2. /\ x \in Ses /\ x.conf = s.ses.conf /\ x.auth = "acked"
      /\ x.bad = s.ses.bad /\ x.freed = s.ses.freed
      /\ x.finished = s.ses.finished /\ x.gone = s.ses.gone
      /\ x.state = s.ses.state /\ x.terminating = s.ses.terminating
      /\ x.linked = s.ses.linked /\ x.calls = s.ses.calls
      /\ x.query = s.ses.query
  BY <1>1 DEF Ses
<1>3. PICK u : u = [s EXCEPT !.ses = x]
  OBVIOUS
<1>4. u = [s EXCEPT !.ses.auth = "acked"]
  BY <1>1, <1>3 DEF Typed, PppState
<1>5. PICK t : t = Post(u, "authStarted")
  OBVIOUS
<1>6. Accept(s) = t
  BY <1>4, <1>5 DEF Accept
<1> HIDE DEF x
<1>7. Typed(u) /\ u.fsm = s.fsm /\ u.ld = s.ld /\ u.ses = x
  BY <1>1, <1>2, <1>3, NewSes
<1>8. /\ Typed(t) /\ t.fsm = s.fsm /\ t.ld = s.ld
      /\ t.ses = [x EXCEPT !.calls = Append(x.calls, "authStarted")]
      /\ \A c : Queued(t, c) <=> Queued(u, c) \/ c = "authStarted"
  BY <1>5, <1>7, PostFields DEF Call
<1>9. /\ t.ses.auth = x.auth
      /\ t.ses.bad = x.bad /\ t.ses.freed = x.freed
      /\ t.ses.finished = x.finished /\ t.ses.gone = x.gone
      /\ t.ses.state = x.state /\ t.ses.terminating = x.terminating
      /\ t.ses.linked = x.linked /\ t.ses.query = x.query
  BY <1>2, <1>8 DEF Ses
<1>10. \A c : Queued(u, c) <=> Queued(s, c)
  BY <1>2, <1>7 DEF Queued
<1> QED BY <1>2, <1>6, <1>8, <1>9, <1>10, HeldAuth

LEMMA AuthRequestStep ==
    ASSUME PppInv, NEW answer, AuthRequest(answer)
    PROVE  Preserved
<1>1. Held(State) /\ ses \in Ses /\ ses.auth # "off"
  BY OnlyWhenHeld DEF AuthRequest
<1> DEFINE x == [ses EXCEPT !.authTimer = FALSE]
<1>2. /\ x \in Ses /\ x.conf = ses.conf /\ SameCore(x, ses)
  BY <1>1 DEF Ses, SameCore
<1>3. PICK s : s = [State EXCEPT !.ses = x]
  OBVIOUS
<1>4. s = [State EXCEPT !.ses.authTimer = FALSE]
  BY <1>3 DEF State
<1> HIDE DEF x
<1>5. /\ Held(s) /\ s.ses = x /\ s.fsm = fsm /\ s.ld = ld
      /\ Timed(State) => Timed(s)
  BY <1>1, <1>2, <1>3, StateFields, HeldPlain
<1>6. s.ses.auth = ses.auth /\ s.ses.query = ses.query
  BY <1>2, <1>5 DEF SameCore
<1>7. CASE ses.auth = "acked" \/ ses.query
  <2>1. Becomes(s)
    BY <1>4, <1>7, Zenon DEF AuthRequest
  <2> QED BY <1>1, <1>5, <2>1, SettledStep DEF Settled, Preserved
<1>8. CASE ~(ses.auth = "acked" \/ ses.query)
  <2>1. \/ Becomes(s)
        \/ Becomes([s EXCEPT !.ses.query = TRUE])
        \/ Becomes(Accept(s))
        \/ Becomes(Terminate(s, FALSE))
    BY <1>4, <1>8, Zenon DEF AuthRequest
  <2>2. Settled(State, Accept(s))
    BY <1>1, <1>5, <1>6, <1>8, AcceptHeld DEF Settled
  <2>3. Settled(State, Terminate(s, FALSE))
    BY <1>5, TerminateSettled, SettledAfter
  <2> DEFINE y == [s.ses EXCEPT !.query = TRUE]
  <2>4. Typed(s) /\ s.ses \in Ses
    BY <1>5, TypedFields DEF Held, Base
  <2>5. /\ y \in Ses /\ y.conf = s.ses.conf /\ y.auth = s.ses.auth
        /\ y.bad = s.ses.bad /\ y.freed = s.ses.freed
        /\ y.finished = s.ses.finished /\ y.gone = s.ses.gone
        /\ y.state = s.ses.state /\ y.terminating = s.ses.terminating
        /\ y.linked = s.ses.linked /\ y.calls = s.ses.calls
    BY <2>4 DEF Ses
  <2>6. PICK t : t = [s EXCEPT !.ses = y]
    OBVIOUS
  <2>7. t = [s EXCEPT !.ses.query = TRUE]
    BY <2>4, <2>6 DEF Typed, PppState
  <2> HIDE DEF y
  <2>8. Typed(t) /\ t.fsm = s.fsm /\ t.ld = s.ld /\ t.ses = y
    BY <2>4, <2>5, <2>6, NewSes
  <2>9. \A c : Queued(t, c) <=> Queued(s, c)
    BY <2>5, <2>8 DEF Queued
  <2>10. s.ses.auth = "active"
    BY <1>1, <1>6, <1>8 DEF Ses
  <2>11. Held(t) /\ (Timed(s) => Timed(t))
    BY <1>5, <2>5, <2>8, <2>9, <2>10, HeldAuth
  <2>12. Settled(State, t)
    BY <1>5, <2>11 DEF Settled
  <2>13. CASE Becomes(t)
    BY <1>1, <2>12, <2>13, SettledStep DEF Preserved
  <2>14. CASE Becomes(Accept(s))
    BY <1>1, <2>2, <2>14, SettledStep DEF Preserved
  <2>15. CASE Becomes(Terminate(s, FALSE))
    BY <1>1, <2>3, <2>15, SettledStep DEF Preserved
  <2>16. CASE Becomes(s)
    BY <1>1, <1>5, <2>16, SettledStep DEF Settled, Preserved
  <2> QED BY <2>1, <2>7, <2>13, <2>14, <2>15, <2>16
<1> QED BY <1>7, <1>8

LEMMA AuthResultStep ==
    ASSUME PppInv, NEW answer, AuthResult(answer)
    PROVE  Preserved
<1>1. Held(State) /\ ses \in Ses /\ ses.query
  BY OnlyWhenHeld DEF AuthResult
<1>2. ses.auth = "active"
  BY <1>1, StateFields DEF Held, Base, OnlyLink
<1> DEFINE x == [ses EXCEPT !.query = FALSE]
<1>3. /\ x \in Ses /\ x.conf = ses.conf /\ x.auth = ses.auth /\ ~x.query
      /\ x.bad = ses.bad /\ x.freed = ses.freed
      /\ x.finished = ses.finished /\ x.gone = ses.gone
      /\ x.state = ses.state /\ x.terminating = ses.terminating
      /\ x.linked = ses.linked /\ x.calls = ses.calls
  BY <1>1 DEF Ses
<1>4. PICK s : s = [State EXCEPT !.ses = x]
  OBVIOUS
<1>5. s = [State EXCEPT !.ses.query = FALSE,
                        !.ses.bad = @ \/ ses.auth = "off"]
  <2>1. ses.bad \in BOOLEAN
    BY <1>1 DEF Ses
  <2>2. (ses.bad \/ ses.auth = "off") = ses.bad
    BY <1>2, <2>1
  <2>3. x = [ses EXCEPT !.query = FALSE, !.bad = ses.bad]
    BY <1>1 DEF Ses
  <2> QED BY <1>4, <2>2, <2>3 DEF State
<1> HIDE DEF x
<1>6. Typed(State)
  BY <1>1 DEF Held, Base
<1>7. Typed(s) /\ s.fsm = State.fsm /\ s.ld = State.ld /\ s.ses = x
  BY <1>3, <1>4, <1>6, StateFields, NewSes
<1>8. \A c : Queued(s, c) <=> Queued(State, c)
  BY <1>3, <1>7, StateFields DEF Queued
<1>9. Held(s) /\ (Timed(State) => Timed(s))
  BY <1>1, <1>3, <1>7, <1>8, StateFields, HeldAuth
<1>10. Becomes(Accept(s)) \/ Becomes(Terminate(s, FALSE))
  BY <1>5, Zenon DEF AuthResult
<1>11. Settled(State, Accept(s))
  BY <1>2, <1>3, <1>7, <1>9, AcceptHeld DEF Settled
<1>12. Settled(State, Terminate(s, FALSE))
  BY <1>9, TerminateSettled, SettledAfter
<1> QED BY <1>1, <1>10, <1>11, <1>12, SettledStep DEF Preserved

LEMMA AuthTimeoutStep ==
    ASSUME PppInv, AuthTimeout
    PROVE  Preserved
<1>1. Held(State)
  BY OnlyWhenHeld DEF AuthTimeout
<1> QED BY <1>1, TerminateSettled, SettledStep DEF AuthTimeout, Preserved

LEMMA PeerVanishesStep ==
    ASSUME PppInv, PeerVanishes
    PROVE  Preserved
<1>1. Held(State) /\ ses \in Ses
  BY OnlyWhenHeld DEF PeerVanishes
<1> DEFINE x == [ses EXCEPT !.silent = TRUE]
<1>2. /\ x \in Ses /\ x.conf = ses.conf /\ SameCore(x, ses)
  BY <1>1 DEF Ses, SameCore
<1>3. PICK t : t = [State EXCEPT !.ses = x]
  OBVIOUS
<1>4. Becomes(t)
  BY <1>3 DEF PeerVanishes, State
<1> HIDE DEF x
<1>5. Held(t) /\ (Timed(State) => Timed(t))
  BY <1>1, <1>2, <1>3, StateFields, HeldPlain
<1> QED BY <1>1, <1>4, <1>5, SettledStep DEF Settled, Preserved

LEMMA AdminTerminateStep ==
    ASSUME PppInv, NEW hard \in BOOLEAN, AdminTerminate(hard)
    PROVE  Preserved
<1>1. Held(State)
  BY OnlyWhenHeld DEF AdminTerminate
<1>2. Settled(State, Terminate(State, hard))
  <2>1. CASE hard
    <3>1. hard = TRUE
      BY <2>1
    <3> QED BY <1>1, <3>1, TerminateHardSettled
  <2>2. CASE ~hard
    <3>1. hard = FALSE
      BY <2>2
    <3> QED BY <1>1, <3>1, TerminateSettled
  <2> QED BY <2>1, <2>2
<1> QED BY <1>1, <1>2, SettledStep DEF AdminTerminate, Preserved

-----------------------------------------------------------------------------
(* The calls queued in the connection's context.                           *)

LEMMA QuietStep ==
    ASSUME NEW t, Fresh(t) \/ Released(t), Becomes(t)
    PROVE  Preserved
<1>1. Typed(t)
  BY DEF Fresh, Released
<1>2. Fresh(State)' \/ Released(State)'
  BY <1>1, Installed
<1>3. ~Held(t)
  BY DEF Fresh, Released, Held, Base, Living
<1>4. ~Held(State)'
  BY <1>1, <1>3, Installed
<1> QED BY <1>2, <1>4 DEF Preserved, PppInv, TimedInv

(* The phase in which a call can be at the head of the queue.              *)
LEMMA HeadPhase ==
    ASSUME PppInv, NEW c \in Call, Calls(c)
    PROVE  /\ ses.calls \in Seq(Call) /\ ses.calls # <<>> /\ ses.calls[1] = c
           /\ Len(ses.calls) \in Nat /\ Len(ses.calls) > 0
           /\ Queued(State, c)
           /\ c = "connect" => Fresh(State)
           /\ c \in {"lcpFinished", "authStarted"} => Held(State)
           /\ c = "disconnect" => Held(State) \/ Released(State)
<1>1. ses \in Ses
  BY OnlyWhenHeld
<1>2. ses.calls \in Seq(Call) /\ ses.calls # <<>>
  BY <1>1 DEF Ses, Calls
<1>3. Len(ses.calls) \in Nat /\ Len(ses.calls) > 0 /\ ses.calls[1] = c
  BY <1>2 DEF Calls
<1>4. Queued(State, c)
  BY <1>3, StateFields DEF Queued
<1>5. Fresh(State) => c = "connect"
  BY <1>3, StateFields DEF Fresh, Calls
<1>6. Held(State) => c # "connect"
  BY <1>4 DEF Held, Base, Living
<1>7. Released(State) => c = "disconnect"
  BY <1>3, StateFields DEF Released, Silenced
<1> QED BY <1>2, <1>3, <1>4, <1>5, <1>6, <1>7 DEF PppInv, Call

LEMMA PoppedFields ==
    ASSUME Typed(State), ses.calls # <<>>
    PROVE  /\ Typed(Popped) /\ Popped.fsm = fsm /\ Popped.ld = ld
           /\ Popped.ses = [ses EXCEPT !.calls = Tail(ses.calls)]
           /\ Popped.ses.calls = Tail(ses.calls)
           /\ \A c : Queued(Popped, c) => Queued(State, c)
           /\ \A i \in 1..Len(Popped.ses.calls) :
                 /\ Popped.ses.calls[i] = ses.calls[i + 1]
                 /\ i + 1 \in 2..Len(ses.calls)
<1> DEFINE x == [ses EXCEPT !.calls = Tail(ses.calls)]
<1>1. ses \in Ses /\ ses.calls \in Seq(Call)
  BY StateFields, TypedFields DEF Ses
<1>2. PICK q : q = Tail(ses.calls)
  OBVIOUS
<1>3. /\ q \in Seq(Call) /\ Len(ses.calls) \in Nat
      /\ Len(q) = Len(ses.calls) - 1
      /\ \A i \in 1..Len(q) : q[i] = ses.calls[i + 1]
  BY <1>1, <1>2
<1>4. x \in Ses /\ x.conf = ses.conf /\ x.calls = q
  BY <1>1, <1>2, <1>3 DEF Ses
<1>5. Popped = [State EXCEPT !.ses = x]
  BY DEF Popped, State
<1> HIDE DEF x
<1>6. Typed(Popped) /\ Popped.fsm = fsm /\ Popped.ld = ld /\ Popped.ses = x
  BY <1>4, <1>5, StateFields, NewSes
<1>7. \A i \in 1..Len(q) : q[i] = ses.calls[i + 1] /\ i + 1 \in 2..Len(ses.calls)
  BY <1>3
<1>8. ASSUME NEW c, Queued(Popped, c) PROVE Queued(State, c)
  <2>1. PICK i \in 1..Len(q) : q[i] = c
    BY <1>4, <1>6, <1>8 DEF Queued
  <2>2. i + 1 \in 1..Len(ses.calls) /\ ses.calls[i + 1] = c
    BY <1>3, <1>7, <2>1
  <2> QED BY <2>2, StateFields DEF Queued
<1> QED BY <1>2, <1>4, <1>6, <1>7, <1>8 DEF x

LEMMA PoppedSes ==
    ASSUME ses \in Ses, Popped.ses = [ses EXCEPT !.calls = Tail(ses.calls)]
    PROVE  LET y == Popped.ses
           IN  /\ y.bad = ses.bad /\ y.freed = ses.freed
               /\ y.finished = ses.finished /\ y.gone = ses.gone
               /\ y.state = ses.state /\ y.terminating = ses.terminating
               /\ y.linked = ses.linked /\ y.auth = ses.auth
               /\ y.query = ses.query /\ y.timer = ses.timer
               /\ y.echo = ses.echo /\ y.authTimer = ses.authTimer
               /\ y.conf = ses.conf
BY DEF Ses

(* A call is taken off the queue of a held session.                        *)
LEMMA PoppedHeld ==
    ASSUME Held(State), ses.calls # <<>>
    PROVE  /\ Held(Popped) /\ (Timed(State) => Timed(Popped))
           /\ Popped.ses.terminating = ses.terminating
           /\ Popped.ses.auth = ses.auth
           /\ Popped.ses.freed = ses.freed
           /\ Popped.ld = ld
<1>1. Typed(State) /\ OnlyLink(State)
  BY DEF Held, Base
<1>2. ses \in Ses
  BY <1>1, StateFields, TypedFields
<1>3. /\ Typed(Popped) /\ Popped.fsm = fsm /\ Popped.ld = ld
      /\ Popped.ses = [ses EXCEPT !.calls = Tail(ses.calls)]
      /\ \A c : Queued(Popped, c) => Queued(State, c)
  BY <1>1, PoppedFields
<1>4. PICK y : y = Popped.ses
  OBVIOUS
<1>5. /\ y.bad = ses.bad /\ y.freed = ses.freed
      /\ y.finished = ses.finished /\ y.gone = ses.gone
      /\ y.state = ses.state /\ y.terminating = ses.terminating
      /\ y.linked = ses.linked /\ y.auth = ses.auth
      /\ y.query = ses.query
  BY <1>2, <1>3, <1>4, PoppedSes
<1>6. y.query => y.auth = "active"
  BY <1>1, <1>5, StateFields DEF OnlyLink
<1>7. Held(Popped) /\ (Timed(State) => Timed(Popped))
  BY <1>3, <1>4, <1>5, <1>6, StateFields, HeldAuth
<1> QED BY <1>3, <1>4, <1>5, <1>7

LEMMA NewLayerFields ==
    ASSUME NEW d
    PROVE  LET r == NewLayer(d)
           IN  /\ ~r.begun /\ ~r.up /\ ~r.started /\ ~r.finished
               /\ r.addr <=> d = "ccp"
               /\ r.passive => Mode[d] \in {"allow", "deny"}
<1>1. PICK r : r = NewLayer(d)
  OBVIOUS
<1>2. /\ r.begun = FALSE /\ r.up = FALSE /\ r.started = FALSE
      /\ r.finished = FALSE
  BY <1>1 DEF NewLayer
<1>3. r.addr = (d = "ccp")
  BY <1>1 DEF NewLayer
<1>4. r.passive = (d \in Ncp /\ Mode[d] \in {"allow", "deny"})
  BY <1>1 DEF NewLayer
<1> QED BY <1>1, <1>2, <1>3, <1>4

(* establish_ppp fails: there is no timer that would keep the context.     *)
LEMMA ConnectFails ==
    ASSUME PppInv, Calls("connect"), Becomes(Unregister(Popped))
    PROVE  Preserved
<1>1. Fresh(State) /\ Typed(State) /\ ses \in Ses /\ ses.calls # <<>>
  BY HeadPhase, OnlyWhenHeld DEF Call
<1>2. /\ Typed(Popped) /\ Popped.fsm = fsm /\ Popped.ld = ld
      /\ Popped.ses = [ses EXCEPT !.calls = Tail(ses.calls)]
  BY <1>1, PoppedFields
<1>3. PICK y : y = Popped.ses
  OBVIOUS
<1>4. /\ y \in Ses /\ y.bad = ses.bad /\ y.freed = ses.freed
      /\ y.finished = ses.finished /\ y.terminating = ses.terminating
      /\ y.linked = ses.linked /\ y.auth = ses.auth /\ y.state = ses.state
      /\ y.query = ses.query /\ y.conf = ses.conf /\ y.echo = ses.echo
      /\ y.timer = ses.timer /\ y.authTimer = ses.authTimer
  BY <1>1, <1>2, <1>3, PoppedSes, TypedFields
<1>5. ~Armed(Popped)
  <2>1. \A l \in Automaton : ~fsm[l].timer
    BY <1>1, StateFields DEF Fresh, NewFsm
  <2>2. \A d \in Layer : ~ld[d].timeout
    BY <1>1, StateFields DEF Fresh, NewLayer
  <2> QED BY <1>1, <1>2, <1>3, <1>4, <2>1, <2>2, StateFields DEF Armed, Fresh
<1> DEFINE x == [y EXCEPT !.calls = <<>>, !.gone = TRUE]
<1>6. PICK e : e = <<>> /\ e \in Seq(Call) /\ Len(e) = 0
  <2>1. <<>> \in Seq(Call) /\ Len(<<>>) = 0
    OBVIOUS
  <2> QED BY <2>1, Zenon
<1>7. /\ x \in Ses /\ x.conf = y.conf /\ x.gone /\ x.calls = e
      /\ x.bad = y.bad /\ x.freed = y.freed /\ x.finished = y.finished
      /\ x.terminating = y.terminating /\ x.linked = y.linked
      /\ x.auth = y.auth /\ x.state = y.state /\ x.query = y.query
      /\ x.echo = y.echo /\ x.timer = y.timer /\ x.authTimer = y.authTimer
  <2>1. x = [y EXCEPT !.calls = e, !.gone = TRUE]
    BY <1>6
  <2> QED BY <1>4, <1>6, <2>1 DEF Ses
<1>8. PICK t : t = [Popped EXCEPT !.ses = x]
  OBVIOUS
<1>9. Unregister(Popped) = t
  <2>1. PICK b : b = ~Armed(Popped)
    OBVIOUS
  <2>2. Unregister(Popped) = [Popped EXCEPT !.ses.calls = <<>>, !.ses.gone = b]
    BY <2>1, Zenon DEF Unregister
  <2>3. b = TRUE
    BY <1>5, <2>1
  <2> QED BY <1>2, <1>3, <1>8, <2>2, <2>3 DEF Typed, PppState
<1> HIDE DEF x
<1>10. Typed(t) /\ t.fsm = fsm /\ t.ld = ld /\ t.ses = x
  <2>1. x \in Ses /\ x.conf = Popped.ses.conf
    BY <1>3, <1>7
  <2> QED BY <1>2, <1>8, <2>1, NewSes
<1>11. Fresh(t)
  <2>1. \A i \in 2..Len(t.ses.calls) : t.ses.calls[i] = "disconnect"
    BY <1>6, <1>7, <1>10
  <2> QED BY <1>1, <1>4, <1>6, <1>7, <1>10, <2>1, StateFields DEF Fresh
<1> QED BY <1>9, <1>11, QuietStep

(* connect_channel: the session begins and is held by LCP.                 *)
LEMMA ConnectStep ==
    ASSUME PppInv, Connect, ~Becomes(Unregister(Popped))
    PROVE  Preserved
<1>1. /\ Fresh(State) /\ Typed(State) /\ ses \in Ses /\ ses.calls # <<>>
      /\ ses.calls \in Seq(Call) /\ Len(ses.calls) \in Nat
      /\ ~ses.gone
  BY HeadPhase, OnlyWhenHeld DEF Connect, Call, Calls
<1>2. /\ Typed(Popped) /\ Popped.fsm = fsm /\ Popped.ld = ld
      /\ Popped.ses = [ses EXCEPT !.calls = Tail(ses.calls)]
      /\ \A i \in 1..Len(Popped.ses.calls) :
            /\ Popped.ses.calls[i] = ses.calls[i + 1]
            /\ i + 1 \in 2..Len(ses.calls)
  BY <1>1, PoppedFields
<1>3. PICK y : y = Popped.ses
  OBVIOUS
<1>4. /\ y.bad = ses.bad /\ y.freed = ses.freed
      /\ y.finished = ses.finished /\ y.gone = ses.gone
      /\ y.terminating = ses.terminating /\ y.auth = ses.auth
      /\ y.query = ses.query /\ y.conf = ses.conf
  BY <1>1, <1>2, <1>3, PoppedSes
<1>5. \A i \in 1..Len(y.calls) : y.calls[i] = "disconnect"
  BY <1>1, <1>2, <1>3, StateFields DEF Fresh
<1> DEFINE x == [y EXCEPT !.state = "starting", !.linked = TRUE]
           k == [ld["lcp"] EXCEPT !.starting = TRUE]
<1>6. y \in Ses
  BY <1>2, <1>3, TypedFields
<1>7. /\ x \in Ses /\ x.conf = y.conf /\ x.state = "starting" /\ x.linked
      /\ x.bad = y.bad /\ x.freed = y.freed /\ x.finished = y.finished
      /\ x.gone = y.gone /\ x.terminating = y.terminating
      /\ x.auth = y.auth /\ x.query = y.query /\ x.calls = y.calls
  BY <1>6 DEF Ses
<1>8. /\ "lcp" \in Layer /\ "auth" \in Layer /\ "lcp" \in Automaton
      /\ \A n \in Ncp : /\ n \in Layer /\ n \in Automaton /\ n # "lcp"
                        /\ n # "auth"
  BY <1>1, Names
<1>9. /\ \A d \in Layer : ld[d] = NewLayer(d)
      /\ \A l \in Automaton : fsm[l] = NewFsm
  BY <1>1, StateFields DEF Fresh
<1>10. ld["lcp"] \in Flags /\ ~ld["lcp"].finished /\ ~ld["lcp"].up
  <2>1. ld["lcp"] \in Flags
    BY <1>1, <1>8, StateFields, TypedFields
  <2> QED BY <1>8, <1>9, <2>1, NewLayerFields
<1>11. k \in Flags /\ k.starting /\ ~k.finished /\ ~k.up
  BY <1>10 DEF Flags
<1>12. PICK u : u = [Popped EXCEPT !.ses = x]
  OBVIOUS
<1>13. PICK w : w = Set(u, "lcp", k)
  OBVIOUS
<1>14. /\ Typed(u) /\ u.fsm = fsm /\ u.ld = ld /\ u.ses = x
  <2> HIDE DEF x, k
  <2>1. x \in Ses /\ x.conf = Popped.ses.conf
    BY <1>3, <1>7
  <2> QED BY <1>2, <1>12, <2>1, NewSes
<1>15. w = [Popped EXCEPT !.ses.state = "starting", !.ses.linked = TRUE,
                          !.ld["lcp"].starting = TRUE]
  <2>1. u = [Popped EXCEPT !.ses.state = "starting", !.ses.linked = TRUE]
    BY <1>2, <1>3, <1>12 DEF Typed, PppState
  <2>2. w = [u EXCEPT !.ld["lcp"] = k]
    BY <1>1, <1>4, <1>7, <1>13, <1>14, StateFields DEF Set, Fresh
  <2> HIDE DEF x
  <2>3. k = [Popped.ld["lcp"] EXCEPT !.starting = TRUE]
    BY <1>2
  <2> HIDE DEF k
  <2> QED BY <1>2, <2>1, <2>2, <2>3 DEF Typed, PppState
<1>16. PICK f : f = Open("lcp", LowerUp(fsm["lcp"], "ok"), "ok")
  OBVIOUS
<1>17. f \in Fsm /\ f.state = "Req_Sent" /\ f.timer
  <2>1. fsm["lcp"] \in Fsm /\ fsm["lcp"].state = "Initial"
    <3>1. fsm["lcp"] \in Fsm
      BY <1>1, <1>8, StateFields, TypedFields
    <3> QED BY <1>8, <1>9, <3>1 DEF NewFsm
  <2>2. PICK g : g = LowerUp(fsm["lcp"], "ok")
    OBVIOUS
  <2>3. g \in Fsm /\ g.state = "Closed"
    BY <2>1, <2>2, LowerUpType
  <2> QED BY <1>16, <2>2, <2>3, OpenType
<1>18. PICK t : t = Put(w, "lcp", f)
  OBVIOUS
<1>19. Becomes(t)
  BY <1>15, <1>16, <1>18, Zenon DEF Connect
<1> HIDE DEF x, k
<1>20. /\ Typed(w) /\ w.ses = x /\ w.fsm = fsm /\ w.ld["lcp"] = k
       /\ \A d \in Layer \ {"lcp"} : w.ld[d] = ld[d]
  BY <1>1, <1>4, <1>7, <1>8, <1>11, <1>13, <1>14, StateFields, SetFields
     DEF Fresh
<1>21. /\ Typed(t) /\ t.ses = x /\ t.fsm["lcp"] = f /\ t.ld = w.ld
       /\ \A l \in Automaton \ {"lcp"} : t.fsm[l] = fsm[l]
  BY <1>1, <1>4, <1>7, <1>8, <1>17, <1>18, <1>20, StateFields, PutFields
     DEF Fresh
<1>22. \A c : Queued(t, c) => c = "disconnect"
  BY <1>5, <1>7, <1>21 DEF Queued
<1>23. Living(t)
  BY <1>1, <1>4, <1>7, <1>21, <1>22, StateFields DEF Fresh, Living
<1>24. LinkHeld(t) /\ OnlyLink(t)
  BY <1>1, <1>4, <1>7, <1>11, <1>17, <1>20, <1>21, <1>22, StateFields
     DEF Fresh, LinkHeld, OnlyLink
<1>25. ~t.ld["auth"].started
  BY <1>8, <1>9, <1>20, <1>21, NewLayerFields
<1>26. Authentic(t) /\ Carrying(t)
  BY <1>1, <1>4, <1>7, <1>21, <1>22, <1>25, StateFields
     DEF Fresh, Authentic, Carrying
<1>27. ASSUME NEW n \in Ncp PROVE NcpSound(t, n)
  <2>1. t.ld[n] = NewLayer(n) /\ t.fsm[n] = NewFsm
    BY <1>8, <1>9, <1>20, <1>21
  <2>2. t.fsm[n].state = "Initial"
    BY <2>1 DEF NewFsm
  <2> QED BY <2>1, <2>2, NewLayerFields DEF NcpSound
<1>28. Held(t)
  BY <1>7, <1>21, <1>23, <1>24, <1>26, <1>27 DEF Held, Base, Network
<1>29. Timed(t)
  BY <1>11, <1>17, <1>20, <1>21 DEF Timed
<1>30. Held(State)' /\ Timed(State)'
  BY <1>19, <1>21, <1>28, <1>29, Installed
<1> QED BY <1>30 DEF Preserved, PppInv, TimedInv

LEMMA RunLcpFinishedStep ==
    ASSUME PppInv, RunLcpFinished
    PROVE  Preserved
<1>1. Held(State) /\ ses.calls # <<>> /\ Queued(State, "lcpFinished")
  BY HeadPhase DEF RunLcpFinished, Call
<1>2. ses.terminating
  BY <1>1, StateFields DEF Held, Base, OnlyLink
<1>3. Held(Popped) /\ Popped.ses.terminating
  BY <1>1, <1>2, PoppedHeld
<1>4. Released(LayerFinished(Popped, "lcp"))
  BY <1>3, LastLayerFinished DEF Held
<1> QED BY <1>4, QuietStep DEF RunLcpFinished

LEMMA RunAuthStartedStep ==
    ASSUME PppInv, NEW env, RunAuthStarted(env)
    PROVE  Preserved
<1>1. Held(State) /\ ses.calls # <<>> /\ Queued(State, "authStarted")
  BY HeadPhase DEF RunAuthStarted, Call
<1>2. /\ Held(Popped) /\ (Timed(State) => Timed(Popped))
      /\ Popped.ses.terminating = ses.terminating
      /\ Popped.ses.auth = ses.auth /\ Popped.ld = ld
  BY <1>1, PoppedHeld
<1>3. ~ses.freed
  BY <1>1, StateFields DEF Held, Base, Living
<1>4. CASE ses.terminating
  <2>1. Becomes(Popped)
    BY <1>4 DEF RunAuthStarted
  <2> QED BY <1>1, <1>2, <2>1, SettledStep DEF Settled, Preserved
<1>5. CASE ~ses.terminating
  <2>1. ses.auth = "acked" /\ ld["lcp"].up
    BY <1>1, <1>5, StateFields DEF Held, Network, Authentic
  <2>2. PICK t : t = AuthStarted(Popped, env)
    OBVIOUS
  <2>3. Held(t) /\ (Timed(Popped) => Timed(t))
    BY <1>2, <1>5, <2>1, <2>2, AuthStartedHeld
  <2>4. Becomes(t)
    BY <1>3, <1>5, <2>2 DEF RunAuthStarted
  <2>5. Settled(State, t)
    BY <1>2, <2>3 DEF Settled
  <2> QED BY <1>1, <2>4, <2>5, SettledStep DEF Preserved
<1> QED BY <1>4, <1>5

(* The connection's context is unregistered: its calls are dropped.        *)
LEMMA Unregistered ==
    ASSUME NEW s, Gone(s)
    PROVE  Released(Unregister([s EXCEPT !.ses.bad = @ \/ ~s.ses.freed]))
<1> DEFINE x == [s.ses EXCEPT !.calls = <<>>, !.gone = TRUE]
<1>1. Typed(s) /\ s.ses \in Ses /\ s.ses.freed /\ ~s.ses.bad
  BY TypedFields DEF Gone
<1>0. PICK e : e = <<>> /\ e \in Seq(Call)
  <2>1. <<>> \in Seq(Call)
    OBVIOUS
  <2> QED BY <2>1, Zenon
<1>2. /\ x \in Ses /\ x.conf = s.ses.conf /\ x.gone /\ x.calls = <<>>
      /\ x.bad = s.ses.bad /\ x.freed = s.ses.freed
      /\ x.finished = s.ses.finished /\ x.linked = s.ses.linked
      /\ x.terminating = s.ses.terminating /\ x.state = s.ses.state
      /\ x.echo = s.ses.echo /\ x.authTimer = s.ses.authTimer
      /\ x.timer = s.ses.timer /\ x.query = s.ses.query
  <2>1. x = [s.ses EXCEPT !.calls = e, !.gone = TRUE]
    BY <1>0
  <2> QED BY <1>0, <1>1, <2>1 DEF Ses
<1>3. PICK t : t = [s EXCEPT !.ses = x]
  OBVIOUS
<1>4. t = Unregister([s EXCEPT !.ses.bad = @ \/ ~s.ses.freed])
  <2>1. s.ses.bad \in BOOLEAN
    BY <1>1 DEF Ses
  <2>2. (s.ses.bad \/ ~s.ses.freed) = s.ses.bad
    BY <1>1, <2>1
  <2>3. s = [s EXCEPT !.ses.bad = @ \/ ~s.ses.freed]
    <3>1. [s.ses EXCEPT !.bad = s.ses.bad] = s.ses
      BY <1>1 DEF Ses
    <3> QED BY <1>1, <2>2, <3>1 DEF Typed, PppState
  <2>4. ~Armed(s)
    BY DEF Gone, Silenced, Armed
  <2>5. PICK b : b = ~Armed(s)
    OBVIOUS
  <2>6. Unregister(s) = [s EXCEPT !.ses.calls = <<>>, !.ses.gone = b]
    BY <2>5, Zenon DEF Unregister
  <2>7. b = TRUE
    BY <2>4, <2>5
  <2>8. Unregister(s) = t
    BY <1>1, <1>3, <2>6, <2>7 DEF Typed, PppState
  <2>9. PICK u : u = [s EXCEPT !.ses.bad = @ \/ ~s.ses.freed]
    OBVIOUS
  <2> QED BY <2>3, <2>8, <2>9, Zenon
<1> HIDE DEF x
<1>5. Typed(t) /\ t.fsm = s.fsm /\ t.ld = s.ld /\ t.ses = x
  BY <1>1, <1>2, <1>3, NewSes
<1>6. Silenced(t)
  BY <1>2, <1>5 DEF Gone, Silenced
<1>7. Released(t)
  BY <1>2, <1>5, <1>6 DEF Gone, Released
<1> QED BY <1>4, <1>7

LEMMA DisconnectStep ==
    ASSUME PppInv, Disconnect
    PROVE  Preserved
<1>1. Typed(State) /\ ses \in Ses /\ ses.calls # <<>>
  BY HeadPhase, OnlyWhenHeld DEF Disconnect, Call
<1>2. Held(State) \/ Released(State)
  BY HeadPhase DEF Disconnect, Call
<1>3. PICK s : s = IF ses.linked
                   THEN Terminate([Popped EXCEPT !.ses.linked = FALSE], TRUE)
                   ELSE Popped
  OBVIOUS
<1>4. Becomes(Unregister([s EXCEPT !.ses.bad = @ \/ ~s.ses.freed]))
  BY <1>3, Zenon DEF Disconnect
<1>5. Gone(s)
  <2>1. CASE Held(State)
    <3> DEFINE x == [Popped.ses EXCEPT !.linked = FALSE]
    <3>1. Held(Popped) /\ ses.linked
      BY <1>1, <2>1, PoppedHeld, StateFields DEF Held
    <3>2. Typed(Popped) /\ Living(Popped) /\ Popped.ses \in Ses
      BY <3>1, TypedFields DEF Held, Base
    <3>3. /\ x \in Ses /\ x.conf = Popped.ses.conf
          /\ x.bad = Popped.ses.bad /\ x.freed = Popped.ses.freed
          /\ x.finished = Popped.ses.finished /\ x.gone = Popped.ses.gone
          /\ x.state = Popped.ses.state /\ x.calls = Popped.ses.calls
          /\ x.terminating = Popped.ses.terminating
      BY <3>2 DEF Ses
    <3>4. PICK u : u = [Popped EXCEPT !.ses = x]
      OBVIOUS
    <3>5. u = [Popped EXCEPT !.ses.linked = FALSE]
      BY <3>2, <3>4 DEF Typed, PppState
    <3> HIDE DEF x
    <3>6. Typed(u) /\ u.ses = x
      BY <3>2, <3>3, <3>4, NewSes
    <3>7. Living(u)
      BY <3>2, <3>3, <3>6 DEF Living, Queued
    <3>8. s = Terminate(u, TRUE)
      BY <1>3, <3>1, <3>5
    <3> QED BY <3>6, <3>7, <3>8, TerminateHard
  <2>2. CASE Released(State)
    <3>1. s = Popped
      BY <1>3, <2>2, StateFields DEF Released
    <3>2. /\ Typed(Popped) /\ Popped.fsm = fsm /\ Popped.ld = ld
          /\ Popped.ses = [ses EXCEPT !.calls = Tail(ses.calls)]
          /\ \A i \in 1..Len(Popped.ses.calls) :
                /\ Popped.ses.calls[i] = ses.calls[i + 1]
                /\ i + 1 \in 2..Len(ses.calls)
      BY <1>1, PoppedFields
    <3>3. PICK y : y = Popped.ses
      OBVIOUS
    <3>4. /\ y.bad = ses.bad /\ y.freed = ses.freed
          /\ y.finished = ses.finished /\ y.linked = ses.linked
          /\ y.terminating = ses.terminating /\ y.state = ses.state
          /\ y.query = ses.query /\ y.timer = ses.timer
          /\ y.echo = ses.echo /\ y.authTimer = ses.authTimer
      BY <1>1, <3>2, <3>3, PoppedSes
    <3>5. \A i \in 1..Len(y.calls) : y.calls[i] = "disconnect"
      <4>1. \A i \in 1..Len(ses.calls) : ses.calls[i] = "disconnect"
        BY <2>2, StateFields DEF Released, Silenced
      <4>2. \A j \in 2..Len(ses.calls) : j \in 1..Len(ses.calls)
        OBVIOUS
      <4> QED BY <3>2, <3>3, <4>1, <4>2
    <3>6. Silenced(Popped)
      BY <2>2, <3>2, <3>3, <3>4, <3>5, StateFields DEF Released, Silenced
    <3> QED BY <2>2, <3>1, <3>2, <3>3, <3>4, <3>6, StateFields
            DEF Released, Gone
  <2> QED BY <1>2, <2>1, <2>2
<1>6. Released(Unregister([s EXCEPT !.ses.bad = @ \/ ~s.ses.freed]))
  BY <1>5, Unregistered
<1> QED BY <1>4, <1>6, QuietStep

LEMMA RecvPadtStep ==
    ASSUME PppInv, RecvPadt
    PROVE  Preserved
<1>1. Typed(State) /\ ses \in Ses /\ ~ses.gone
  BY OnlyWhenHeld DEF RecvPadt
<1>2. PICK t : t = Post(State, "disconnect")
  OBVIOUS
<1>3. Becomes(t)
  BY <1>2 DEF RecvPadt
<1>4. /\ Typed(t) /\ t.fsm = fsm /\ t.ld = ld
      /\ t.ses = [ses EXCEPT !.calls = Append(ses.calls, "disconnect")]
      /\ \A c : Queued(t, c) <=> Queued(State, c) \/ c = "disconnect"
  BY <1>1, <1>2, StateFields, PostFields DEF Call
<1>5. /\ t.ses.bad = ses.bad /\ t.ses.freed = ses.freed
      /\ t.ses.finished = ses.finished /\ t.ses.gone = ses.gone
      /\ t.ses.state = ses.state /\ t.ses.terminating = ses.terminating
      /\ t.ses.linked = ses.linked /\ t.ses.auth = ses.auth
      /\ t.ses.query = ses.query /\ t.ses.timer = ses.timer
      /\ t.ses.echo = ses.echo /\ t.ses.authTimer = ses.authTimer
  BY <1>1, <1>4 DEF Ses
<1>6. /\ t.ses.calls = Append(ses.calls, "disconnect")
      /\ ses.calls \in Seq(Call)
  BY <1>1, <1>4 DEF Ses
<1>7. /\ Len(ses.calls) \in Nat /\ Len(t.ses.calls) = Len(ses.calls) + 1
      /\ \A i \in 1..Len(ses.calls) : t.ses.calls[i] = ses.calls[i]
      /\ t.ses.calls[Len(ses.calls) + 1] = "disconnect"
  BY <1>6 DEF Call
<1>8. CASE Fresh(State)
  <2>1. Len(ses.calls) > 0
    BY <1>1, <1>6, <1>8, StateFields DEF Fresh
  <2>2. t.ses.calls # <<>>
    BY <1>7
  <2>3. t.ses.calls[1] = "connect"
    BY <1>1, <1>7, <1>8, <2>1, StateFields DEF Fresh
  <2>4. ASSUME NEW i \in 2..Len(t.ses.calls)
        PROVE  t.ses.calls[i] = "disconnect"
    <3>1. \A j \in 2..Len(ses.calls) : ses.calls[j] = "disconnect"
      BY <1>8, StateFields DEF Fresh
    <3>2. CASE i = Len(ses.calls) + 1
      BY <1>7, <3>2
    <3>3. CASE i # Len(ses.calls) + 1
      <4>1. i \in 2..Len(ses.calls) /\ i \in 1..Len(ses.calls)
        BY <1>7, <3>3
      <4> QED BY <1>7, <3>1, <4>1
    <3> QED BY <3>2, <3>3
  <2>5. Fresh(t)
    BY <1>1, <1>4, <1>5, <1>8, <2>2, <2>3, <2>4, StateFields DEF Fresh
  <2> QED BY <1>3, <2>5, QuietStep
<1>9. CASE Held(State)
  <2>1. t.ses.query => t.ses.auth = "active"
    BY <1>5, <1>9, StateFields DEF Held, Base, OnlyLink
  <2>2. Held(t) /\ (Timed(State) => Timed(t))
    BY <1>4, <1>5, <1>9, <2>1, StateFields, HeldAuth
  <2> QED BY <1>3, <1>9, <2>2, SettledStep DEF Settled, Preserved
<1>10. CASE Released(State)
  <2>1. \A i \in 1..Len(t.ses.calls) : t.ses.calls[i] = "disconnect"
    BY <1>7, <1>10, StateFields DEF Released, Silenced
  <2>2. Silenced(t)
    BY <1>4, <1>5, <1>10, <2>1, StateFields DEF Released, Silenced
  <2>3. Released(t)
    BY <1>4, <1>5, <1>10, <2>2, StateFields DEF Released
  <2> QED BY <1>3, <2>3, QuietStep
<1> QED BY <1>8, <1>9, <1>10 DEF PppInv

-----------------------------------------------------------------------------
(* The specification.                                                      *)

LEMMA InitFresh ==
    Init => PppInv /\ TimedInv
<1> SUFFICES ASSUME Init PROVE PppInv /\ TimedInv
  OBVIOUS
<1>1. PICK c \in PppConfs :
         ses = [state |-> "none", terminating |-> FALSE, finished |-> FALSE,
                down |-> FALSE, timer |-> FALSE, echo |-> FALSE, echoSent |-> 0,
                auth |-> "off", authTimer |-> FALSE, query |-> FALSE,
                calls |-> <<"connect">>, linked |-> FALSE, freed |-> FALSE,
                gone |-> FALSE, silent |-> FALSE, bad |-> FALSE, conf |-> c]
  BY DEF Init
<1>2. <<"connect">> \in Seq(Call) /\ Len(<<"connect">>) = 1
  BY DEF Call
<1>3. 0 \in 0..(EchoFailure + 1)
  BY PppAssumption
<1>4. ses \in Ses
  BY <1>1, <1>2, <1>3 DEF Ses
<1>5. NewFsm \in Fsm
  BY CounterBounds DEF NewFsm, Fsm
<1>6. fsm \in [Automaton -> Fsm]
  BY <1>5 DEF Init
<1>7. \A d : NewLayer(d) \in Flags
  BY DEF NewLayer, Flags
<1>8. ld \in [Layer -> Flags]
  BY <1>7 DEF Init
<1>9. Typed(State)
  BY <1>4, <1>6, <1>8 DEF Typed, PppState, State
<1>10. Fresh(State)
  BY <1>1, <1>2, <1>9, StateFields DEF Fresh, Init
<1>11. ~Held(State)
  BY <1>10 DEF Fresh, Held, Base, Living
<1> QED BY <1>10, <1>11 DEF PppInv, TimedInv

LEMMA NextPreserves ==
    ASSUME PppInv, Next
    PROVE  Preserved
<1>1. CASE LcpPacket
  BY <1>1, LcpConfReqStep, LcpConfAckStep, LcpConfNakStep, LcpBadAnswerStep,
     LcpTermReqStep, LcpTermAckStep, LcpCodeRejStep, LcpEchoStep,
     LcpProtoRejStep DEF LcpPacket
<1>2. ASSUME NEW n \in Ncp, NEW env, NcpPacket(n, env) PROVE Preserved
  BY <1>2, NcpConfReqStep, NcpNoAddressStep, NcpConfAckStep, NcpConfNakStep,
     NcpBadAnswerStep, NcpTermReqStep, NcpTermAckStep, NcpCodeRejStep
     DEF NcpPacket
<1>3. CASE PeerPacket
  BY <1>1, <1>2, <1>3, AuthRequestStep, RecvPadtStep, PeerVanishesStep
     DEF PeerPacket
<1>4. CASE RunCall
  <2>1. CASE Connect
    <3>1. CASE Becomes(Unregister(Popped))
      BY <2>1, <3>1, ConnectFails DEF Connect
    <3>2. CASE ~Becomes(Unregister(Popped))
      BY <2>1, <3>2, ConnectStep
    <3> QED BY <3>1, <3>2
  <2>2. CASE RunLcpFinished
    BY <2>2, RunLcpFinishedStep
  <2>3. CASE Disconnect
    BY <2>3, DisconnectStep
  <2>4. ASSUME NEW env \in EnvNow, RunAuthStarted(env) PROVE Preserved
    BY <2>4, RunAuthStartedStep
  <2> QED BY <1>4, <2>1, <2>2, <2>3, <2>4 DEF RunCall
<1>5. CASE RadiusAnswers
  BY <1>5, AuthResultStep DEF RadiusAnswers
<1> QED BY <1>3, <1>4, <1>5, LinkTimerStep, NcpTimerStep, NcpStartTimeoutStep,
        EchoTimerStep, SessionTimerStep, AuthTimeoutStep, AdminTerminateStep
        DEF Next

LEMMA StutterPreserves ==
    ASSUME PppInv, UNCHANGED vars
    PROVE  Preserved
<1>1. Becomes(State)
  BY StateFields DEF vars, Becomes
<1>2. CASE Fresh(State) \/ Released(State)
  BY <1>1, <1>2, QuietStep
<1>3. CASE Held(State)
  BY <1>1, <1>3, SettledStep DEF Settled, Preserved
<1> QED BY <1>2, <1>3 DEF PppInv

(* The life of a session: it is fresh, held by LCP or released, whatever   *)
(* the peer sends, the timers, the administrator and the radius client do. *)
THEOREM PppPhases == Spec => []PppInv
<1>1. Init => PppInv
  BY InitFresh
<1>2. PppInv /\ [Next]_vars => PppInv'
  BY NextPreserves, StutterPreserves DEF Preserved
<1> QED BY <1>1, <1>2, PTL DEF Spec

LEMMA PhasesTeardown ==
    ASSUME PppInv
    PROVE  TeardownIsClean
<1>1. Typed(State)
  BY OnlyWhenHeld
<1>2. TypeOK
  BY <1>1, StateFields, TypedFields DEF TypeOK
<1>3. NoUseAfterFree
  BY StateFields DEF PppInv, Fresh, Held, Base, Living, Released, NoUseAfterFree
<1>4. FreedIsQuiet
  BY StateFields
     DEF PppInv, Fresh, Held, Base, Living, Released, Silenced, FreedIsQuiet
<1>5. FinishedIsDisconnected
  BY StateFields
     DEF PppInv, Fresh, Held, Base, Living, Released, Queued,
         FinishedIsDisconnected
<1> QED BY <1>2, <1>3, <1>4, <1>5 DEF TeardownIsClean

LEMMA PhasesNetwork ==
    ASSUME PppInv
    PROVE  AuthBeforeNetwork /\ ActiveCarriesTraffic /\ RequestHasAddress
<1>1. CASE Fresh(State)
  <2>1. \A n \in Ncp : ~ld[n].begun /\ ~ld[n].up /\ fsm[n].state = "Initial"
    <3> SUFFICES ASSUME NEW n \in Ncp
                 PROVE  ~ld[n].begun /\ ~ld[n].up /\ fsm[n].state = "Initial"
      OBVIOUS
    <3>1. n \in Layer /\ n \in Automaton
      BY DEF Layer, Automaton
    <3>2. ld[n] = NewLayer(n) /\ fsm[n] = NewFsm
      BY <1>1, <3>1, StateFields DEF Fresh
    <3>3. fsm[n].state = "Initial"
      BY <3>2 DEF NewFsm
    <3> QED BY <3>2, <3>3, NewLayerFields
  <2>2. ses.state # "active"
    BY <1>1, StateFields DEF Fresh
  <2> QED BY <2>1, <2>2
          DEF AuthBeforeNetwork, ActiveCarriesTraffic, RequestHasAddress
<1>2. CASE Released(State)
  <2>1. ses.terminating /\ ses.state # "active"
    BY <1>2, StateFields DEF Released
  <2> QED BY <2>1
          DEF AuthBeforeNetwork, ActiveCarriesTraffic, RequestHasAddress
<1>3. CASE Held(State) /\ ses.terminating
  <2>1. ses.state # "active"
    BY <1>3, StateFields DEF Held, Base, Living
  <2> QED BY <1>3, <2>1
          DEF AuthBeforeNetwork, ActiveCarriesTraffic, RequestHasAddress
<1>4. CASE Held(State) /\ ~ses.terminating
  <2>1. /\ Authentic(State) /\ Carrying(State)
        /\ \A n \in Ncp : NcpSound(State, n)
    BY <1>4, StateFields DEF Held, Network
  <2>2. \A n \in Ncp : ld[n].begun \/ ld[n].up => ld["auth"].started
    BY <2>1, StateFields DEF NcpSound
  <2>3. ld["auth"].started => ld["lcp"].up /\ (NoAuth \/ ses.auth = "acked")
    BY <2>1, StateFields DEF Authentic
  <2>4. AuthBeforeNetwork
    BY <2>2, <2>3 DEF AuthBeforeNetwork
  <2>5. ActiveCarriesTraffic
    BY <2>1, <2>3, StateFields DEF Carrying, NcpSound, ActiveCarriesTraffic
  <2>6. RequestHasAddress
    BY <2>1, StateFields DEF NcpSound, RequestHasAddress
  <2> QED BY <2>4, <2>5, <2>6
<1> QED BY <1>1, <1>2, <1>3, <1>4 DEF PppInv

(* The end of a session is complete, for every configuration: nothing is   *)
(* used after destroy_ppp_channel freed it, no timer, password check or    *)
(* queued call is left that would reach a freed layer, and the connection  *)
(* of a finished session has its disconnect queued (ppp_terminate,         *)
(* ap_session_finished, pppoe_disconnect).                                 *)
THEOREM PppTeardown == Spec => []TeardownIsClean
BY PppPhases, PhasesTeardown, PTL

(* No handler writes to a layer, or uses an authenticator's data, after it *)
(* was freed, although callbacks terminate the session from inside the     *)
(* handlers of its layers (ppp_layer_started, ppp_fsm, pap_auth_result).   *)
THEOREM PppNoUseAfterFree == Spec => []NoUseAfterFree
<1>1. PppInv => NoUseAfterFree
  BY PhasesTeardown DEF TeardownIsClean
<1> QED BY <1>1, PppPhases, PTL

(* No network protocol begins before the peer is authenticated, unless the *)
(* configuration asks for no authentication (ppp_auth.c,                   *)
(* __ppp_layer_started).                                                   *)
THEOREM PppAuthBeforeNetwork == Spec => []AuthBeforeNetwork
BY PppPhases, PhasesNetwork, PTL

(* A session that ap_session_activate made active has its link, its        *)
(* authentication and a network protocol that carries traffic.             *)
THEOREM PppActiveCarriesTraffic == Spec => []ActiveCarriesTraffic
BY PppPhases, PhasesNetwork, PTL

(* A network protocol that negotiates has an address: send_conf_nak of     *)
(* IPCP and IPV6CP never dereferences a missing one.                       *)
THEOREM PppRequestHasAddress == Spec => []RequestHasAddress
BY PppPhases, PhasesNetwork, PTL

LEMMA TimedRuns ==
    ASSUME PppInv, TimedInv
    PROVE  RestartTimerRuns
<1>1. CASE Fresh(State)
  <2>1. "lcp" \in Automaton
    BY DEF Automaton
  <2>2. fsm["lcp"] = NewFsm
    BY <1>1, <2>1, StateFields DEF Fresh
  <2>3. fsm["lcp"].state = "Initial"
    BY <2>2 DEF NewFsm
  <2> QED BY <2>3 DEF RestartTimerRuns
<1>2. CASE Released(State)
  BY <1>2, StateFields DEF Released, RestartTimerRuns
<1>3. CASE Held(State)
  <2>1. Timed(State)
    BY <1>3 DEF TimedInv
  <2> QED BY <2>1, StateFields DEF Timed, RestartTimerRuns
<1> QED BY <1>1, <1>2, <1>3 DEF PppInv

(* The link never waits for an answer without its restart timer, as long   *)
(* as the peer sends neither a Terminate-Ack nor a Code-Reject: ppp_fsm.c  *)
(* leaves the timer of a link that either of these puts in a waiting state *)
(* stopped.                                                                *)
THEOREM PppRestartTimerRuns == Polite => (Spec => []RestartTimerRuns)
<1> SUFFICES ASSUME Polite PROVE Spec => []RestartTimerRuns
  OBVIOUS
<1>1. Init => PppInv /\ TimedInv
  BY InitFresh
<1>2. (PppInv /\ TimedInv) /\ [Next]_vars => (PppInv /\ TimedInv)'
  BY NextPreserves, StutterPreserves DEF Preserved
<1>3. PppInv /\ TimedInv => RestartTimerRuns
  BY TimedRuns
<1> QED BY <1>1, <1>2, <1>3, PTL DEF Spec
=============================================================================
