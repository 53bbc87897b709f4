------------------------------- MODULE PppFsm -------------------------------
(***************************************************************************)
(* The option negotiation automaton of PPP (micro-bngd/ppp/ppp_fsm.c),     *)
(* shared by LCP, IPCP, IPV6CP and CCP.  One automaton is a record:        *)
(*   state    fsm_state;                                                   *)
(*   timer    restart_timer.tpd # NULL, the restart timer is armed;        *)
(*   counter  restart_counter; only "> 0" is ever tested, so it stops at 0;*)
(*   failure  conf_failure; only "= max_failure" is tested, so it stops at *)
(*            max_failure + 1.                                             *)
(* A handler maps the record to a new one and says which callback of the   *)
(* layer it makes: "up" (layer_up), "finished" (layer_finished) or "none". *)
(* layer_down is applied here, for it stays inside the automaton: LCP's is *)
(* empty and the network protocols' closes the automaton.                  *)
(* snd is what send_conf_req does: "ok", "fail" (returns -1) or "close"    *)
(* (no address left: it closes the automaton through ppp_fsm_close2).      *)
(***************************************************************************)
EXTENDS Integers

CONSTANTS MaxTerminate, MaxConfigure, MaxFailure

ASSUME FsmAssumption ==
    /\ MaxTerminate \in Nat
    /\ MaxConfigure \in Nat \ {0}
    /\ MaxFailure \in Nat \ {0}

FsmState == {"Initial", "Starting", "Closed", "Stopped", "Closing",
             "Stopping", "Req_Sent", "Ack_Rcvd", "Ack_Sent", "Opened"}

Negotiating == {"Req_Sent", "Ack_Rcvd", "Ack_Sent"}

MaxCounter == CHOOSE m \in {MaxTerminate, MaxConfigure, MaxFailure} :
                 \A k \in {MaxTerminate, MaxConfigure, MaxFailure} : k <= m

Fsm == [state: FsmState, timer: BOOLEAN,
        counter: 0..MaxCounter, failure: 0..(MaxFailure + 1)]

NewFsm == [state |-> "Initial", timer |-> FALSE, counter |-> 0, failure |-> 0]

-----------------------------------------------------------------------------
(* Small steps the handlers are made of.                                   *)

Res(f, sig) == [f |-> f, sig |-> sig]

Goto(f, st) == [f EXCEPT !.state = st]

StopTimer(f) == [f EXCEPT !.timer = FALSE]

InitReqCounter(f, n) == [f EXCEPT !.counter = n, !.timer = TRUE]

Count(f) == [f EXCEPT !.counter = IF @ > 0 THEN @ - 1 ELSE 0]

CountFailure(f) ==
    [f EXCEPT !.failure = IF @ > MaxFailure THEN @ ELSE @ + 1]

GivesUp(f) == f.failure = MaxFailure

Close2(f) == Goto(StopTimer(f), "Closed")

\* Mutant: no address left, and the negotiation goes on.
Request_Unchecked(f, snd) == Count(f)

(* Spends one retry and sends a Configure-Request.                         *)
Request(f, snd) == IF snd = "close" THEN Close2(Count(f)) ELSE Count(f)

-----------------------------------------------------------------------------
(* Administrative events.                                                  *)

\* Mutant: the Terminate-Request is sent once, without a timer.
Close_NoTimer(f) ==
    CASE f.state = "Starting" ->
            Res(Goto(StopTimer(f), "Initial"), "finished")
      [] f.state = "Stopped" -> Res(Goto(StopTimer(f), "Closed"), "none")
      [] f.state \in Negotiating \cup {"Stopping", "Opened"} ->
            Res(Goto(f, "Closing"), "none")
      [] OTHER -> Res(f, "none")

Close(f) ==
    CASE f.state = "Starting" ->
            Res(Goto(StopTimer(f), "Initial"), "finished")
      [] f.state = "Stopped" -> Res(Goto(StopTimer(f), "Closed"), "none")
      [] f.state = "Stopping" -> Res(Goto(f, "Closing"), "none")
      [] f.state \in Negotiating \cup {"Opened"} ->
            Res(Goto(InitReqCounter(f, MaxTerminate), "Closing"), "none")
      [] OTHER -> Res(f, "none")

Down(l, f) == IF l = "lcp" THEN f ELSE Close(f).f

LowerDown(l, f) ==
    CASE f.state \in {"Closed", "Closing"} -> Goto(f, "Initial")
      [] f.state \in Negotiating \cup {"Stopped", "Stopping"} ->
            Goto(f, "Starting")
      [] f.state = "Opened" -> Goto(Down(l, f), "Starting")
      [] OTHER -> f

LowerUp(f, snd) ==
    CASE f.state = "Initial" -> Goto(f, "Closed")
      [] f.state = "Starting" ->
            LET g == Request(InitReqCounter(f, MaxConfigure), snd)
            IN  IF snd = "fail" THEN g ELSE Goto(g, "Req_Sent")
      [] OTHER -> f

Open(l, f, snd) ==
    CASE f.state = "Initial" -> Goto(f, "Starting")
      [] f.state = "Closed" ->
            Request(Goto(InitReqCounter(f, MaxConfigure), "Req_Sent"), snd)
      [] f.state \in {"Closing", "Stopping", "Stopped", "Opened"} ->
            LowerUp(LowerDown(l, f), snd)
      [] OTHER -> f

-----------------------------------------------------------------------------
(* The restart timer: a retransmission while retries are left, otherwise   *)
(* the end of the attempt.                                                 *)

Timeout0(f, snd) ==
    CASE f.state \in {"Closing", "Stopping"} -> Res(Count(f), "none")
      [] f.state = "Ack_Rcvd" -> Res(Request(Goto(f, "Req_Sent"), snd), "none")
      [] f.state \in {"Req_Sent", "Ack_Sent"} -> Res(Request(f, snd), "none")
      [] OTHER -> Res(f, "none")

\* Mutant: the last timeout is not reported to the layer.
Timeout1_NotFinished(f) ==
    IF f.state = "Closing" THEN Res(Goto(StopTimer(f), "Closed"), "none")
    ELSE IF f.state \in Negotiating \cup {"Stopping"}
    THEN Res(Goto(StopTimer(f), "Stopped"), "finished")
    ELSE Res(f, "none")

Timeout1(f) ==
    CASE f.state = "Closing" -> Res(Goto(StopTimer(f), "Closed"), "finished")
      [] f.state \in Negotiating \cup {"Stopping"} ->
            Res(Goto(StopTimer(f), "Stopped"), "finished")
      [] OTHER -> Res(f, "none")

Retry(f) == f.counter > 0

RestartTimer(f, snd) == IF Retry(f) THEN Timeout0(f, snd) ELSE Timeout1(f)

-----------------------------------------------------------------------------
(* Packets.  A Configure-Request arrives with the answer the layer's       *)
(* options give it.                                                        *)

(* A stopped automaton is woken by the request and answers it at once.     *)
Reawaken(f, snd) ==
    IF f.state = "Stopped"
    THEN Request(InitReqCounter(f, MaxConfigure), snd)
    ELSE f

(* Renegotiation from Opened: the layer goes down, a new request goes out. *)
Renegotiate(l, f, snd, st) == Goto(Request(Down(l, f), snd), st)

RecvConfReqAck(l, f, snd) ==
    CASE f.state \in {"Stopped", "Req_Sent", "Ack_Sent"} ->
            Res(Goto(Reawaken(f, snd), "Ack_Sent"), "none")
      [] f.state = "Ack_Rcvd" -> Res(StopTimer(f), "up")
      [] f.state = "Opened" -> Res(Renegotiate(l, f, snd, "Ack_Sent"), "none")
      [] OTHER -> Res(f, "none")

RecvConfReqNak(l, f, snd) ==
    CASE f.state \in {"Stopped", "Ack_Sent"} ->
            Res(Goto(Reawaken(f, snd), "Req_Sent"), "none")
      [] f.state \in {"Req_Sent", "Ack_Rcvd"} ->
            LET g == CountFailure(f)
            IN  Res(g, IF GivesUp(g) THEN "finished" ELSE "none")
      [] f.state = "Opened" -> Res(Renegotiate(l, f, snd, "Req_Sent"), "none")
      [] OTHER -> Res(f, "none")

RecvConfReqRej(l, f, snd) ==
    CASE f.state \in {"Stopped", "Ack_Sent"} ->
            LET g == CountFailure(Reawaken(f, snd))
            IN  Res(IF GivesUp(g) THEN Down(l, g) ELSE Goto(g, "Req_Sent"),
                    "none")
      [] OTHER -> RecvConfReqNak(l, f, snd)

RecvConfReq(l, f, snd, verdict) ==
    CASE verdict = "ack" -> RecvConfReqAck(l, f, snd)
      [] verdict = "nak" -> RecvConfReqNak(l, f, snd)
      [] verdict = "rej" -> RecvConfReqRej(l, f, snd)

RecvConfAck(l, f, snd) ==
    CASE f.state = "Req_Sent" -> Res(Goto(f, "Ack_Rcvd"), "none")
      [] f.state = "Ack_Rcvd" -> Res(Goto(Request(f, snd), "Req_Sent"), "none")
      [] f.state = "Ack_Sent" -> Res(StopTimer(f), "up")
      [] f.state = "Opened" -> Res(Renegotiate(l, f, snd, "Req_Sent"), "none")
      [] OTHER -> Res(f, "none")

(* Configure-Nak and Configure-Reject.                                     *)
RecvConfRej(l, f, snd) ==
    CASE f.state \in {"Req_Sent", "Ack_Sent"} ->
            LET g == CountFailure(f)
                n == IF f.state = "Req_Sent" THEN MaxFailure ELSE MaxConfigure
            IN  Res(IF GivesUp(g) THEN Down(l, g)
                                  ELSE Request(InitReqCounter(g, n), snd),
                    "none")
      [] f.state = "Ack_Rcvd" -> Res(Goto(Request(f, snd), "Req_Sent"), "none")
      [] f.state = "Opened" -> Res(Renegotiate(l, f, snd, "Req_Sent"), "none")
      [] OTHER -> Res(f, "none")

RecvTermReq(l, f) ==
    CASE f.state = "Opened" ->
            Goto(InitReqCounter(Down(l, f), 0), "Stopping")
      [] f.state \in Negotiating -> Goto(f, "Req_Sent")
      [] OTHER -> f

RecvTermAck(l, f, snd) ==
    LET g == StopTimer(f)
    IN  CASE f.state = "Closing" -> Res(Goto(g, "Closed"), "finished")
          [] f.state = "Stopping" -> Res(Goto(g, "Stopped"), "finished")
          [] f.state = "Ack_Rcvd" -> Res(Goto(g, "Req_Sent"), "none")
          [] f.state = "Opened" ->
                Res(Renegotiate(l, g, snd, "Req_Sent"), "none")
          [] OTHER -> Res(g, "none")

RecvCodeRej(l, f) ==
    CASE f.state = "Opened" ->
            Res(Goto(Count(Down(l, f)), "Stopping"), "none")
      [] f.state = "Closing" -> Res(Goto(f, "Closed"), "finished")
      [] f.state \in Negotiating \cup {"Stopping"} ->
            Res(Goto(f, "Stopped"), "finished")
      [] OTHER -> Res(f, "none")
=============================================================================
