------------------------------- MODULE Radius -------------------------------
(***************************************************************************)
(* The RADIUS client (micro-bngd/radius): the authentication and           *)
(* accounting requests of the sessions, the servers with their limit of    *)
(* simultaneous requests and their queues, retransmission, failover,       *)
(* Accounting-Stop requests that outlive their session, Accounting-On and  *)
(* -Off, Disconnect and CoA requests, and the reload of the server list.   *)
(*                                                                         *)
(* The C functions are operators on the world w = [ses, req, srv, ...].    *)
(* bad is the set of servers to which no socket can be made during the     *)
(* handler, and contains "build" if a packet cannot be built.  A subscriber *)
(* u has at most one request at a time: first its authentication, then its *)
(* accounting.                                                             *)
(***************************************************************************)
EXTENDS Integers, Sequences, FiniteSets, SequencesExt

CONSTANTS Subs,        \* subscribers
          ServList,    \* the server lines of the configuration, in order
          Backup,      \* the servers marked backup
          Ipv6,        \* the servers with an IPv6 address
          ReqLimit,    \* req-limit
          MaxTry,      \* max-try
          MaxFail,     \* max-fail
          AcctTimeout, \* acct-timeout is not 0
          Scenarios,   \* what may happen besides loss of packets: [bad, dae, reload, on,
                       \* shutdown], servers without a route (or "build"), requests of the DAE client
                       \* ("dm", "coa"), servers a reload removes, servers with acct-on,
                       \* and whether the daemon is being shut down
          NoServ       \* a NULL pointer

VARIABLE rad

Servers == ToSet(ServList)
Acct == {"start", "interim", "stop"}
TypeOf(role) == IF role = "auth" THEN "auth" ELSE "acct"

NoReq == [role |-> "none", serv |-> NoServ, prio |-> 0, try |-> 0, active |-> FALSE,
          queued |-> FALSE, fd |-> FALSE, hnd |-> FALSE, timeout |-> "none", rpd |-> FALSE]

NoPd == [phase |-> "none", terminating |-> FALSE, authenticated |-> FALSE, acct_started |-> FALSE,
         interim |-> FALSE, dm_coa_req |-> "none", calls |-> <<>>]

NewServ == [listed |-> TRUE, failed |-> FALSE, req_cnt |-> 0, queue_cnt |-> 0,
            req_queue |-> <<<<>>, <<>>>>, client_cnt |-> [auth |-> 0, acct |-> 0],
            timeout_cnt |-> 0, starting |-> FALSE, acct_on |-> FALSE, on_try |-> 0,
            need_free |-> FALSE, need_close |-> FALSE, frees |-> 0]

-----------------------------------------------------------------------------
(* Calls.  A request without a session runs in the default context.         *)

Post(w, u, func) == IF w.req[u].rpd THEN [w EXCEPT !.ses[u].calls = Append(@, func)]
                    ELSE [w EXCEPT !.dflt = Append(@, <<func, u>>)]

\* triton_cancel_call drops the calls of the function, whatever their argument.
CancelWakeup(w, u) ==
    IF w.req[u].rpd THEN [w EXCEPT !.ses[u].calls = SelectSeq(@, LAMBDA c : c # "wakeup")]
    ELSE [w EXCEPT !.dflt = SelectSeq(@, LAMBDA c : c[1] # "wakeup")]

-----------------------------------------------------------------------------
(* Servers (serv.c). *)

\* The first IPv6 server (its IPv4 address is 0, as the one asked for), else
\* the least loaded of the first class.
Choose(w, usable, v6) ==
    LET Load(s) == w.srv[s].client_cnt.auth + w.srv[s].client_cnt.acct
        Better(s0, s) == IF \/ s \notin Backup /\ s0 \in Backup
                            \/ (s \in Backup <=> s0 \in Backup) /\ Load(s) < Load(s0)
                         THEN s ELSE s0
    IN  IF usable = <<>> THEN NoServ
        ELSE IF v6 # <<>> THEN Head(v6) ELSE FoldLeft(Better, Head(usable), Tail(usable))

__rad_server_get(w, exclude) ==
    LET Usable(s) == s # exclude /\ w.srv[s].listed /\ ~w.srv[s].failed IN
    Choose(w, SelectSeq(ServList, Usable), SelectSeq(ServList, LAMBDA s : Usable(s) /\ s \in Ipv6))

__free_server(w, s) == [w EXCEPT !.srv[s].frees = @ + 1, !.srv[s].listed = FALSE]

Idle(w, s) == w.srv[s].client_cnt = [auth |-> 0, acct |-> 0]

send_acct_on(w, s) == [w EXCEPT !.srv[s].client_cnt.acct = @ + 1, !.srv[s].on_try = 1]

\* A server that ends says so first, if it announced its start.
serv_ctx_close(w, s) ==
    IF ~Idle(w, s) THEN [w EXCEPT !.srv[s].need_close = TRUE]
    ELSE IF w.srv[s].acct_on
         THEN send_acct_on([w EXCEPT !.srv[s].acct_on = FALSE, !.srv[s].starting = FALSE,
                                     !.srv[s].need_close = FALSE], s)
         ELSE [w EXCEPT !.srv[s].need_close = TRUE]

LastClientLeft(w, s) ==
    IF ~Idle(w, s) THEN w
    ELSE IF w.srv[s].need_close THEN serv_ctx_close(w, s)
    ELSE IF w.srv[s].need_free THEN __free_server(w, s) ELSE w

rad_server_put(w, s, type) == LastClientLeft([w EXCEPT !.srv[s].client_cnt[type] = @ - 1], s)

\* Everything queued is told to go elsewhere.
rad_server_fail(w, s) ==
    LET q == w.srv[s].req_queue[1] \o w.srv[s].req_queue[2]
        w1 == FoldLeft(LAMBDA x, u : Post([x EXCEPT !.req[u].queued = FALSE], u, "failed"), w, q)
    IN  [w1 EXCEPT !.srv[s].failed = TRUE, !.srv[s].queue_cnt = 0, !.srv[s].req_queue = <<<<>>, <<>>>>]

rad_server_timeout(w, s) ==
    LET w1 == [w EXCEPT !.srv[s].timeout_cnt = IF @ < MaxFail THEN @ + 1 ELSE @] IN
    IF w1.srv[s].timeout_cnt >= MaxFail THEN rad_server_fail(w1, s) ELSE w1

\* A slot that came free goes to the next request of the first queue.
GiveSlot(w, s, k, u) ==
    Post([w EXCEPT !.srv[s].req_queue[k] = Tail(@), !.srv[s].queue_cnt = @ - 1, !.srv[s].req_cnt = @ + 1,
                   !.req[u].active = TRUE, !.req[u].queued = FALSE], u, "wakeup")

NextInQueue(w, s) ==
    LET q == w.srv[s].req_queue IN
    IF w.srv[s].req_cnt >= ReqLimit \/ q = <<<<>>, <<>>>> THEN w
    ELSE IF q[1] # <<>> THEN GiveSlot(w, s, 1, Head(q[1])) ELSE GiveSlot(w, s, 2, Head(q[2]))

\* Mutant: the slot is given back without waking the next request.
rad_server_req_exit_Silent(w, u) ==
    IF ~w.req[u].active THEN w
    ELSE [w EXCEPT !.req[u].active = FALSE, !.srv[w.req[u].serv].req_cnt = @ - 1]

\* Mutant: the slot is not given back.
rad_server_req_exit_Keeps(w, u) == [w EXCEPT !.req[u].active = FALSE]

rad_server_req_exit(w, u) ==
    IF ~w.req[u].active THEN w
    ELSE NextInQueue([w EXCEPT !.req[u].active = FALSE, !.srv[w.req[u].serv].req_cnt = @ - 1], w.req[u].serv)

Dequeue(w, u) ==
    LET s == w.req[u].serv IN
    IF ~w.req[u].queued THEN w
    ELSE [w EXCEPT !.req[u].queued = FALSE, !.srv[s].queue_cnt = @ - 1,
                   !.srv[s].req_queue = [k \in 1..2 |-> SelectSeq(@[k], LAMBDA x : x # u)]]

\* In full, also the slot, the timer and the socket's events.
rad_server_req_cancel(w, u, full) ==
    LET w1 == CancelWakeup(Dequeue(w, u), u) IN
    IF ~full THEN w1
    ELSE [rad_server_req_exit(w1, u) EXCEPT !.req[u].timeout = "none", !.req[u].hnd = FALSE]

\* Move to another server.  Results are pairs [w, r] of the world and the
\* value returned.
MoveTo(w, u, s, type) ==
    IF s = NoServ THEN [w |-> w, r |-> -1]
    ELSE [w |-> [rad_server_put([w EXCEPT !.srv[s].client_cnt[type] = @ + 1], w.req[u].serv, type)
                    EXCEPT !.req[u].serv = s, !.req[u].fd = FALSE, !.req[u].hnd = FALSE], r |-> 0]

rad_server_realloc(w, u) == MoveTo(w, u, __rad_server_get(w, w.req[u].serv), TypeOf(w.req[u].role))

-----------------------------------------------------------------------------
(* Requests (req.c). *)

\* Make the socket, build the packet and send; the sent callback starts the
\* timer.
__rad_req_send(w, u, bad) ==
    IF ~w.req[u].fd /\ w.req[u].serv \in bad THEN [w |-> [w EXCEPT !.faults = @ \cup {"socket"}], r |-> -2]
    ELSE IF "build" \in bad THEN [w |-> [w EXCEPT !.req[u].fd = FALSE, !.req[u].hnd = FALSE], r |-> -1]
    ELSE [w |-> [w EXCEPT !.req[u].fd = TRUE, !.req[u].hnd = TRUE, !.req[u].timeout = "armed"], r |-> 0]

SlotSent(x, u, s) ==
    IF x.r = 0 THEN x
    ELSE IF x.r = -1 THEN [x EXCEPT !.w = rad_server_req_exit(x.w, u)]
    ELSE [x EXCEPT !.w = rad_server_fail([x.w EXCEPT !.req[u].active = FALSE, !.srv[s].req_cnt = @ - 1], s)]

\* Take a slot and send, or wait in the queue.
rad_server_req_enter(w, u, bad) ==
    LET s == w.req[u].serv IN
    IF w.srv[s].need_free \/ w.srv[s].failed \/ w.req[u].queued THEN [w |-> w, r |-> -1]
    ELSE IF w.srv[s].req_cnt >= ReqLimit
    THEN [w |-> [w EXCEPT !.srv[s].req_queue[w.req[u].prio + 1] = Append(@, u), !.srv[s].queue_cnt = @ + 1,
                          !.req[u].queued = TRUE, !.req[u].hnd = FALSE], r |-> 0]
    ELSE SlotSent(__rad_req_send([w EXCEPT !.req[u].active = TRUE, !.srv[s].req_cnt = @ + 1], u, bad), u, s)

\* Try the servers in turn; each that fails is out of the way of the next try.
\* A request that is still queued is refused by every server: with two of them
\* the worker never leaves this loop.
RECURSIVE EnterLoop(_, _, _)
EnterLoop(w, u, bad) ==
    LET Moved(y) == IF y.r < 0 THEN y
                    ELSE IF y.w.req[u].queued THEN [w |-> [y.w EXCEPT !.crash = TRUE], r |-> 0]
                    ELSE EnterLoop(y.w, u, bad \ {"build"})
        Entered(x) == IF x.r >= 0 THEN x ELSE Moved(rad_server_realloc(x.w, u))
    IN  Entered(rad_server_req_enter(w, u, bad))

\* After max-try attempts another server is asked.  Past MaxTry the count is
\* only compared for equality, so it stays there.
Attempt(x, u, bad) ==
    IF x.r < 0 THEN x
    ELSE IF x.w.req[u].active THEN __rad_req_send(x.w, u, bad) ELSE EnterLoop(x.w, u, bad)

Restarted(x, u) == IF x.r < 0 THEN x ELSE [x EXCEPT !.w.req[u].try = 1]

rad_req_send(w, u, bad) ==
    LET w1 == [w EXCEPT !.req[u].try = IF @ > MaxTry THEN @ ELSE @ + 1] IN
    Attempt(IF w.req[u].try = MaxTry
            THEN Restarted(rad_server_realloc(rad_server_req_exit(w1, u), u), u)
            ELSE [w |-> w1, r |-> 0], u, bad)

AllocOn(w, u, role, prio, s) ==
    IF s = NoServ THEN w
    ELSE [w EXCEPT !.req[u] = [NoReq EXCEPT !.role = role, !.serv = s, !.prio = prio, !.rpd = TRUE],
                   !.srv[s].client_cnt[TypeOf(role)] = @ + 1]

rad_req_alloc(w, u, role, prio) == AllocOn(w, u, role, prio, __rad_server_get(w, NoServ))

rad_req_free(w, u) ==
    LET w1 == IF w.req[u].active \/ w.req[u].queued THEN rad_server_req_cancel(w, u, TRUE) ELSE w IN
    [rad_server_put(w1, w.req[u].serv, TypeOf(w.req[u].role)) EXCEPT !.req[u] = NoReq]

-----------------------------------------------------------------------------
(* Accounting (acct.c) and the end of a session (radius.c). *)

\* A handler ends with one of: nothing more, the session is terminated
\* ("end"), its authentication answered ("permit", "deny").
Then(w, r) == [w |-> w, r |-> r]
EndIf(x) == Then(x.w, IF x.r < 0 THEN "end" ELSE "none")

rad_acct_stop_defer(w, u) ==
    Post([rad_server_req_cancel(w, u, TRUE) EXCEPT !.req[u].rpd = FALSE], u, "deferred")

\* The request under way, or a new one, becomes the Stop.
StopSent(x, u) == IF x.r < 0 THEN rad_acct_stop_defer(x.w, u) ELSE x.w

SendStop(w, u, bad) ==
    IF w.req[u].role = "none" THEN w
    ELSE StopSent(rad_req_send([w EXCEPT !.req[u].role = "stop", !.req[u].try = 0], u, bad), u)

rad_acct_stop(w, u, bad) ==
    SendStop(IF w.req[u].role \in Acct THEN rad_server_req_cancel(w, u, TRUE)
             ELSE rad_req_alloc(w, u, "stop", 1), u, bad)

StopIfStarted(w, u, bad) == IF w.ses[u].acct_started \/ (w.req[u].role \in Acct /\ w.req[u].rpd)
                            THEN rad_acct_stop(w, u, bad) ELSE w

ses_finishing(w, u, bad) ==
    StopIfStarted([IF w.req[u].role = "auth" THEN rad_req_free(rad_server_req_cancel(w, u, TRUE), u) ELSE w
                      EXCEPT !.ses[u].interim = FALSE], u, bad)

\* Fires EV_SES_FINISHING, once (session.c).
ap_session_terminate(w, u, bad) ==
    IF w.ses[u].terminating \/ w.ses[u].phase = "finished" THEN w
    ELSE ses_finishing([w EXCEPT !.ses[u].terminating = TRUE, !.ses[u].phase = "finishing"], u, bad)

\* The answer for the authentication layer, which ends the session when denied;
\* the request is freed after that, unless the termination did.
FreeAuth(w, u) == IF w.req[u].role = "auth" THEN rad_req_free(w, u) ELSE w

rad_auth_finalize(x, u, bad) ==
    CASE x.r = "none" -> x.w
      [] x.r = "permit" -> FreeAuth([x.w EXCEPT !.ses[u].phase = "authed"], u)
      [] OTHER -> (LET F(w) == IF x.r = "deny" THEN FreeAuth(w, u) ELSE w
                   IN  F(ap_session_terminate(x.w, u, bad)))

\* The sent callbacks with res = -1.
SentFailed(w, u) ==
    CASE w.req[u].role = "auth" -> Then(w, "deny")
      [] w.req[u].role = "start" -> Then(w, "end")
      [] w.req[u].role = "stop" /\ w.shutdown -> Then(rad_req_free(w, u), "none")
      [] w.req[u].role = "stop" /\ ~w.shutdown /\ w.req[u].rpd -> Then(rad_acct_stop_defer(w, u), "none")
      [] OTHER -> Then(w, "none")

\* __rad_req_send with async = -1: a request that has its slot again gives it up
\* for another server.
Resent(x, u) == IF x.r < 0 THEN SentFailed(x.w, u) ELSE Then(x.w, "none")
SendAgain(w, u, bad) ==
    Resent(rad_req_send([w EXCEPT !.req[u].try = IF w.req[u].active THEN MaxTry ELSE @], u, bad), u)

\* With async = 1: that no socket could be made is told to nobody.
SendAsync(x, u) == IF x.r = -1 THEN SentFailed(x.w, u) ELSE Then(x.w, "none")

\* The slot given by rad_server_req_exit is used, or given up if the server
\* failed or was removed meanwhile.
req_wakeup(w, u, bad) ==
    LET s == w.req[u].serv IN
    IF ~w.req[u].active THEN Then(w, "none")
    ELSE IF w.srv[s].failed \/ w.srv[s].need_free
    THEN SendAgain([w EXCEPT !.req[u].active = FALSE, !.srv[s].req_cnt = @ - 1], u, bad)
    ELSE SendAsync(__rad_req_send(w, u, bad), u)

req_wakeup_failed(w, u, bad) == SendAgain(w, u, bad)

rad_auth_recv(w, u, accept) ==
    Then([w EXCEPT !.req[u].timeout = "none", !.ses[u].authenticated = accept],
         IF accept THEN "permit" ELSE "deny")

\* With an interim interval the request is kept for the updates.
rad_acct_start_recv(w, u, interval) ==
    LET w1 == [w EXCEPT !.req[u].timeout = "none", !.req[u].hnd = FALSE, !.req[u].fd = FALSE,
                        !.ses[u].acct_started = TRUE]
    IN  IF interval THEN [w1 EXCEPT !.req[u].role = "interim", !.req[u].prio = 1, !.ses[u].interim = TRUE]
        ELSE rad_req_free(w1, u)

rad_acct_recv(w, u) == [w EXCEPT !.req[u].timeout = "none", !.req[u].hnd = FALSE, !.req[u].fd = FALSE]

rad_acct_stop_recv(w, u) == rad_req_free(w, u)

\* A reply: accept stands for the Access-Accept, or for an interim interval.
Received(w, u, accept) ==
    CASE w.req[u].role = "auth" -> rad_auth_recv(w, u, accept)
      [] w.req[u].role = "start" -> Then(rad_acct_start_recv(w, u, accept), "none")
      [] w.req[u].role = "interim" -> Then(rad_acct_recv(w, u), "none")
      [] OTHER -> Then(rad_acct_stop_recv(w, u), "none")

rad_req_read(w, u, accept) ==
    LET w1 == [w EXCEPT !.srv[w.req[u].serv].timeout_cnt = 0] IN
    Received(IF w1.req[u].active THEN rad_server_req_exit(w1, u) ELSE rad_server_req_cancel(w1, u, FALSE),
             u, accept)

rad_auth_timeout(w, u, bad) ==
    LET Sent(x) == Then(x.w, IF x.r < 0 THEN "deny" ELSE "none") IN
    Sent(rad_req_send(rad_server_timeout(w, w.req[u].serv), u, bad))

rad_acct_start_timeout(w, u, bad) == EndIf(rad_req_send(rad_server_timeout(w, w.req[u].serv), u, bad))

\* late: acct-timeout has passed since the update was due.
rad_acct_timeout(w, u, late, bad) ==
    LET Retry(w1) ==
            IF ~AcctTimeout THEN Then(rad_acct_recv(w1, u), "none")
            ELSE IF late THEN Then([w1 EXCEPT !.req[u].timeout = "none"], "end")
            ELSE EndIf(rad_req_send([w1 EXCEPT !.req[u].try = 0], u, bad))
    IN  Retry(rad_server_timeout(rad_server_req_exit(w, u), w.req[u].serv))

\* Of a Stop that has no session any more.
rad_acct_stop_timeout(w, u, bad) ==
    LET Sent(x) == IF x.r >= 0 THEN x.w
                   ELSE IF x.w.shutdown THEN rad_req_free(x.w, u) ELSE [x.w EXCEPT !.req[u].try = 0]
        Retry(w1) == IF w1.req[u].try = MaxTry THEN rad_req_free(w1, u) ELSE Sent(rad_req_send(w1, u, bad))
    IN  Then(Retry(IF w.req[u].active THEN rad_server_req_exit(rad_server_timeout(w, w.req[u].serv), u)
                   ELSE w), "none")

\* An answer may already wait in the socket.
start_deferred(w, u, answered) ==
    LET w1 == [w EXCEPT !.req[u].hnd = w.req[u].fd] IN
    IF w.req[u].fd /\ answered THEN rad_req_read(w1, u, TRUE)
    ELSE Then([w1 EXCEPT !.req[u].timeout = "armed"], "none")

-----------------------------------------------------------------------------
(* Actions: events of the session layer. *)

ses_starting(u) ==
    /\ rad.ses[u].phase = "none" /\ rad.req[u] = NoReq
    /\ \A s \in Servers : ~rad.srv[s].starting    \* bound: Accounting-On is settled first
    /\ rad' = [rad EXCEPT !.ses[u] = [NoPd EXCEPT !.phase = "starting"]]

\* A new request that no server takes is freed, and the session ends.
Started(x, u, phase) == IF x.r < 0 THEN Then(rad_req_free(x.w, u), "end")
                        ELSE Then([x.w EXCEPT !.ses[u].phase = phase], "none")

StartRequest(w, u, phase, bad) ==
    IF w.req[u].role = "none" THEN Then(w, "end") ELSE Started(rad_req_send(w, u, bad), u, phase)

\* Whatever the authentication protocol, one Access-Request.
rad_pwdb_check(u, bad) == StartRequest(rad_req_alloc(rad, u, "auth", 0), u, "auth", bad)

ses_acct_start(u, bad) == StartRequest(rad_req_alloc(rad, u, "start", 0), u, "active", bad)

ses_finished(u) ==
    LET w1 == [rad EXCEPT !.ses[u].phase = "finished", !.ses[u].dm_coa_req = "none",
                          !.ses[u].calls = SelectSeq(@, LAMBDA c : c \notin {"dm", "coa"})]
    IN  /\ rad.ses[u].phase = "finishing"
        /\ rad' = IF rad.req[u].role = "none" \/ ~rad.req[u].rpd THEN w1
                  ELSE IF rad.ses[u].acct_started THEN rad_acct_stop_defer(w1, u)
                  ELSE rad_req_free(rad_server_req_cancel(w1, u, TRUE), u)

\* The context of the session ends with its last call.
ContextGone(u) ==
    /\ rad.ses[u].phase = "finished" /\ rad.ses[u].calls = <<>>
    /\ rad' = [rad EXCEPT !.ses[u] = [NoPd EXCEPT !.phase = "gone"]]  \* bound: one session each

-----------------------------------------------------------------------------
(* Actions: calls, timers, replies. *)

\* A request that was freed with a call still queued for it is undefined
\* behaviour: nothing is said of what follows.
Run(w, u, func, bad, answered) ==
    CASE func \in {"wakeup", "failed", "deferred"} /\ w.req[u].role = "none" ->
            Then([w EXCEPT !.crash = TRUE], "none")
      [] func = "wakeup" /\ w.req[u].role # "none" -> req_wakeup(w, u, bad)
      [] func = "failed" /\ w.req[u].role # "none" -> req_wakeup_failed(w, u, bad)
      [] func = "deferred" /\ w.req[u].role # "none" -> start_deferred(w, u, answered)
      [] func = "dm" -> Then([w EXCEPT !.ses[u].dm_coa_req = "none"], "end")
      [] OTHER -> Then([w EXCEPT !.ses[u].dm_coa_req = "none"], "none")

Timeout(w, u, late, bad) ==
    CASE w.req[u].role = "auth" -> rad_auth_timeout(w, u, bad)
      [] w.req[u].role = "interim" -> rad_acct_timeout(w, u, late, bad)
      [] w.req[u].role = "start" \/ (w.req[u].role = "stop" /\ w.req[u].rpd) -> rad_acct_start_timeout(w, u, bad)
      [] OTHER -> rad_acct_stop_timeout(w, u, bad)

\* Periodic, and whenever the session forces an update; nothing while the
\* last one is not settled.  lost: the interface's statistics are gone.
rad_acct_interim_update(u, lost, bad) ==
    LET Sent(x) == IF x.r < 0 /\ AcctTimeout THEN Then(x.w, "end") ELSE Then(x.w, "none") IN
    IF lost THEN Then(rad, "end") ELSE Sent(rad_req_send([rad EXCEPT !.req[u].try = 0], u, bad))

\* What may happen in the context of u's session or request.
Enabled(e, u) ==
    CASE e = "auth" -> rad.ses[u].phase = "starting"
      [] e = "start" -> rad.ses[u].phase = "authed" /\ rad.ses[u].authenticated
      [] e = "end" -> rad.ses[u].phase \in {"starting", "auth", "authed", "active"}
      [] e = "call" -> rad.ses[u].calls # <<>>
      [] e = "default" -> rad.dflt # <<>> /\ Head(rad.dflt)[2] = u
      [] e = "reply" -> rad.req[u].hnd
      [] e = "timer" -> rad.req[u].timeout = "armed"
      [] OTHER -> /\ rad.ses[u].interim /\ ~rad.ses[u].terminating
                  /\ rad.ses[u].calls = <<>>            \* the period is 10 s or more
                  /\ ~rad.req[u].queued /\ rad.req[u].timeout = "none"

Handle(e, u, b, bad) ==
    CASE e = "auth" -> rad_pwdb_check(u, bad)
      [] e = "start" -> ses_acct_start(u, bad)
      [] e = "end" -> Then(rad, "end")
      [] e = "call" -> Run([rad EXCEPT !.ses[u].calls = Tail(@)], u, Head(rad.ses[u].calls), bad, FALSE)
      [] e = "default" -> Run([rad EXCEPT !.dflt = Tail(@)], u, Head(rad.dflt)[1], bad, b)
      [] e = "reply" -> rad_req_read(rad, u, b)
      [] e = "timer" -> Timeout([rad EXCEPT !.req[u].timeout = "fired"], u, b, bad)
      [] OTHER -> rad_acct_interim_update(u, b, bad)

Event(e, u, b, bad) ==
    /\ Enabled(e, u)
    /\ rad' = rad_auth_finalize(Handle(e, u, b, bad), u, bad)

\* One request at a time for a session that is still listed.
dm_coa_read(u, code) ==
    /\ rad.ses[u].phase \notin {"none", "finished", "gone"}
    /\ rad.ses[u].dm_coa_req = "none"
    /\ rad' = [rad EXCEPT !.ses[u].dm_coa_req = code, !.ses[u].calls = Append(@, code)]

\* The server's fail_time passes: seconds, in which every queued call runs.
FailTimePasses(s) ==
    /\ rad.srv[s].failed
    /\ rad.dflt = <<>> /\ \A u \in Subs : rad.ses[u].calls = <<>>
    /\ rad' = [rad EXCEPT !.srv[s].failed = FALSE]

-----------------------------------------------------------------------------
(* Actions: Accounting-On and the server list. *)

StartAcctOn(s) ==
    /\ rad.srv[s].starting /\ rad.srv[s].on_try = 0
    /\ rad' = send_acct_on(rad, s)

\* After the answer, or the last try, the server is in use, or is freed.
AcctOnDone(w, s, answered) ==
    LET w1 == rad_server_put([w EXCEPT !.srv[s].on_try = 0], s, "acct") IN
    IF w.srv[s].starting THEN [w1 EXCEPT !.srv[s].starting = FALSE, !.srv[s].acct_on = answered]
    ELSE __free_server(w1, s)

acct_on_recv(s) == rad.srv[s].on_try > 0 /\ rad' = AcctOnDone(rad, s, TRUE)

acct_on_timeout(s) ==
    /\ rad.srv[s].on_try > 0
    /\ rad' = IF rad.srv[s].on_try = MaxTry THEN AcctOnDone(rad, s, FALSE)
              ELSE [rad EXCEPT !.srv[s].on_try = @ + 1]

\* A reload without server s: what waits for it is woken.
load_config(s) ==
    LET q == rad.srv[s].req_queue[1] \o rad.srv[s].req_queue[2]
        w1 == [rad EXCEPT !.srv[s].listed = FALSE, !.srv[s].need_free = TRUE, !.faults = @ \cup {"reload"},
                          !.srv[s].req_queue = <<<<>>, <<>>>>,
                          !.crash = \E u \in ToSet(q) : ~rad.req[u].rpd]
        w2 == FoldLeft(LAMBDA x, u : Post([x EXCEPT !.req[u].queued = FALSE], u, "wakeup"), w1, q)
    IN  /\ rad.srv[s].listed /\ ~rad.srv[s].need_free
        /\ rad' = IF ~Idle(w2, s) THEN w2
                  ELSE IF w2.srv[s].acct_on THEN serv_ctx_close(w2, s) ELSE __free_server(w2, s)

-----------------------------------------------------------------------------
RadInit == \E env \in Scenarios :
    rad = [ses |-> [u \in Subs |-> NoPd], req |-> [u \in Subs |-> NoReq],
           srv |-> [s \in Servers |-> [NewServ EXCEPT !.starting = s \in env.on]], dflt |-> <<>>,
           shutdown |-> env.shutdown, faults |-> {}, crash |-> FALSE, env |-> env]

Events == {"auth", "start", "end", "call", "default", "reply", "timer", "interim"}

RadNext ==
    /\ ~rad.crash
    /\ \/ \E u \in Subs, bad \in SUBSET rad.env.bad, e \in Events, b \in BOOLEAN : Event(e, u, b, bad)
       \/ \E u \in Subs : ses_starting(u) \/ ses_finished(u) \/ ContextGone(u)
                          \/ \E code \in rad.env.dae : dm_coa_read(u, code)
       \/ \E s \in Servers : FailTimePasses(s) \/ StartAcctOn(s) \/ acct_on_recv(s)
                             \/ acct_on_timeout(s)
       \/ \E s \in rad.env.reload : load_config(s)

RadSpec == RadInit /\ [][RadNext]_rad
-----------------------------------------------------------------------------
(* Properties. *)

Count(P(_)) == Cardinality({u \in Subs : P(u)})

\* The slots in use, the queue and the clients of a server are exactly the
\* requests that hold one, wait in it, or use the server, whatever retries,
\* failovers and cancellations happened.
SlotsExact ==
    ~rad.crash => \A s \in Servers :
        LET Of(u) == rad.req[u].serv = s
            q == rad.srv[s].req_queue[1] \o rad.srv[s].req_queue[2] IN
        /\ rad.srv[s].req_cnt = Count(LAMBDA u : Of(u) /\ rad.req[u].active)
        /\ rad.srv[s].req_cnt <= ReqLimit
        /\ ToSet(q) = {u \in Subs : Of(u) /\ rad.req[u].queued} /\ Len(q) = Cardinality(ToSet(q))
        /\ rad.srv[s].client_cnt.auth = Count(LAMBDA u : Of(u) /\ rad.req[u].role = "auth")
        /\ rad.srv[s].client_cnt.acct = Count(LAMBDA u : Of(u) /\ rad.req[u].role \in Acct)
                                        + (IF rad.srv[s].on_try > 0 THEN 1 ELSE 0)
        /\ \A u \in Subs : rad.req[u].active => ~rad.req[u].queued

\* A session never waits for an answer that cannot come: its authentication or
\* Accounting-Start has a timer running, waits in a queue behind a request that
\* will leave, or is about to be woken; unless a socket could not be made or
\* the server was removed from the configuration.
NoStrandedRequest ==
    ~rad.crash /\ rad.faults = {} => \A u \in Subs :
        rad.req[u].role \in {"auth", "start"} =>
            \/ rad.req[u].timeout = "armed"
            \/ rad.req[u].queued /\ rad.srv[rad.req[u].serv].req_cnt = ReqLimit
            \/ {"wakeup", "failed"} \cap ToSet(rad.ses[u].calls) # {}

\* A request that is not the session's any more is a Stop of accounting, and a
\* session that was accounted is not forgotten without one.
DeferredIsStop ==
    \A u \in Subs : rad.req[u].role # "none" /\ ~rad.req[u].rpd =>
        rad.req[u].role = "stop" /\ rad.ses[u].phase \in {"none", "finishing", "finished", "gone"}

\* Every Disconnect or CoA request that was taken is under way in its session.
CoaIsUnderWay ==
    \A u \in Subs : Cardinality({k \in DOMAIN rad.ses[u].calls : rad.ses[u].calls[k] \in {"dm", "coa"}})
                    = (IF rad.ses[u].dm_coa_req = "none" THEN 0 ELSE 1)

\* Does not hold: no call runs for a request that was freed.
CallHasRequest == ~rad.crash
=============================================================================
