-------------------------------- MODULE L2tp --------------------------------
(***************************************************************************)
(* One L2TP tunnel and its calls (ctrl/l2tp/l2tp.c): the control           *)
(* connection in LAC or LNS mode, its sessions, their data channels (the   *)
(* PPP sessions, each in a context of its own), the reference counts that  *)
(* keep them alive across contexts, and the statistics.  The queues of the *)
(* control channel are those of L2tpChannel; here only whether a message   *)
(* waits for its acknowledgement matters.                                  *)
(*                                                                         *)
(* The C functions are operators on the world w = [tun, ses, stat, start,  *)
(* stale, reopened].  f names the call that fails in a handler ("none"     *)
(* when all succeed).  A tunnel is started by another thread (start: what  *)
(* is left of l2tp_tunnel_start), a data channel by the tunnel's context   *)
(* (tun.pc: what is left of l2tp_session_start_data_channel and of the     *)
(* handler), while the context that is being started already runs.  stale: *)
(* one of them went on with what the started context had freed.            *)
(***************************************************************************)
EXTENDS Integers, FiniteSets, FiniteSetsExt, Sequences, SequencesExt

CONSTANTS Sids,          \* session identifiers
          Secret         \* a shared secret is configured

VARIABLE l2tp            \* [tun, ses, stat, start, stale, reopened]

Phases == {"starting", "active", "finishing"}
NoCount == [p \in Phases |-> 0]

NoStart == [at |-> "none", func |-> "none"]
NoCall == [at |-> "none", s |-> 0, f |-> "none", refuse |-> FALSE]

NoTunnel == [state |-> "free", lns_mode |-> FALSE, ref_count |-> 0, listed |-> FALSE,
             ctx |-> FALSE, calls |-> <<>>, timeout_timer |-> FALSE, hello_timer |-> FALSE,
             unacked |-> FALSE, sessions |-> {}, sess_count |-> 0, challenge |-> "none",
             proved |-> FALSE, pc |-> NoCall]

NoSession == [state1 |-> "free", ref_count |-> 0, timeout_timer |-> FALSE,
              apses_state |-> "none", apses_ctx |-> FALSE, calls |-> <<>>]

Fails == {"none", "alloc", "send", "push", "timer", "kernel", "data", "call"}

Closing == {"FIN", "FIN_WAIT", "CLOSE"}

\* One unit of counter k moves from phase p to phase q.
Move(w, k, p, q) == [w EXCEPT !.stat[k][p] = @ - 1, !.stat[k][q] = @ + 1]

TunPhase(st) == IF st = "ESTB" THEN "active"
                ELSE IF st \in {"INIT", "WAIT_SCCRP", "WAIT_SCCCN"} THEN "starting" ELSE "finishing"
SesPhase(st) == IF st = "ESTB" THEN "active" ELSE IF st = "CLOSE" THEN "finishing" ELSE "starting"
ApPhase(st) == CASE st \in {"INIT", "STARTING"} -> "starting"
                 [] st = "STARTED" -> "active"
                 [] OTHER -> "finishing"

-----------------------------------------------------------------------------
(* Reference counts. *)

\* The last reference frees the tunnel; who is starting it has none.
tunnel_put(w) ==
    IF w.tun.ref_count > 1 THEN [w EXCEPT !.tun.ref_count = @ - 1]
    ELSE [w EXCEPT !.tun = NoTunnel, !.stat.conn.finishing = @ - 1, !.stale = @ \/ w.start # NoStart]

\* Mutant: a call takes no reference on its tunnel.
tunnel_hold_None(w) == w

tunnel_hold(w) == [w EXCEPT !.tun.ref_count = @ + 1]

\* The last reference frees the session, which then drops its tunnel.
session_put(w, s) ==
    IF w.ses[s].ref_count > 1 THEN [w EXCEPT !.ses[s].ref_count = @ - 1]
    ELSE tunnel_put([w EXCEPT !.ses[s] = NoSession, !.stat.sess.finishing = @ - 1])

session_hold(w, s) == [w EXCEPT !.ses[s].ref_count = @ + 1]

-----------------------------------------------------------------------------
(* Sending. *)

\* A tunnel that is closing queues nothing.
l2tp_tunnel_send(w) ==
    IF w.tun.state \in Closing THEN w ELSE [w EXCEPT !.tun.unacked = TRUE]

l2tp_session_send(w, s) == IF w.ses[s].state1 = "CLOSE" THEN w ELSE l2tp_tunnel_send(w)

\* Building any message may fail, before anything is queued.
Build(w, s, f) == IF f = "send" THEN w ELSE l2tp_session_send(w, s)
l2tp_send_ICRQ(w, s, f) == Build(w, s, f)
l2tp_send_ICRP(w, s, f) == Build(w, s, f)
l2tp_send_ICCN(w, s, f) == Build(w, s, f)
l2tp_send_OCRQ(w, s, f) == Build(w, s, f)
l2tp_send_OCRP(w, s, f) == Build(w, s, f)
l2tp_send_OCCN(w, s, f) == Build(w, s, f)
l2tp_send_CDN(w, s, f) == Build(w, s, f)
l2tp_tunnel_send_CDN(w, f) == IF f = "send" THEN w ELSE l2tp_tunnel_send(w)
l2tp_send_StopCCN(w) == l2tp_tunnel_send(w)

-----------------------------------------------------------------------------
(* The challenge: conn->challenge holds ours while we wait for the answer,   *)
(* the peer's while we owe one.                                             *)

l2tp_tunnel_genchall(w) == [w EXCEPT !.tun.challenge = IF Secret THEN "mine" ELSE "none"]

\* A challenge without a secret to answer it is an error.
StoreChallFails(chall) == chall /\ ~Secret
l2tp_tunnel_storechall(w, chall) ==
    [w EXCEPT !.tun.challenge = IF chall /\ Secret THEN "peers" ELSE "none"]

\* Mutant: a missing answer is taken for a right one.
l2tp_tunnel_checkchallresp_Missing(w, resp) ==
    ~Secret \/ resp = "none" \/ (resp = "to_mine" /\ w.tun.challenge = "mine")

l2tp_tunnel_checkchallresp(w, resp) ==
    ~Secret \/ (w.tun.challenge # "none" /\ resp = "to_mine" /\ w.tun.challenge = "mine")

\* An answer is due only for a challenge, and needs the secret.
ChallRespFails(w) == w.tun.challenge # "none" /\ ~Secret
l2tp_tunnel_genchallresp(w) == w

-----------------------------------------------------------------------------
(* Closing. *)

\* Mutant: an established call is closed and its data channel not told.
CloseSession_Silent(w, s) ==
    session_put([Move(w, "sess", SesPhase(w.ses[s].state1), "finishing") EXCEPT
                    !.ses[s].state1 = "CLOSE", !.ses[s].timeout_timer = FALSE,
                    !.tun.sessions = @ \ {s}, !.tun.sess_count = @ - 1], s)

\* The part of l2tp_session_free up to the first session_put: an established
\* call asks its data channel to stop.
CloseSession(w, s) ==
    LET st == w.ses[s].state1 IN
    session_put([Move(w, "sess", SesPhase(st), "finishing") EXCEPT
                    !.ses[s].calls = IF st = "ESTB" /\ w.ses[s].apses_ctx THEN Append(@, "stop") ELSE @,
                    !.ses[s].state1 = "CLOSE", !.ses[s].timeout_timer = FALSE,
                    !.tun.sessions = @ \ {s}, !.tun.sess_count = @ - 1], s)

\* tdestroy over the tree; the tunnel is closing, so the last one does not
\* disconnect it again.
l2tp_tunnel_free_sessions(w) ==
    FoldSet(LAMBDA s, x : session_put(CloseSession(x, s), s),
            [w EXCEPT !.tun.sessions = {}], w.tun.sessions)

\* Move the tunnel's own count to finishing, once.
ConnFinishing(w) ==
    IF w.tun.state \in {"FIN", "FIN_WAIT"} THEN w
    ELSE Move(w, "conn", TunPhase(w.tun.state), "finishing")

\* Everything of the tunnel stops; unregistering its context drops its calls.
l2tp_tunnel_free(w) ==
    IF w.tun.state \in {"CLOSE", "free"} THEN w
    ELSE tunnel_put([l2tp_tunnel_free_sessions(
                        [ConnFinishing(w) EXCEPT
                            !.tun.state = "CLOSE", !.tun.listed = FALSE, !.tun.unacked = FALSE,
                            !.tun.timeout_timer = FALSE, !.tun.hello_timer = FALSE])
                     EXCEPT !.tun.ctx = FALSE, !.tun.calls = <<>>])

FreeIf(cond, w) == IF cond THEN l2tp_tunnel_free(w) ELSE w

\* Send StopCCN and drop the calls; when it cannot be built, free at once.
l2tp_tunnel_disconnect(w, f) ==
    IF w.tun.state \in Closing THEN w
    ELSE FreeIf(f = "send",
                l2tp_tunnel_free_sessions(
                    [l2tp_send_StopCCN(ConnFinishing(w)) EXCEPT !.tun.state = "FIN",
                        !.tun.timeout_timer = FALSE, !.tun.hello_timer = FALSE]))

\* A failure of the push frees the tunnel.
l2tp_tunnel_disconnect_push(w, f) == FreeIf(f = "push", l2tp_tunnel_disconnect(w, f))

\* The last call of an established tunnel disconnects the tunnel.
LastCall(w, f) == IF w.tun.sess_count = 0 /\ w.tun.state = "ESTB"
                  THEN l2tp_tunnel_disconnect_push(w, f) ELSE w

l2tp_session_free(w, s, f) ==
    IF w.ses[s].state1 = "CLOSE" THEN w ELSE session_put(LastCall(CloseSession(w, s), f), s)

\* A message of the call that cannot be built is only logged.
l2tp_session_disconnect(w, s, f) == l2tp_session_free(l2tp_send_CDN(w, s, f), s, f)

l2tp_session_disconnect_push(w, s, f) == l2tp_session_free(l2tp_send_CDN(w, s, f), s, f)

\* The peer closed the tunnel: keep acknowledging for a while.
l2tp_tunnel_finwait(w, f) ==
    IF w.tun.state \in {"INIT", "FIN_WAIT", "CLOSE"} THEN w
    ELSE FreeIf(f = "timer",
                [l2tp_tunnel_free_sessions([ConnFinishing(w) EXCEPT !.tun.state = "FIN_WAIT",
                                                !.tun.hello_timer = FALSE])
                 EXCEPT !.tun.timeout_timer = TRUE])

-----------------------------------------------------------------------------
(* Starting. *)

\* Two references: one of the tree, one dropped at the end of session_free.
l2tp_tunnel_alloc_session(w, s) ==
    LET w1 == [w EXCEPT !.ses[s] = [NoSession EXCEPT !.state1 = "INIT"],
                        !.tun.sessions = @ \cup {s}, !.tun.sess_count = @ + 1,
                        !.stat.sess.starting = @ + 1]
    IN  session_hold(tunnel_hold(session_hold(w1, s)), s)

\* The PPP session gets a context of its own, which is woken, and a reference;
\* apses_start is posted, and the session counted, in steps of their own.
l2tp_session_start_data_channel(w, s) ==
    LET w1 == session_hold(w, s) IN
    [w1 EXCEPT !.ses[s].apses_state = "INIT", !.ses[s].apses_ctx = TRUE,
               !.tun.pc = [NoCall EXCEPT !.at = "call", !.s = s]]

\* "kernel": the PPPoL2TP socket failed, the call is not established; "data":
\* it is, and the data channel could not be started.
l2tp_session_connect(w, s, f) ==
    LET w0 == [w EXCEPT !.ses[s].timeout_timer = FALSE]
        w1 == [Move(w0, "sess", "starting", "active") EXCEPT !.ses[s].state1 = "ESTB"]
    IN  CASE f = "kernel" -> w0
          [] f = "data" -> w1
          [] OTHER -> l2tp_session_start_data_channel(w1, s)
ConnectFails(f) == f \in {"kernel", "data"}

l2tp_tunnel_connect(w, f) ==
    LET w0 == [w EXCEPT !.tun.timeout_timer = FALSE] IN
    IF f \in {"kernel", "timer"} THEN w0
    ELSE [Move(w0, "conn", "starting", "active") EXCEPT
             !.tun.state = "ESTB", !.tun.hello_timer = TRUE]

\* The state is set whatever it was: a tunnel that was disconnected before its
\* first message is opened again.
Opened(w, st) == [w EXCEPT !.tun.state = st, !.reopened = @ \/ w.tun.state \in Closing]

l2tp_send_SCCRQ(w, f) ==
    IF f \in {"send", "push"} THEN l2tp_tunnel_free(w)
    ELSE Opened(l2tp_tunnel_send(l2tp_tunnel_genchall(w)), "WAIT_SCCRP")

l2tp_send_SCCRP(w, f) ==
    IF f \in {"send", "push"} \/ ChallRespFails(w) THEN l2tp_tunnel_free(w)
    ELSE Opened(l2tp_tunnel_send(l2tp_tunnel_genchall(l2tp_tunnel_genchallresp(w))), "WAIT_SCCCN")

l2tp_send_SCCCN(w) ==
    l2tp_tunnel_send(l2tp_tunnel_storechall(l2tp_tunnel_genchallresp(w), FALSE))

\* Registers the context and its descriptor and wakes it; the timer and the
\* call of start_func follow.
l2tp_tunnel_start(w, start_func) ==
    [w EXCEPT !.tun.ctx = TRUE, !.start = [at |-> "timer", func |-> start_func]]

\* A start that fails frees the tunnel, in the starting thread.
StartTimer(w, f) ==
    IF f = "timer" THEN l2tp_tunnel_free([w EXCEPT !.start = NoStart])
    ELSE [w EXCEPT !.tun.timeout_timer = TRUE, !.start.at = "call"]
StartCall(w, f) ==
    IF f = "call" THEN l2tp_tunnel_free([w EXCEPT !.start = NoStart])
    ELSE [w EXCEPT !.tun.calls = Append(@, w.start.func), !.start = NoStart]

l2tp_tunnel_alloc(w, lns) ==
    tunnel_hold([w EXCEPT !.tun = [NoTunnel EXCEPT !.state = "INIT", !.lns_mode = lns, !.listed = TRUE],
                          !.stat.conn.starting = @ + 1])

-----------------------------------------------------------------------------
(* Messages: m = [type, attr, chall, resp, f].  attr is "missing" (no       *)
(* assigned identifier), "unknown" (an unknown mandatory AVP) or "ok".       *)

\* A handler that meets an error disconnects the tunnel, or the call.
TunnelFails(cond, w, f) == IF cond THEN l2tp_tunnel_disconnect(w, f) ELSE w
CallFails(cond, w, s, f) == IF cond THEN l2tp_session_disconnect(w, s, f) ELSE w

\* The LAC checks the answer to its challenge, answers the peer's and connects.
\* "scccn": SCCCN cannot be built, StopCCN can.
l2tp_recv_SCCRP(w, m, f) ==
    LET bad == m.attr # "ok" \/ ~l2tp_tunnel_checkchallresp(w, m.resp)
        unstored == StoreChallFails(m.chall) \/ f = "alloc"
        stored == [l2tp_tunnel_storechall(w, m.chall) EXCEPT !.tun.proved = m.resp = "to_mine"]
        unsent == f \in {"scccn", "send"} \/ ChallRespFails(stored)
    IN  IF w.tun.state # "WAIT_SCCRP" THEN w
        ELSE TunnelFails(bad \/ unstored \/ unsent \/ f \in {"kernel", "timer"},
                IF bad THEN w
                ELSE IF unstored THEN l2tp_tunnel_storechall(w, FALSE)
                ELSE IF unsent THEN stored
                ELSE l2tp_tunnel_connect(l2tp_send_SCCCN(stored), f), f)

\* The LNS checks the answer to its challenge and connects.
l2tp_recv_SCCCN(w, m, f) ==
    LET bad == m.attr = "unknown" \/ ~l2tp_tunnel_checkchallresp(w, m.resp) IN
    IF w.tun.state # "WAIT_SCCCN" THEN w
    ELSE TunnelFails(bad \/ f \in {"kernel", "timer"},
            IF bad THEN w
            ELSE l2tp_tunnel_connect([l2tp_tunnel_storechall(w, FALSE)
                                      EXCEPT !.tun.proved = m.resp = "to_mine"], f), f)

l2tp_recv_StopCCN(w, f) == l2tp_tunnel_finwait(w, f)

l2tp_session_incall_reply(w, s, f) ==
    IF f \in {"timer", "send"} THEN w
    ELSE [l2tp_send_ICRP(w, s, f) EXCEPT !.ses[s].state1 = "WAIT_ICCN", !.ses[s].timeout_timer = TRUE]

\* The called side answers and connects at once.
l2tp_session_outcall_reply(w, s, f) ==
    IF f \in {"timer", "send"} THEN w
    ELSE l2tp_session_connect(l2tp_send_OCCN(l2tp_send_OCRP(w, s, f), s, f), s, f)

\* A refused call is answered with a CDN of the tunnel and freed.
Refuse(cond, w, s, f) == IF cond THEN l2tp_session_free(l2tp_tunnel_send_CDN(w, f), s, f) ELSE w

\* The server may be at a limit; without an identifier or a free session only
\* a CDN is sent.
l2tp_recv_ICRQ(w, s, m, f) ==
    IF w.tun.state # "ESTB" /\ w.tun.lns_mode THEN w
    ELSE IF m.attr = "missing" \/ f = "alloc" THEN l2tp_tunnel_send_CDN(w, f)
    ELSE Refuse(m.attr = "unknown" \/ f \in {"timer", "send"},
                IF m.attr = "unknown" THEN l2tp_tunnel_alloc_session(w, s)
                ELSE l2tp_session_incall_reply(l2tp_tunnel_alloc_session(w, s), s, f), s, f)

l2tp_recv_OCRQ(w, s, m, f) ==
    IF w.tun.state # "ESTB" /\ ~w.tun.lns_mode THEN w
    ELSE IF m.attr = "missing" \/ f = "alloc" THEN l2tp_tunnel_send_CDN(w, f)
    ELSE Refuse(m.attr = "unknown" \/ f \in {"timer", "send"} \/ ConnectFails(f),
                IF m.attr = "unknown" THEN l2tp_tunnel_alloc_session(w, s)
                ELSE l2tp_session_outcall_reply(l2tp_tunnel_alloc_session(w, s), s, f), s, f)

l2tp_recv_ICRP(w, s, m, f) ==
    LET bad == m.attr # "ok" \/ f = "send" IN
    IF w.ses[s].state1 # "WAIT_ICRP" THEN w
    ELSE CallFails(bad \/ ConnectFails(f),
                   IF bad THEN w ELSE l2tp_session_connect(l2tp_send_ICCN(w, s, f), s, f), s, f)

l2tp_recv_ICCN(w, s, m, f) ==
    LET bad == m.attr = "unknown" IN
    IF w.ses[s].state1 # "WAIT_ICCN" THEN w
    ELSE CallFails(bad \/ ConnectFails(f), IF bad THEN w ELSE l2tp_session_connect(w, s, f), s, f)

l2tp_recv_OCRP(w, s, m, f) ==
    IF w.ses[s].state1 # "WAIT_OCRP" THEN w
    ELSE CallFails(m.attr # "ok",
                   IF m.attr # "ok" THEN w ELSE [w EXCEPT !.ses[s].state1 = "WAIT_OCCN"], s, f)

l2tp_recv_OCCN(w, s, m, f) ==
    LET bad == m.attr = "unknown" IN
    IF w.ses[s].state1 # "WAIT_OCCN" THEN w
    ELSE CallFails(bad \/ ConnectFails(f), IF bad THEN w ELSE l2tp_session_connect(w, s, f), s, f)

l2tp_recv_CDN(w, s, f) == IF w.ses[s].state1 = "CLOSE" THEN w ELSE l2tp_session_free(w, s, f)

\* Messages with a session identifier; unknown mandatory types end the call.
l2tp_session_recv(w, s, m, f) ==
    CASE m.type = "ICRP" -> l2tp_recv_ICRP(w, s, m, f)
      [] m.type = "ICCN" -> l2tp_recv_ICCN(w, s, m, f)
      [] m.type = "OCRP" -> l2tp_recv_OCRP(w, s, m, f)
      [] m.type = "OCCN" -> l2tp_recv_OCCN(w, s, m, f)
      [] m.type = "CDN" -> l2tp_recv_CDN(w, s, f)
      [] m.type = "unknown" /\ m.attr = "unknown" -> l2tp_session_disconnect(w, s, f)
      [] OTHER -> w

\* Messages without one; new is the identifier a new call would get.
l2tp_tunnel_recv(w, new, m, f) ==
    CASE m.type = "SCCRP" -> l2tp_recv_SCCRP(w, m, f)
      [] m.type = "SCCCN" -> l2tp_recv_SCCCN(w, m, f)
      [] m.type = "StopCCN" -> l2tp_recv_StopCCN(w, f)
      [] m.type = "ICRQ" -> l2tp_recv_ICRQ(w, new, m, f)
      [] m.type = "OCRQ" -> l2tp_recv_OCRQ(w, new, m, f)
      [] m.type = "unknown" /\ m.attr = "unknown" -> l2tp_tunnel_disconnect(w, f)
      [] OTHER -> w

Attrs == {"ok", "missing", "unknown"}
Resps == {"none", "garbage", "to_mine"}

\* One message of the peer in sequence.  A tunnel that is closing skips it.
l2tp_tunnel_reply(w, sid, new, m, f) ==
    CASE w.tun.state \in Closing -> w
      [] w.tun.state \notin Closing /\ sid = 0 -> l2tp_tunnel_recv(w, new, m, f)
      [] OTHER -> IF sid \in w.tun.sessions THEN l2tp_session_recv(w, sid, m, f) ELSE w

-----------------------------------------------------------------------------
(* Actions: the handlers and the calls of the tunnel's context. *)

FreeSids == {s \in Sids : l2tp.ses[s] = NoSession}
Registered == l2tp.tun.ctx /\ l2tp.tun.pc = NoCall

\* A read holds the tunnel; a ZLB acknowledges what was sent; a failing push
\* frees the tunnel, and so does the acknowledgement of all a closing one sent.
Replied(w, f) == tunnel_put(FreeIf(f = "push" \/ (w.tun.state = "FIN" /\ ~w.tun.unacked), w))
ReadOne(w, sid, new, m, f) ==
    LET r == l2tp_tunnel_reply([tunnel_hold(w) EXCEPT !.tun.unacked = @ /\ m.type # "ZLB"], sid, new, m, f)
    IN IF r.tun.pc = NoCall THEN Replied(r, f) ELSE [r EXCEPT !.tun.pc.f = f, !.tun.pc.refuse = m.type = "OCRQ"]

\* The handler goes on: apses_start is posted.  If it cannot be, the context
\* and its reference are given up and the call is closed as its message asks
\* for.  If the new context has already ended they are given up twice, if a
\* failing start of the tunnel has closed the call it is used once freed.
ChannelCall(w, s, fails) ==
    LET pc == w.tun.pc
        undone == session_put([w EXCEPT !.ses[s].apses_ctx = FALSE, !.ses[s].calls = <<>>, !.tun.pc = NoCall], s)
    IN  IF ~w.ses[s].apses_ctx \/ (fails /\ w.ses[s].state1 = "CLOSE") THEN [w EXCEPT !.stale = TRUE]
        ELSE IF fails THEN Replied(Refuse(pc.refuse, CallFails(~pc.refuse, undone, s, "none"), s, "none"), pc.f)
        ELSE [w EXCEPT !.ses[s].calls = Append(@, "start"), !.tun.pc.at = "count"]
ChannelCount(w) == Replied([w EXCEPT !.stat.ap.starting = @ + 1, !.tun.pc = NoCall], w.tun.pc.f)

\* A message with the fields its handler reads, and the calls of the handler
\* that may fail.
Msg(type, attr, chall, resp, fails) ==
    [type : type, attr : attr, chall : chall, resp : resp, f : fails \cup {"none", "push"}]
TunnelMsgs ==
    Msg({"ZLB", "HELLO"}, {"ok"}, {FALSE}, {"none"}, {})
    \cup Msg({"StopCCN"}, {"ok"}, {FALSE}, {"none"}, {"timer"})
    \cup Msg({"unknown"}, {"unknown"}, {FALSE}, {"none"}, {"send"})
    \cup Msg({"SCCRP"}, {"ok", "missing"}, BOOLEAN, Resps, {"alloc", "kernel", "send", "scccn"})
    \cup Msg({"SCCCN"}, {"ok", "unknown"}, {FALSE}, Resps, {"kernel", "send"})
CallReqs ==
    Msg({"ICRQ", "OCRQ"}, Attrs, {FALSE}, {"none"}, {"alloc", "timer", "send", "kernel", "data"})
CallMsgs ==
    Msg({"ICRP"}, {"ok", "unknown"}, {FALSE}, {"none"}, {"send", "kernel", "data"})
    \cup Msg({"ICCN", "OCCN"}, {"ok", "unknown"}, {FALSE}, {"none"}, {"kernel", "data"})
    \cup Msg({"OCRP"}, {"ok", "missing"}, {FALSE}, {"none"}, {"send"})
    \cup Msg({"CDN"}, {"ok"}, {FALSE}, {"none"}, {"send"})
    \cup Msg({"unknown"}, {"unknown"}, {FALSE}, {"none"}, {"send"})

\* A peer that does not know our tunnel identifier yet, from SCCRQ or SCCRP,
\* may still guess it, or need not give it (dir300_quirk).
l2tp_conn_read(m, sid, new) ==
    /\ Registered
    /\ l2tp' = ReadOne(l2tp, sid, new, m, m.f)

\* ECONNREFUSED on the socket of the tunnel.
l2tp_conn_refused ==
    /\ Registered
    /\ l2tp' = tunnel_put(l2tp_tunnel_free(tunnel_hold(l2tp)))

\* A first message from an unknown peer: the limits of the server and its AVPs
\* are checked before anything is allocated.
l2tp_recv_SCCRQ(chall, f) ==
    /\ l2tp.tun = NoTunnel /\ ~l2tp.reopened
    /\ LET w == l2tp_tunnel_storechall(l2tp_tunnel_alloc(l2tp, TRUE), chall)
       IN l2tp' = IF StoreChallFails(chall) \/ f \in {"alloc", "call"} THEN l2tp_tunnel_free(w)
                  ELSE l2tp_tunnel_start(w, "send_SCCRP")

\* The operator's "l2tp create tunnel".
l2tp_create_tunnel_exec(lns, f) ==
    /\ l2tp.tun = NoTunnel /\ ~l2tp.reopened
    /\ LET w == l2tp_tunnel_alloc(l2tp, lns)
       IN l2tp' = IF f = "call" THEN l2tp_tunnel_free(w) ELSE l2tp_tunnel_start(w, "send_SCCRQ")

\* The thread that starts the tunnel goes on.
StartGoesOn(f) ==
    \/ l2tp.start.at = "timer" /\ l2tp' = StartTimer(l2tp, f)
    \/ l2tp.start.at = "call" /\ l2tp' = StartCall(l2tp, f)

\* The tunnel's context goes on with a data channel it starts.
ChannelGoesOn(fails) ==
    \/ l2tp.tun.pc.at = "call" /\ l2tp' = ChannelCall(l2tp, l2tp.tun.pc.s, fails)
    \/ l2tp.tun.pc.at = "count" /\ l2tp' = ChannelCount(l2tp)

\* The operator's "l2tp create session" posts a call to a listed tunnel.
l2tp_create_session_exec ==
    /\ l2tp.tun.listed /\ l2tp.tun.ctx
    /\ l2tp.tun.calls = <<>>                        \* bound on queued requests
    /\ l2tp' = [l2tp EXCEPT !.tun.calls = Append(@, "create_session")]

l2tp_session_place_call(w, s, f) ==
    [(IF w.tun.lns_mode THEN l2tp_send_OCRQ(w, s, f) ELSE l2tp_send_ICRQ(w, s, f)) EXCEPT
        !.ses[s].timeout_timer = TRUE,
        !.ses[s].state1 = IF w.tun.lns_mode THEN "WAIT_OCRP" ELSE "WAIT_ICRP"]

FreeCallIf(cond, w, s, f) == IF cond THEN l2tp_session_free(w, s, f) ELSE w
l2tp_tunnel_create_session(w, new, f) ==
    IF w.tun.state # "ESTB" \/ f = "alloc" THEN w
    ELSE FreeCallIf(f \in {"timer", "send", "push"},
                    IF f \in {"timer", "send"} THEN l2tp_tunnel_alloc_session(w, new)
                    ELSE l2tp_session_place_call(l2tp_tunnel_alloc_session(w, new), new, f), new, f)

\* The data channel of a call ended: disconnect the call if it is established.
l2tp_session_apses_finished(w, s, f) ==
    IF s \in w.tun.sessions /\ w.ses[s].state1 = "ESTB"
    THEN l2tp_session_disconnect_push(w, s, f) ELSE w

\* The next call queued on the tunnel's context.
TunnelCall(new, f) ==
    /\ Registered /\ l2tp.tun.calls # <<>>
    /\ LET w == [l2tp EXCEPT !.tun.calls = Tail(@)]
           call == Head(l2tp.tun.calls)
       IN  l2tp' = CASE call = "send_SCCRP" -> l2tp_send_SCCRP(w, f)
                     [] call = "send_SCCRQ" -> l2tp_send_SCCRQ(w, f)
                     [] call = "create_session" -> l2tp_tunnel_create_session(w, new, f)
                     [] OTHER -> l2tp_session_apses_finished(w, call, f)

\* The handshake took longer than timeout; its first message went out long
\* before.
l2tp_tunnel_timeout(f) ==
    /\ Registered /\ l2tp.tun.timeout_timer /\ l2tp.tun.state \notin {"INIT", "FIN_WAIT"}
    /\ l2tp' = l2tp_tunnel_disconnect_push([l2tp EXCEPT !.tun.timeout_timer = FALSE], f)

l2tp_tunnel_finwait_timeout ==
    /\ Registered /\ l2tp.tun.timeout_timer /\ l2tp.tun.state = "FIN_WAIT"
    /\ l2tp' = l2tp_tunnel_free(l2tp)

l2tp_session_timeout(s, f) ==
    /\ Registered /\ l2tp.ses[s].timeout_timer
    /\ l2tp' = l2tp_session_disconnect_push([l2tp EXCEPT !.ses[s].timeout_timer = FALSE], s, f)

\* The peer stopped acknowledging (L2tpChannel.l2tp_rtimeout gave up).
l2tp_rtimeout ==
    /\ Registered /\ l2tp.tun.unacked
    /\ l2tp' = l2tp_tunnel_free(l2tp)

l2tp_send_HELLO(f) ==
    /\ Registered /\ l2tp.tun.hello_timer
    /\ l2tp' = IF f \in {"send", "push"} THEN l2tp_tunnel_free(l2tp) ELSE l2tp_tunnel_send(l2tp)

\* The daemon shuts down: a context is closed once its queued calls have run.
l2tp_conn_close(f) ==
    /\ Registered /\ l2tp.tun.calls = <<>>
    /\ l2tp' = l2tp_tunnel_disconnect_push(l2tp, f)

-----------------------------------------------------------------------------
(* The data channel, in its own context. *)

\* Unregistering the context drops the calls still queued on it.
__apses_destroy(w, s) ==
    session_put([w EXCEPT !.ses[s].apses_ctx = FALSE, !.ses[s].calls = <<>>,
                          !.stat.ap.finishing = @ - 1], s)

\* Tell the tunnel, if it still has a context.
Notify(w, s) == IF w.tun.ctx THEN [w EXCEPT !.tun.calls = Append(@, s)] ELSE w

ApFinishing(w, s) ==
    LET w1 == IF w.ses[s].apses_state = "FINISHING" THEN w
              ELSE Move(w, "ap", ApPhase(w.ses[s].apses_state), "finishing")
    IN  [w1 EXCEPT !.ses[s].apses_state = "FINISHING"]

\* PPP ended: the reference is dropped by a call, since PPP still runs.
apses_finished(w, s) ==
    LET w1 == Notify(ApFinishing(w, s), s) IN [w1 EXCEPT !.ses[s].calls = Append(@, "destroy")]

\* A hard terminate makes PPP call apses_finished unless it already has.
apses_stop(w, s) ==
    LET w1 == ApFinishing(w, s)
        w2 == IF w.ses[s].apses_state \in {"STARTING", "STARTED"}
              THEN apses_finished(w1, s) ELSE Notify(w1, s)
    IN  __apses_destroy(w2, s)

\* The daemon shuts down.
apses_ctx_stop(s) ==
    /\ l2tp.ses[s].apses_ctx /\ l2tp.ses[s].calls = <<>>
    /\ l2tp' = apses_stop(l2tp, s)

apses_start(w, s, f) == IF f = "kernel" THEN apses_stop(w, s)
                        ELSE [w EXCEPT !.ses[s].apses_state = "STARTING"]

ApsesCall(s, f) ==
    /\ l2tp.ses[s].apses_ctx /\ l2tp.ses[s].calls # <<>>
    /\ LET w == [l2tp EXCEPT !.ses[s].calls = Tail(@)]
           call == Head(l2tp.ses[s].calls)
       IN  l2tp' = CASE call = "start" -> IF w.ses[s].apses_state = "INIT" THEN apses_start(w, s, f) ELSE w
                     [] call = "stop" -> apses_stop(w, s)
                     [] OTHER -> __apses_destroy(w, s)

\* PPP reports that it is up, or that it has ended by itself.
apses_started(s) ==
    /\ l2tp.ses[s].apses_ctx /\ l2tp.ses[s].apses_state = "STARTING"
    /\ l2tp' = [Move(l2tp, "ap", "starting", "active") EXCEPT !.ses[s].apses_state = "STARTED"]

ApsesEnds(s) ==
    /\ l2tp.ses[s].apses_ctx /\ l2tp.ses[s].apses_state \in {"STARTING", "STARTED"}
    /\ l2tp' = apses_finished(l2tp, s)

-----------------------------------------------------------------------------
L2tpInit == l2tp = [tun |-> NoTunnel, ses |-> [s \in Sids |-> NoSession],
                    stat |-> [conn |-> NoCount, sess |-> NoCount, ap |-> NoCount],
                    start |-> NoStart, stale |-> FALSE, reopened |-> FALSE]

\* The identifier of a new call is drawn until a free one is found; without
\* one, allocation fails.
NewSid(new, f) == IF FreeSids = {} THEN new \in Sids /\ f = "alloc" ELSE new \in FreeSids

Inputs == [m : TunnelMsgs, sid : {0}, new : {0}] \cup [m : CallReqs, sid : {0}, new : Sids]
          \cup [m : CallMsgs, sid : Sids, new : {0}]
\* A message that its handler ignores is tried with one set of fields.
Awaits(m) == CASE m.type = "SCCRP" -> l2tp.tun.state = "WAIT_SCCRP"
               [] m.type = "SCCCN" -> l2tp.tun.state = "WAIT_SCCCN"
               [] OTHER -> TRUE
Plain(m) == m.attr = "ok" /\ ~m.chall /\ m.resp = "none" /\ m.f \in {"none", "push"}
Peer == \E i \in Inputs :
           /\ Awaits(i.m) \/ Plain(i.m)
           /\ i.new # 0 => NewSid(i.new, i.m.f) /\ Len(l2tp.tun.calls) <= 1  \* bound on queued calls
           /\ l2tp_conn_read(i.m, i.sid, i.new)

Cli == \/ \E chall \in BOOLEAN, f \in {"none", "alloc", "call"} : l2tp_recv_SCCRQ(chall, f)
       \/ \E lns \in BOOLEAN, f \in {"none", "call"} : l2tp_create_tunnel_exec(lns, f)
       \/ l2tp_create_session_exec

Timers == \/ \E f \in {"none", "send", "push"} :
                l2tp_tunnel_timeout(f) \/ l2tp_send_HELLO(f) \/ l2tp_conn_close(f)
          \/ \E s \in Sids, f \in {"none", "send", "push"} : l2tp_session_timeout(s, f)
          \/ l2tp_tunnel_finwait_timeout \/ l2tp_rtimeout \/ l2tp_conn_refused

Calls == \/ \E new \in Sids, f \in Fails : NewSid(new, f) /\ TunnelCall(new, f)
         \/ \E s \in Sids, f \in {"none", "kernel"} : ApsesCall(s, f)
         \/ \E s \in Sids : apses_started(s) \/ ApsesEnds(s) \/ apses_ctx_stop(s)

Starts == \/ \E f \in {"none", "timer", "call"} : StartGoesOn(f)
          \/ \E fails \in BOOLEAN : ChannelGoesOn(fails)

\* What happens after the use of freed memory is not defined.
L2tpNext == ~l2tp.stale /\ (Peer \/ Cli \/ Timers \/ Calls \/ Starts)

L2tpSpec == L2tpInit /\ [][L2tpNext]_l2tp
-----------------------------------------------------------------------------
(* Properties. *)

\* Each statistic of "l2tp show stat" counts exactly the tunnels, the calls and
\* the data channels in that phase, whatever order the contexts ran in: a data
\* channel from the end of its start, a tunnel unless it was disconnected
\* before its first message.
L2tpCountersExact ==
    ~l2tp.stale => \A p \in Phases :
        /\ \/ l2tp.reopened
           \/ l2tp.stat.conn[p] = IF l2tp.tun.state # "free" /\ TunPhase(l2tp.tun.state) = p THEN 1 ELSE 0
        /\ l2tp.stat.sess[p] = Cardinality({s \in Sids : l2tp.ses[s].state1 # "free"
                                               /\ SesPhase(l2tp.ses[s].state1) = p})
        /\ l2tp.stat.ap[p] + (IF p = "starting" /\ l2tp.tun.pc.at # "none" THEN 1 ELSE 0)
             = Cardinality({s \in Sids : l2tp.ses[s].apses_ctx /\ ApPhase(l2tp.ses[s].apses_state) = p})

\* A reference is held for every user: the tunnel is freed neither while a call
\* of it exists nor while it is listed or its handler runs, a call not while
\* its data channel runs, and nothing runs in what was freed (but for the
\* thread that starts it, StarterOutlived).
L2tpReferences ==
    ~l2tp.stale =>
      /\ l2tp.tun.ref_count = (IF l2tp.tun.listed THEN 1 ELSE 0) + (IF l2tp.tun.pc = NoCall THEN 0 ELSE 1)
                               + Cardinality({s \in Sids : l2tp.ses[s].state1 # "free"})
      /\ \A s \in Sids :
            l2tp.ses[s].ref_count = (IF l2tp.ses[s].state1 \in {"free", "CLOSE"} THEN 0 ELSE 2)
                                    + (IF l2tp.ses[s].apses_ctx THEN 1 ELSE 0)
      /\ l2tp.tun.state = "free" => l2tp.tun = NoTunnel
      /\ \A s \in Sids : l2tp.ses[s].state1 = "free" => l2tp.ses[s] = NoSession

\* Does not hold: the context of a tunnel or of a data channel runs before
\* its start is over, and what it frees is used by who starts it.
StarterOutlived == ~l2tp.stale

\* Does not hold: l2tp_send_SCCRQ and l2tp_send_SCCRP open a tunnel that was
\* disconnected before they ran, and it is counted as finishing.
OpenedOnce == ~l2tp.reopened

\* A tunnel that is up was proved to know the secret by answering our challenge.
TunnelAuthenticated == Secret /\ l2tp.tun.state = "ESTB" => l2tp.tun.proved

\* A call that was closed has a data channel only while that is being told to
\* stop, and a tunnel being torn down has no calls.
ClosedCallsStop == ~l2tp.stale =>
    /\ \A s \in Sids : l2tp.ses[s].state1 = "CLOSE" /\ l2tp.ses[s].apses_ctx =>
          {"stop", "destroy"} \cap ToSet(l2tp.ses[s].calls) # {}
    /\ l2tp.tun.state \in Closing => l2tp.tun.sessions = {}
    /\ l2tp.tun.sess_count = Cardinality(l2tp.tun.sessions)
=============================================================================
