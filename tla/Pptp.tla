-------------------------------- MODULE Pptp --------------------------------
(***************************************************************************)
(* One PPTP control connection (ctrl/pptp/pptp.c): accept, the control     *)
(* messages, the call that starts PPP, the echo and timeout timers, and    *)
(* the ends that the peer, PPP, the timers and the shutdown bring about.   *)
(*                                                                         *)
(* The C functions are operators on the world w; those that return int     *)
(* give [w, r], and r = -1 makes the caller disconnect.  f names the       *)
(* system call that fails during the handler.                              *)
(***************************************************************************)
EXTENDS Integers

CONSTANTS EchoFailure       \* echo-failure; 0 with echo-interval = 0

VARIABLE pptp   \* [conn, starting, active, uncounted, shutdown]

NoPptp == [used |-> FALSE, state |-> "none", timeout_timer |-> FALSE, echo_timer |-> FALSE,
           echo_sent |-> 0, ses |-> FALSE, cleared |-> FALSE, call |-> FALSE, closed |-> FALSE]

PptpRet(w, r) == [w |-> w, r |-> r]
-----------------------------------------------------------------------------
\* Mutant: the call that was closed already is counted down again.
disconnect_Twice(w) ==
    [w EXCEPT !.conn = NoPptp,
              !.active = IF w.conn.state = "PPP" THEN @ - 1 ELSE @,
              !.starting = IF w.conn.state # "PPP" THEN @ - 1 ELSE @]

\* The hard termination runs ppp_finished at once, which finds STATE_CLOSE;
\* unregistering the context drops the queued call.
disconnect(w) ==
    [w EXCEPT !.conn = NoPptp,
              !.active = IF w.conn.state = "PPP" THEN @ - 1 ELSE @,
              !.starting = IF w.conn.state \notin {"PPP", "CLOSE"} THEN @ - 1 ELSE @]

\* A message that cannot be written now is lost (out_size stays 0), and that
\* is not an error.
post_msg(w, f) == PptpRet(w, IF f = "write" THEN -1 ELSE 0)

send_pptp_stop_ctrl_conn_rqst(w, f) == post_msg(w, f)
send_pptp_stop_ctrl_conn_rply(w, f) == post_msg(w, f)
send_pptp_start_ctrl_conn_rply(w, f) == post_msg(w, f)
send_pptp_out_call_rply(w, f) == post_msg(w, f)
send_pptp_call_disconnect_notify(w, f) == post_msg(w, f)

pptp_stop_ctrl_conn_rqst(w, f) == PptpRet(send_pptp_stop_ctrl_conn_rply(w, f).w, -1)
pptp_stop_ctrl_conn_rply(w) == PptpRet(w, -1)

pptp_start_ctrl_conn_rqst(w, version, f) ==
    LET o == send_pptp_start_ctrl_conn_rply(w, f)
    IN IF w.conn.state # "IDLE" \/ ~version \/ o.r < 0 THEN o
       ELSE PptpRet([w EXCEPT !.conn.state = "ESTB"], 0)

pptp_out_call_rqst(w, f) ==
    CASE w.conn.state # "ESTB" -> send_pptp_out_call_rply(w, f)
      [] w.conn.state = "ESTB" /\ f = "socket" -> PptpRet(w, -1)
      [] w.conn.state = "ESTB" /\ f = "write" -> send_pptp_out_call_rply(w, f)
      [] w.conn.state = "ESTB" /\ f = "ppp" -> PptpRet([w EXCEPT !.conn.state = "FIN"], -1)
      [] OTHER -> PptpRet([w EXCEPT !.conn.state = "PPP", !.conn.ses = TRUE, !.starting = @ - 1,
                                    !.active = @ + 1, !.conn.timeout_timer = FALSE,
                                    !.conn.echo_timer = EchoFailure > 0], 0)

\* The session ends, and the connection waits for the peer to close it: no
\* timer runs.
pptp_call_clear_rqst(w, f) ==
    LET x == [w EXCEPT !.conn.echo_timer = FALSE]
    IN send_pptp_call_disconnect_notify(
          IF w.conn.state = "PPP"
          THEN [x EXCEPT !.active = @ - 1, !.conn.state = "CLOSE", !.conn.ses = FALSE, !.conn.cleared = TRUE]
          ELSE x, f)

pptp_echo_rqst(w, f) == post_msg(w, f)
pptp_echo_rply(w) == PptpRet([w EXCEPT !.conn.echo_sent = 0], 0)

process_packet(w, m, f) ==
    CASE m = "start" -> pptp_start_ctrl_conn_rqst(w, TRUE, f)
      [] m = "version" -> pptp_start_ctrl_conn_rqst(w, FALSE, f)
      [] m = "stop_rqst" -> pptp_stop_ctrl_conn_rqst(w, f)
      [] m = "stop_rply" -> pptp_stop_ctrl_conn_rply(w)
      [] m = "out_call" -> pptp_out_call_rqst(w, f)
      [] m = "echo_rqst" -> pptp_echo_rqst(w, f)
      [] m = "echo_rply" -> pptp_echo_rply(w)
      [] m = "clear" -> pptp_call_clear_rqst(w, f)
      [] m = "garbage" -> PptpRet(w, -1)
PptpMessages == {"start", "version", "stop_rqst", "stop_rply", "out_call", "echo_rqst", "echo_rply",
                 "clear", "garbage"}

Drop(o) == IF o.r < 0 THEN disconnect(o.w) ELSE o.w
pptp_read(w, m, f) == Drop(process_packet(w, m, f))
pptp_write(w) == disconnect(w)
pptp_timeout(w) == disconnect(w)

pptp_send_echo(w, f) ==
    LET x == [w EXCEPT !.conn.echo_sent = @ + 1]
    IN IF x.conn.echo_sent = EchoFailure THEN disconnect(x) ELSE Drop(post_msg(x, f))

\* The last message failed: the disconnect is queued.  Otherwise the peer has
\* the timeout to close the connection.
Await(o) == IF o.r < 0 THEN [o.w EXCEPT !.conn.call = TRUE] ELSE [o.w EXCEPT !.conn.timeout_timer = TRUE]

pptp_close(w, f) ==
    IF w.conn.state = "PPP"
    THEN Await(send_pptp_call_disconnect_notify(
                  [w EXCEPT !.active = @ - 1, !.conn.state = "CLOSE", !.conn.ses = FALSE], f))
    ELSE Await(send_pptp_stop_ctrl_conn_rqst(w, f))

pptp_ppp_finished(w, f) ==
    IF w.conn.state = "CLOSE" THEN w
    ELSE Await(send_pptp_stop_ctrl_conn_rqst(
                  send_pptp_call_disconnect_notify([w EXCEPT !.conn.state = "CLOSE", !.active = @ - 1], f).w, f))

\* Sockets closed at once (shutdown, limits) leave no trace.  The connection
\* is counted after its context was woken up.
pptp_connect(w) ==
    [w EXCEPT !.conn = [NoPptp EXCEPT !.used = TRUE, !.state = "IDLE", !.timeout_timer = TRUE],
              !.uncounted = @ + 1]
-----------------------------------------------------------------------------
PptpInit == pptp = [conn |-> NoPptp, starting |-> 0, active |-> 0, uncounted |-> 0, shutdown |-> FALSE]

PptpServ ==
    \/ pptp.uncounted = 0 /\ ~pptp.conn.used /\ ~pptp.shutdown /\ pptp' = pptp_connect(pptp)
    \/ pptp.uncounted > 0 /\ pptp' = [pptp EXCEPT !.uncounted = @ - 1, !.starting = @ + 1]
    \/ ~pptp.shutdown /\ pptp' = [pptp EXCEPT !.shutdown = TRUE]

PptpConn ==
    /\ pptp.conn.used
    /\ \E f \in {"none", "write", "socket", "ppp"} :
       \/ \E m \in PptpMessages : pptp' = pptp_read(pptp, m, f)
       \/ pptp.conn.echo_timer /\ pptp' = pptp_send_echo(pptp, f)
       \/ pptp.shutdown /\ ~pptp.conn.closed /\ pptp' = pptp_close([pptp EXCEPT !.conn.closed = TRUE], f)
       \/ pptp.conn.ses /\ pptp' = pptp_ppp_finished([pptp EXCEPT !.conn.ses = FALSE], f)
       \/ f = "write" /\ pptp' = pptp_write(pptp)
       \/ f = "none" /\ pptp.conn.timeout_timer /\ pptp' = pptp_timeout(pptp)
       \/ f = "none" /\ pptp.conn.call /\ pptp' = disconnect(pptp)

PptpNext == PptpServ \/ PptpConn
PptpSpec == PptpInit /\ [][PptpNext]_pptp
-----------------------------------------------------------------------------
\* A connection is counted as starting until PPP is established, as active
\* while it has a session, and no more once it is closing, whichever side ends
\* the call and however often.
PptpCountersExact ==
    LET in(S) == IF pptp.conn.used /\ pptp.conn.state \in S THEN 1 ELSE 0
    IN /\ pptp.starting + pptp.uncounted = in({"IDLE", "ESTB", "FIN"})
       /\ pptp.active = in({"PPP"})

\* A connection without a session ends by itself: a timer runs or its end is
\* queued.  Only a call that the peer cleared is left to the peer.
PptpTimed ==
    pptp.conn.used =>
        \/ pptp.conn.timeout_timer \/ pptp.conn.call \/ pptp.conn.cleared
        \/ pptp.conn.state = "PPP" /\ pptp.conn.ses
=============================================================================
