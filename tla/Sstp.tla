-------------------------------- MODULE Sstp --------------------------------
(***************************************************************************)
(* SSTP connections (ctrl/sstp/sstp.c): accept, the PROXY header, the HTTP *)
(* request, the SSTP automaton with its crypto binding, the pty that       *)
(* carries PPP, the hello and timeout timers, and the events of the PPP    *)
(* session (external: only its order of events is used).                   *)
(*                                                                         *)
(* The C functions are operators on the world w and a connection c.  Those *)
(* that return int give [w, r]; r = -1 makes the caller drop the           *)
(* connection.  f names the allocation that fails during the handler.      *)
(***************************************************************************)
EXTENDS Integers, FiniteSets, SequencesExt

CONSTANTS SstpConns,        \* bound: connections that exist at a time
          ProxyProto, HelloInterval,   \* proxy-protocol, hello-interval # 0
          MaxNak,           \* nak_sent reaches it before the call is aborted
          MaxDeferred       \* bound: CALL_CONNECTED messages that wait

VARIABLE sstp   \* [conn, starting, active, uncounted, shutdown]

NoSstp == [used |-> FALSE, handler |-> "none", state |-> "none", ppp |-> "INIT", hnd |-> FALSE,
           ppp_hnd |-> FALSE, timer |-> FALSE, hello |-> FALSE, hello_sent |-> 0, nak |-> 0,
           deferred |-> <<>>, hlak_key |-> FALSE, pass |-> FALSE, bound |-> FALSE,
           ses |-> "none", calls |-> {}, closed |-> FALSE]

Abort1 == {"CALL_ABORT_TIMEOUT_PENDING", "CALL_ABORT_PENDING"}
Disc1 == {"CALL_DISCONNECT_ACK_PENDING", "CALL_DISCONNECT_TIMEOUT_PENDING"}
Pending == Abort1 \cup Disc1
Live == {"STARTING", "AUTHORIZED", "STARTED"}

Ok(w) == [w |-> w, r |-> 0]
Err(w) == [w |-> w, r |-> -1]
Sent(w, f) == [w |-> w, r |-> IF f = "nomem" THEN -1 ELSE 0]

sstp_send(w, c, f) == Sent(w, f)
-----------------------------------------------------------------------------
(* Ending. *)

\* Mutant: the aborted call has no timeout.
sstp_abort_Untimed(w, c, disconnect, f) ==
    sstp_send([w EXCEPT !.conn[c].state = IF disconnect THEN "CALL_DISCONNECT_ACK_PENDING"
                                          ELSE "CALL_ABORT_PENDING"], c, f)

\* Every message of ours is built and queued; only building it can fail, and
\* the state moves on all the same.
sstp_abort(w, c, disconnect, f) ==
    sstp_send([w EXCEPT !.conn[c].timer = TRUE,
                        !.conn[c].state = IF disconnect THEN "CALL_DISCONNECT_ACK_PENDING"
                                          ELSE "CALL_ABORT_PENDING"], c, f)

\* Unregistering the context drops its calls; the PPP session is terminated
\* at once (its finished event finds FINISHED).
sstp_disconnect(w, c) ==
    [w EXCEPT !.conn[c] = NoSstp,
              !.starting = IF w.conn[c].ppp = "INIT" THEN @ - 1 ELSE @,
              !.active = IF w.conn[c].ppp # "INIT" THEN @ - 1 ELSE @]

Conclude(o, c) == IF o.r < 0 THEN sstp_disconnect(o.w, c) ELSE o.w
Post(w, c) == [w EXCEPT !.conn[c].calls = @ \cup {"disconnect"}]

sstp_timeout(w, c, f) ==
    LET x == [w EXCEPT !.conn[c].timer = FALSE]
    IN IF w.conn[c].state \in Pending THEN Post(x, c) ELSE sstp_abort(x, c, FALSE, f).w

sstp_close(w, c, f) ==
    IF w.conn[c].ppp \in Live
    THEN sstp_abort([w EXCEPT !.conn[c].ppp = "FINISHED", !.conn[c].ses = "none"], c, TRUE, f).w
    ELSE sstp_abort(w, c, FALSE, f).w

\* The second silent interval ends the call.  idle: the unit received data.
sstp_msg_echo(w, c, idle, f) ==
    IF w.conn[c].state # "SERVER_CALL_CONNECTED" \/ ~idle THEN w
    ELSE IF w.conn[c].hello_sent > 0
    THEN sstp_abort([w EXCEPT !.conn[c].hello_sent = @ + 1], c, FALSE, f).w
    ELSE sstp_send([w EXCEPT !.conn[c].hello_sent = @ + 1], c, f).w
-----------------------------------------------------------------------------
(* Messages.  "bad" is one whose header or attribute does not fit. *)

sstp_recv_msg_call_connect_request(w, c, arg, f) ==
    LET st == w.conn[c].state
        estb == [w EXCEPT !.conn[c].state = "SERVER_CALL_CONNECTED_PENDING", !.conn[c].ppp = "STARTING",
                          !.conn[c].ppp_hnd = TRUE, !.conn[c].ses = "up",
                          !.starting = @ - 1, !.active = @ + 1]
    IN CASE st \in Pending -> Ok(w)
         [] st # "SERVER_CONNECT_REQUEST_PENDING" \/ arg = "bad" -> sstp_abort(w, c, FALSE, f)
         [] OTHER ->
            IF arg = "proto"
            THEN IF w.conn[c].nak = MaxNak THEN sstp_abort(w, c, FALSE, f)
                 ELSE sstp_send([w EXCEPT !.conn[c].nak = @ + 1], c, f)
            ELSE CASE f \in {"pty", "nomem"} -> Err(w)
                   [] f = "ppp" -> Err([estb EXCEPT !.conn[c].ppp = "FINISHED", !.conn[c].ses = "none",
                                                    !.conn[c].ppp_hnd = FALSE])
                   [] OTHER -> Ok(estb)

\* The compound MAC is computed with the key of the authentication, so the
\* message waits for it; arg: "bad" (header, nonce, certificate), "wrong" (MAC).
sstp_recv_msg_call_connected(w, c, arg, f) ==
    LET st == w.conn[c].state
    IN CASE st \in Pending -> Ok(w)
         [] st # "SERVER_CALL_CONNECTED_PENDING" -> Ok(sstp_abort(w, c, FALSE, f).w)
         [] arg = "bad" -> sstp_abort(w, c, FALSE, f)
         [] w.conn[c].hlak_key /\ w.conn[c].ppp = "STARTING" ->
            IF f = "nomem" THEN Err(w) ELSE Ok([w EXCEPT !.conn[c].deferred = Append(@, arg)])
         [] arg = "wrong" /\ w.conn[c].hlak_key -> sstp_abort(w, c, FALSE, f)
         [] OTHER -> Ok([w EXCEPT !.conn[c].timer = FALSE, !.conn[c].state = "SERVER_CALL_CONNECTED",
                                  !.conn[c].pass = TRUE, !.conn[c].hlak_key = FALSE,
                                  !.conn[c].bound = (arg = "ok"), !.conn[c].hello = HelloInterval])

sstp_recv_msg_call_abort(w, c, f) ==
    LET x == [w EXCEPT !.conn[c].timer = TRUE, !.conn[c].state = "CALL_ABORT_TIMEOUT_PENDING"]
    IN CASE w.conn[c].state = "CALL_ABORT_PENDING" -> Ok(x)
         [] w.conn[c].state \in {"CALL_ABORT_TIMEOUT_PENDING", "CALL_DISCONNECT_TIMEOUT_PENDING"} -> Ok(w)
         [] OTHER -> sstp_send(x, c, f)

sstp_recv_msg_call_disconnect(w, c, f) ==
    IF w.conn[c].state \in Pending \ {"CALL_DISCONNECT_ACK_PENDING"} THEN Ok(w)
    ELSE sstp_send([w EXCEPT !.conn[c].timer = TRUE,
                             !.conn[c].state = "CALL_DISCONNECT_TIMEOUT_PENDING"], c, f)

sstp_recv_msg_call_disconnect_ack(w, c, f) ==
    CASE w.conn[c].state = "CALL_DISCONNECT_ACK_PENDING" ->
            Ok(Post([w EXCEPT !.conn[c].state = "SERVER_CALL_DISCONNECTED"], c))
      [] w.conn[c].state \in Pending -> Ok(w)
      [] OTHER -> sstp_abort(w, c, FALSE, f)

Echo(w, c, f, answer) ==
    CASE w.conn[c].state = "SERVER_CALL_CONNECTED" -> answer
      [] w.conn[c].state \in Pending -> Ok(w)
      [] OTHER -> sstp_abort(w, c, FALSE, f)
sstp_recv_msg_echo_request(w, c, f) == Echo(w, c, f, sstp_send(w, c, f))
sstp_recv_msg_echo_response(w, c, f) == Echo(w, c, f, Ok([w EXCEPT !.conn[c].hello_sent = 0]))

\* A frame for PPP; writing it may find the pty closed.
sstp_recv_data_packet(w, c, f) ==
    IF w.conn[c].state \notin {"SERVER_CALL_CONNECTED_PENDING", "SERVER_CALL_CONNECTED"} THEN Ok(w)
    ELSE Sent(w, f)

Messages == {"connect_request", "connected", "ack", "abort", "disconnect", "disconnect_ack",
             "echo_request", "echo_response", "data", "garbage"}

sstp_recv_packet(w, c, m, arg, f) ==
    CASE m = "connect_request" -> sstp_recv_msg_call_connect_request(w, c, arg, f)
      [] m = "connected" -> sstp_recv_msg_call_connected(w, c, arg, f)
      [] m = "ack" -> sstp_abort(w, c, FALSE, f)
      [] m = "abort" -> sstp_recv_msg_call_abort(w, c, f)
      [] m = "disconnect" -> sstp_recv_msg_call_disconnect(w, c, f)
      [] m = "disconnect_ack" -> sstp_recv_msg_call_disconnect_ack(w, c, f)
      [] m = "echo_request" -> sstp_recv_msg_echo_request(w, c, f)
      [] m = "echo_response" -> sstp_recv_msg_echo_response(w, c, f)
      [] m = "data" -> sstp_recv_data_packet(w, c, f)
      [] m = "garbage" -> Err(w)
-----------------------------------------------------------------------------
(* PROXY header, HTTP request, and what is read from the stream.            *)

\* arg "ok": a header whose client passes connlimit and the client range.
proxy_handler(w, c, arg) ==
    IF w.conn[c].state # "SERVER_CALL_DISCONNECTED" \/ arg # "ok" THEN Err(w)
    ELSE Ok([w EXCEPT !.conn[c].handler = "http"])

http_recv_request(w, arg, f) == IF arg = "ok" THEN Sent(w, f) ELSE Err(w)

http_handler(w, c, arg, f) ==
    IF w.conn[c].state # "SERVER_CALL_DISCONNECTED" THEN Err(w)
    ELSE http_recv_request([w EXCEPT !.conn[c].state = "SERVER_CONNECT_REQUEST_PENDING",
                                     !.conn[c].handler = "sstp"], arg, f)

sstp_handler(w, c, m, arg, f) == sstp_recv_packet(w, c, m, arg, f)

sstp_read(w, c, m, arg, f) ==
    Conclude(CASE w.conn[c].handler = "proxy" -> proxy_handler(w, c, arg)
               [] w.conn[c].handler = "http" -> http_handler(w, c, arg, f)
               [] w.conn[c].handler = "sstp" -> sstp_handler(w, c, m, arg, f), c)

\* The messages that waited for the authentication are handled again; a
\* failure frees the connection, and the session in it, under PPP's event.
sstp_read_deferred(w, c, f) ==
    Conclude(FoldLeft(LAMBDA o, arg : IF o.r < 0 THEN o ELSE sstp_recv_msg_call_connected(o.w, c, arg, f),
                      Ok([w EXCEPT !.conn[c].deferred = <<>>]), w.conn[c].deferred), c)
-----------------------------------------------------------------------------
(* PPP. *)

ev_ses_authorized(w, c, f) ==
    IF w.conn[c].ppp # "STARTING" THEN w
    ELSE sstp_read_deferred([w EXCEPT !.conn[c].ppp = "AUTHORIZED"], c, f)

ppp_started(w, c, f) ==
    IF w.conn[c].ppp \notin {"STARTING", "AUTHORIZED"} THEN w
    ELSE sstp_read_deferred([w EXCEPT !.conn[c].ppp = "STARTED"], c, f)

ppp_finished(w, c, f) ==
    IF w.conn[c].ppp \notin Live THEN w
    ELSE sstp_abort([w EXCEPT !.conn[c].ppp = "FINISHED"], c, TRUE, f).w

\* The pty fails: read drops the connection, write posts the drop.
ppp_read(w, c) == sstp_disconnect(w, c)
ppp_write(w, c) == Post(w, c)
sstp_write(w, c) == Post(w, c)
-----------------------------------------------------------------------------
(* Accepting. *)

sstp_start(w, c, f) ==
    LET x == [w EXCEPT !.conn[c].calls = @ \ {"start"}]
    IN IF f = "stream" THEN sstp_disconnect(x, c) ELSE [x EXCEPT !.conn[c].hnd = TRUE]

\* The limits and the other reasons to close the socket at once leave no
\* trace.  The connection is counted after its context was woken up.
sstp_connect(w, c) ==
    [w EXCEPT !.conn[c] = [NoSstp EXCEPT
                 !.used = TRUE, !.handler = IF ProxyProto THEN "proxy" ELSE "http",
                 !.state = "SERVER_CALL_DISCONNECTED", !.timer = TRUE, !.hlak_key = TRUE,
                 !.calls = {"start"}],
              !.uncounted = TRUE]
Counted(w) == [w EXCEPT !.uncounted = FALSE, !.starting = @ + 1]
-----------------------------------------------------------------------------
SstpInit == sstp = [conn |-> [c \in SstpConns |-> NoSstp], starting |-> 0, active |-> 0,
                    uncounted |-> FALSE, shutdown |-> FALSE]

Listener ==
    \/ ~sstp.uncounted /\ ~sstp.shutdown
       /\ \E c \in SstpConns : ~sstp.conn[c].used /\ sstp' = sstp_connect(sstp, c)
    \/ sstp.uncounted /\ sstp' = Counted(sstp)

\* A call, a packet, a timer, or the shutdown (sstp_close runs once).
ConnStep(c) ==
    /\ sstp.conn[c].used
    /\ \E f \in {"none", "nomem"} :
       \/ "start" \in sstp.conn[c].calls /\ sstp' = sstp_start(sstp, c, IF f = "none" THEN f ELSE "stream")
       \/ sstp.conn[c].timer /\ sstp' = sstp_timeout(sstp, c, f)
       \/ sstp.conn[c].hello /\ \E idle \in BOOLEAN : sstp' = sstp_msg_echo(sstp, c, idle, f)
       \/ sstp.conn[c].hnd /\ \E m \in Messages, arg \in {"ok", "wrong", "bad", "proto"} :
             /\ arg = "proto" => m = "connect_request"
             /\ arg = "wrong" => m = "connected"
             /\ m = "connected" => Len(sstp.conn[c].deferred) < MaxDeferred
             /\ sstp' = sstp_read(sstp, c, m, arg, f)
       \/ sstp.conn[c].hnd /\ sstp.conn[c].state = "SERVER_CONNECT_REQUEST_PENDING" /\ f = "none"
          /\ \E g \in {"pty", "ppp"} : sstp' = sstp_read(sstp, c, "connect_request", "ok", g)
       \/ sstp.shutdown /\ ~sstp.conn[c].closed
          /\ sstp' = sstp_close([sstp EXCEPT !.conn[c].closed = TRUE], c, f)

Broken(c) ==
    /\ sstp.conn[c].used
    /\ \/ "start" \notin sstp.conn[c].calls /\ "disconnect" \in sstp.conn[c].calls
          /\ sstp' = sstp_disconnect(sstp, c)
       \/ sstp.conn[c].hnd /\ sstp' \in {sstp_disconnect(sstp, c), sstp_write(sstp, c)}
       \/ sstp.conn[c].ppp_hnd /\ sstp' \in {ppp_read(sstp, c), ppp_write(sstp, c)}

PppStep(c) ==
    \E f \in {"none", "nomem"} :
       \/ sstp.conn[c].ses = "up"
          /\ sstp' = ev_ses_authorized([sstp EXCEPT !.conn[c].ses = "authorized"], c, f)
       \/ sstp.conn[c].ses = "authorized"
          /\ sstp' = ppp_started([sstp EXCEPT !.conn[c].ses = "started"], c, f)
       \/ sstp.conn[c].ses # "none"
          /\ sstp' = ppp_finished([sstp EXCEPT !.conn[c].ses = "none"], c, f)

Stop == ~sstp.shutdown /\ sstp' = [sstp EXCEPT !.shutdown = TRUE]

SstpNext == Listener \/ Stop \/ \E c \in SstpConns : ConnStep(c) \/ Broken(c) \/ PppStep(c)
SstpSpec == SstpInit /\ [][SstpNext]_sstp
-----------------------------------------------------------------------------
Used(P(_)) == Cardinality({c \in SstpConns : sstp.conn[c].used /\ P(sstp.conn[c])})

\* A connection is counted as starting until its PPP is established and as
\* active from then until it is freed, whichever of the peer, the timers, PPP
\* and the shutdown ends it (the connection just accepted is counted late).
SstpCountersExact ==
    /\ sstp.starting + (IF sstp.uncounted THEN 1 ELSE 0) = Used(LAMBDA x : x.ppp = "INIT")
    /\ sstp.active = Used(LAMBDA x : x.ppp # "INIT")

\* A connection that is not (or no longer) in a call can not be forgotten: its
\* timeout timer runs or its end is queued; and one in a call has a session
\* that will tell it when it ends.
SstpTimed ==
    \A c \in SstpConns : sstp.conn[c].used =>
        \/ sstp.conn[c].timer \/ "disconnect" \in sstp.conn[c].calls
        \/ sstp.conn[c].state = "SERVER_CALL_CONNECTED" /\ sstp.conn[c].ppp \in Live
                                                        /\ sstp.conn[c].ses # "none"

\* Network packets pass only after the session was authorized and the client
\* proved, with the key of that authentication, that it is the one whose TLS
\* connection carries the session.
BoundBeforeTraffic ==
    \A c \in SstpConns : sstp.conn[c].pass => sstp.conn[c].bound /\ sstp.conn[c].ppp # "STARTING"
=============================================================================
