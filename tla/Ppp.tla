-------------------------------- MODULE Ppp --------------------------------
(***************************************************************************)
(* One PPP session over PPPoE: the layers lcp, auth and the network        *)
(* protocols (micro-bngd/ppp/ppp.c, ppp_lcp.c, ppp_auth.c, ppp_ipcp.c,     *)
(* ppp_ipv6cp.c, ppp_ccp.c), the authentication protocol (auth_pap.c), the *)
(* session's life (session.c) and the PPPoE connection that owns it        *)
(* (ctrl/pppoe/pppoe.c).                                                   *)
(*                                                                         *)
(* All of it runs in the connection's triton context, so one handler (a    *)
(* packet, a timer, a queued call) is one step.  Inside a handler the code *)
(* re-enters itself through callbacks: a layer that comes up starts the    *)
(* next one, which may fail and terminate the session, which finishes the  *)
(* layer that is still coming up.  A handler is therefore written as an    *)
(* operator on the whole state s = [fsm, ld, ses], and callbacks are       *)
(* applied to s exactly where the code calls them.                         *)
(*                                                                         *)
(* The peer may send any packet at any time, until it falls silent for     *)
(* good (the line is cut, the host is powered off).  env says what the     *)
(* rest of the system answers during one handler: send, the outcome of     *)
(* asking for an address for each network protocol; ifup, whether the      *)
(* interface comes up, or a shutdown of the daemon keeps the session from  *)
(* becoming active.                                                        *)
(***************************************************************************)
EXTENDS PppFsm, Sequences, FiniteSets

CONSTANTS
    PppConfs,     \* configurations: [order, mode, noauth], see below
    EchoOn,       \* lcp-echo-interval is set
    EchoFailure,  \* conf_echo_failure
    EchoTimeout,  \* lcp-echo-timeout is set
    TimeoutOn,    \* the session has a session or idle timeout
    PeerCodes,    \* what the peer may do: kinds of packet, or "Silence"
    MaxPadt       \* bound on queued disconnect calls

VARIABLES
    fsm,  \* [Automaton -> Fsm]
    ld,   \* [Layer -> flags of struct ppp_layer_data_t and of the layer]
    ses   \* struct ap_session, ppp_t and pppoe_conn_t

vars == <<fsm, ld, ses>>

NcpOrder == ses.conf.order  \* the network protocols, in the order they registered
Mode == ses.conf.mode       \* Ncp -> {"require", "prefer", "allow", "deny"}
NoAuth == ses.conf.noauth   \* conf_noauth

Ncp == DOMAIN Mode
Automaton == {"lcp"} \cup Ncp
Layer == {"lcp", "auth"} \cup Ncp

(* Each of the three network protocols registers at most once.             *)
ASSUME PppAssumption ==
    /\ \A c \in PppConfs :
          /\ c.order \in Seq({"ccp", "ipcp", "ipv6cp"}) /\ Len(c.order) <= 3
          /\ c.noauth \in BOOLEAN
          /\ c.mode \in [{c.order[i] : i \in 1..Len(c.order)}
                            -> {"require", "prefer", "allow", "deny"}]
    /\ EchoOn \in BOOLEAN /\ EchoTimeout \in BOOLEAN /\ TimeoutOn \in BOOLEAN
    /\ EchoFailure \in Nat /\ MaxPadt \in Nat

Optional(n) == n = "ccp" /\ Mode[n] # "require"

Env == [send: [Ncp -> {"ok", "close", "fail"}], ifup: {"up", "fail", "shutdown"}]

Quiet == [send |-> [n \in Ncp |-> "ok"], ifup |-> "up"]

(* The answers that matter now: a protocol with an address asks no more,   *)
(* and the interface comes up once.                                        *)
EnvNow == {env \in Env :
             /\ \A n \in Ncp : ld[n].addr => env.send[n] = "ok"
             /\ ses.state # "starting" => env.ifup = "up"}

(* The same, for handlers that can start only protocols of ns.             *)
EnvFor(ns) == {env \in EnvNow : \A n \in Ncp \ ns : env.send[n] = "ok"}

Call == {"connect", "lcpFinished", "authStarted", "disconnect"}

(* struct ppp_layer_data_t and the flags of the layers' own structures.    *)
Flags == [begun: BOOLEAN, up: BOOLEAN, starting: BOOLEAN, started: BOOLEAN,
          finished: BOOLEAN, passive: BOOLEAN, delay: BOOLEAN, addr: BOOLEAN,
          timeout: BOOLEAN]

Ses == [state: {"none", "starting", "active", "finishing"},
        terminating: BOOLEAN, finished: BOOLEAN, down: BOOLEAN,
        timer: BOOLEAN, echo: BOOLEAN, echoSent: 0..(EchoFailure + 1),
        auth: {"off", "active", "acked"}, authTimer: BOOLEAN,
        query: BOOLEAN, calls: Seq(Call), linked: BOOLEAN,
        freed: BOOLEAN, gone: BOOLEAN, silent: BOOLEAN,
        bad: BOOLEAN, conf: PppConfs]

TypeOK ==
    /\ fsm \in [Automaton -> Fsm]
    /\ ld \in [Layer -> Flags]
    /\ ses \in Ses

(* init_layers: the passive flag comes from the configuration.             *)
NewLayer(d) ==
    [begun |-> FALSE, up |-> FALSE, starting |-> FALSE, started |-> FALSE,
     finished |-> FALSE, delay |-> FALSE, addr |-> d = "ccp",
     timeout |-> FALSE, passive |-> d \in Ncp /\ Mode[d] \in {"allow", "deny"}]

Init ==
    /\ \E c \in PppConfs :
          ses = [state |-> "none", terminating |-> FALSE, finished |-> FALSE,
                 down |-> FALSE, timer |-> FALSE, echo |-> FALSE, echoSent |-> 0,
                 auth |-> "off", authTimer |-> FALSE, query |-> FALSE,
                 calls |-> <<"connect">>, linked |-> FALSE, freed |-> FALSE,
                 gone |-> FALSE, silent |-> FALSE, bad |-> FALSE, conf |-> c]
    /\ fsm = [l \in Automaton |-> NewFsm]
    /\ ld = [d \in Layer |-> NewLayer(d)]

-----------------------------------------------------------------------------
(* Access to the state.  Writing to a layer that was freed is recorded in  *)
(* ses.bad instead of being done.                                          *)

Misuse(s) == [s EXCEPT !.ses.bad = TRUE]

Put(s, l, f) == IF s.ses.freed THEN Misuse(s) ELSE [s EXCEPT !.fsm[l] = f]

Set(s, d, r) == IF s.ses.freed THEN Misuse(s) ELSE [s EXCEPT !.ld[d] = r]

Post(s, c) == [s EXCEPT !.ses.calls = Append(@, c)]

(* triton_cancel_call: what is left of the queue q without the calls of cs. *)
Without(q, cs) ==
    LET kept[i \in 0..Len(q)] ==
            IF i = 0 THEN <<>>
            ELSE IF q[i] \in cs THEN kept[i - 1] ELSE Append(kept[i - 1], q[i])
    IN  kept[Len(q)]

Cancel(s, cs) == [s EXCEPT !.ses.calls = Without(@, cs)]

(* What send_conf_req does for layer l: it asks for an address unless the  *)
(* layer has one, and no address is fatal when the protocol is required.   *)
Snd(s, l, env) ==
    IF l = "lcp" \/ s.ld[l].addr THEN "ok"
    ELSE IF env.send[l] = "close" /\ Mode[l] = "require" THEN "fail"
    ELSE env.send[l]

(* The layer has an address after asking, unless none was left.            *)
Asked(s, l, env) ==
    IF l = "lcp" \/ s.ses.freed THEN s
    ELSE [s EXCEPT !.ld[l].addr = @ \/ env.send[l] # "close"]

-----------------------------------------------------------------------------
(* The end of a session.                                                   *)

\* Mutant: a pending access request outlives its session.
CancelQuery_None(s) == s

(* EV_SES_FINISHING and EV_SES_FINISHED: the radius module drops a pending *)
(* access request.                                                         *)
CancelQuery(s) == [s EXCEPT !.ses.query = FALSE]

(* ap_session_finished, with the ctrl->finished callback of PPPoE.         *)
SessionFinished(s) ==
    [s EXCEPT !.ses = [CancelQuery(s).ses EXCEPT
        !.finished = TRUE, !.timer = FALSE, !.linked = FALSE,
        !.calls = IF s.ses.linked THEN Append(@, "disconnect") ELSE @]]

\* Mutant: the deferred calls of the layers are not cancelled.
FreeLayers_KeepsCalls(s) ==
    [s EXCEPT !.fsm = [l \in Automaton |-> StopTimer(s.fsm[l])],
              !.ld = [d \in Layer |-> [s.ld[d] EXCEPT !.timeout = FALSE]],
              !.ses = [s.ses EXCEPT !.echo = FALSE, !.authTimer = FALSE,
                                    !.auth = "off", !.freed = TRUE]]

(* destroy_ppp_channel: every layer is freed, its timers are deleted and   *)
(* the calls that name it are cancelled.                                   *)
FreeLayers(s) ==
    [s EXCEPT !.fsm = [l \in Automaton |-> StopTimer(s.fsm[l])],
              !.ld = [d \in Layer |-> [s.ld[d] EXCEPT !.timeout = FALSE]],
              !.ses = [Cancel(s, {"lcpFinished", "authStarted"}).ses EXCEPT
                           !.echo = FALSE, !.authTimer = FALSE,
                           !.auth = "off", !.freed = TRUE]]

Destablish(s) ==
    IF s.ses.finished THEN s ELSE FreeLayers(SessionFinished(s))

(* ppp_layer_finished: the session ends with its last layer.               *)
DestablishIfLast(s) ==
    IF \E d \in Layer : s.ld[d].starting /\ ~s.ld[d].finished
    THEN s ELSE Destablish(s)

LayerFinished(s, d) ==
    IF s.ses.finished THEN s
    ELSE DestablishIfLast(Set(s, d, [s.ld[d] EXCEPT !.finished = TRUE,
                                                    !.starting = FALSE]))

(* ld->finish of each layer, as ppp_terminate calls it: the session is     *)
(* already marked terminating.                                             *)
LcpClosed(s, r) ==
    IF r.sig = "finished"
    THEN LayerFinished(Set(Put(s, "lcp", r.f), "lcp",
                           [s.ld["lcp"] EXCEPT !.up = FALSE]), "lcp")
    ELSE Put(s, "lcp", r.f)

LcpFinish(s) ==
    IF ~s.ld["lcp"].up THEN Post(s, "lcpFinished")
    ELSE LcpClosed([s EXCEPT !.ses.echo = FALSE], Close(s.fsm["lcp"]))

AuthFinish(s) ==
    LayerFinished([s EXCEPT !.ses.auth = "off", !.ses.authTimer = FALSE],
                  "auth")

NcpFinish(s, n) == LayerFinished(Put(s, n, Goto(s.fsm[n], "Closed")), n)

Finish(s, d) == CASE d = "lcp" -> LcpFinish(s)
                  [] d = "auth" -> AuthFinish(s)
                  [] OTHER -> NcpFinish(s, d)

(* One turn of the loop of ppp_terminate: the list is walked on through a  *)
(* layer that must not have been freed meanwhile.                          *)
StillThere(s) == IF s.ses.freed THEN Misuse(s) ELSE s

FinishStep(s, d) ==
    IF s.ses.freed \/ ~s.ld[d].starting THEN s ELSE StillThere(Finish(s, d))

(* The loop goes over lcp, auth and the network protocols as registered.   *)
FinishNcp(s, i) == IF i <= Len(NcpOrder) THEN FinishStep(s, NcpOrder[i]) ELSE s

FinishLayers(s) ==
    FinishNcp(FinishNcp(FinishNcp(FinishStep(FinishStep(s, "lcp"), "auth"),
                                  1), 2), 3)

(* ppp_terminate, the terminate callback of the control protocol.          *)
PppTerminate(s, hard) ==
    IF s.ses.finished THEN s
    ELSE IF hard \/ ~\E d \in Layer : s.ld[d].starting THEN Destablish(s)
    ELSE FinishLayers(s)

(* ap_session_terminate: the second call has an effect only if it is hard. *)
TerminateDone(s) ==
    IF s.ses.finished THEN s ELSE [CancelQuery(s) EXCEPT !.ses.down = TRUE]

Terminate(s, hard) ==
    IF s.ses.finished \/ s.ses.gone THEN s
    ELSE IF s.ses.terminating /\ ~hard THEN [s EXCEPT !.ses.timer = FALSE]
    ELSE TerminateDone(PppTerminate([s EXCEPT !.ses.timer = FALSE,
                                              !.ses.terminating = TRUE,
                                              !.ses.state = "finishing"], hard))

-----------------------------------------------------------------------------
(* Layers coming up.                                                       *)

(* ap_session_activate: a shutdown leaves the session starting.            *)
Activate(s, env) ==
    IF env.ifup = "shutdown" THEN s
    ELSE IF env.ifup = "fail" THEN Terminate(s, FALSE)
    ELSE [s EXCEPT !.ses.state = "active", !.ses.timer = TimeoutOn]

\* Mutant: nothing has to be up.
NcpsReady_AllPassive(s) == \A n \in Ncp : s.ld[n].started \/ s.ld[n].passive

(* __ppp_layer_started for the last node.                                  *)
NcpsReady(s) ==
    /\ \A n \in Ncp : s.ld[n].started \/ s.ld[n].passive
    /\ \E n \in Ncp : s.ld[n].started /\ ~Optional(n)

NodeStarted(s, env) ==
    IF NcpsReady(s) /\ s.ses.state = "starting" THEN Activate(s, env) ELSE s

NcpStarted(s, n, env) ==
    IF s.ld[n].started THEN s
    ELSE NodeStarted(Set(s, n, [s.ld[n] EXCEPT !.started = TRUE]), env)

NcpPassive(s, n, env) ==
    IF s.ld[n].started THEN s
    ELSE NodeStarted(Set(s, n, [s.ld[n] EXCEPT !.passive = TRUE]), env)

(* __ipcp_layer_up, __ipv6cp_layer_up, ccp_layer_up.                       *)
NcpUp(s, n, env) ==
    IF s.ld[n].up THEN s
    ELSE NcpStarted(Set(s, n, [s.ld[n] EXCEPT !.up = TRUE]), n, env)

(* ppp_fsm_lower_up and ppp_fsm_open of a network protocol.                *)
OpenNcp(s, n, env) ==
    LET snd == Snd(s, n, env)
    IN  Put(Asked(s, n, env), n, Open(n, LowerUp(s.fsm[n], snd), snd))

(* layer->start of a network protocol; it fails when its first request     *)
(* cannot be built.                                                        *)
NcpBegin(s, n, env) ==
    IF Mode[n] = "deny"
    THEN IF n = "ccp" THEN NcpUp(s, n, env) ELSE s
    ELSE IF s.ld[n].passive
         THEN IF n = "ccp" THEN s
              ELSE Set(s, n, [s.ld[n] EXCEPT !.timeout = TRUE])
         ELSE OpenNcp(s, n, env)

NcpStart(s, n, env) ==
    NcpBegin(Set(s, n, [s.ld[n] EXCEPT !.starting = TRUE,
                                       !.begun = n # "ccp" \/ Mode[n] # "deny"]),
             n, env)

StartFails(s, n, env) ==
    /\ Mode[n] # "deny" /\ ~s.ld[n].passive
    /\ Snd(s, n, env) = "fail"

(* The loop of __ppp_layer_started over the last node ends at the first    *)
(* protocol that fails.                                                    *)
StartedOr(s, fails) ==
    [s |-> IF fails THEN Terminate(s, FALSE) ELSE s, stop |-> fails]

StartNcp(a, i, env) ==
    IF a.stop \/ i > Len(NcpOrder) THEN a
    ELSE StartedOr(NcpStart(a.s, NcpOrder[i], env),
                   StartFails(a.s, NcpOrder[i], env))

StartNcps(s, env) ==
    StartNcp(StartNcp(StartNcp([s |-> s, stop |-> FALSE], 1, env), 2, env),
             3, env).s

AuthStarted(s, env) ==
    IF s.ld["auth"].started THEN s
    ELSE StartNcps(Set(s, "auth", [s.ld["auth"] EXCEPT !.started = TRUE]), env)

\* Mutant: the network protocols start with the authentication.
AuthStart_NoWait(s, env) ==
    [AuthStarted(Set(s, "auth", [s.ld["auth"] EXCEPT !.starting = TRUE]), env)
        EXCEPT !.ses.auth = "active", !.ses.authTimer = TRUE]

AuthStart(s, env) ==
    LET t == Set(s, "auth", [s.ld["auth"] EXCEPT !.starting = TRUE])
    IN  IF NoAuth THEN AuthStarted(t, env)
        ELSE [t EXCEPT !.ses.auth = "active", !.ses.authTimer = TRUE]

\* Mutant: the echo timer is not started.
LcpUp_NoEcho(s, env) ==
    IF s.ld["lcp"].up THEN s
    ELSE AuthStart(Set(s, "lcp", [s.ld["lcp"] EXCEPT !.up = TRUE,
                                                     !.started = TRUE]), env)

LcpUp(s, env) ==
    LET t == IF s.ld["lcp"].up THEN s
             ELSE AuthStart(Set(s, "lcp", [s.ld["lcp"] EXCEPT !.up = TRUE,
                                                              !.started = TRUE]),
                            env)
    IN  [t EXCEPT !.ses.echo = EchoOn]

-----------------------------------------------------------------------------
(* Layers going down by themselves.                                        *)

LcpFinished(s) ==
    LET t == Set([s EXCEPT !.ses.echo = FALSE], "lcp",
                 [s.ld["lcp"] EXCEPT !.up = FALSE])
    IN  IF s.ld["lcp"].up /\ s.ses.terminating
        THEN LayerFinished(t, "lcp")
        ELSE Terminate(t, FALSE)

NcpClosed(s, n) == Put(s, n, Goto(s.fsm[n], "Closed"))

NcpFinished(s, n, env) ==
    NcpClosed(IF ~s.ld[n].up /\ (Mode[n] # "require" \/ n = "ccp")
              THEN NcpPassive(s, n, env)
              ELSE Terminate(s, FALSE), n)

(* The callback an automaton handler makes: the state becomes Opened only  *)
(* after layer_up has returned.                                            *)
Opened(s, l) == Put(s, l, Goto(s.fsm[l], "Opened"))

Callback(s, l, sig, env) ==
    CASE sig = "up" ->
            Opened(IF l = "lcp" THEN LcpUp(s, env)
                   ELSE IF s.ld[l].delay THEN s
                   ELSE NcpUp(s, l, env), l)
      [] sig = "finished" ->
            IF l = "lcp" THEN LcpFinished(s) ELSE NcpFinished(s, l, env)
      [] OTHER -> s

Apply(s, l, r, env) == Callback(Put(s, l, r.f), l, r.sig, env)

-----------------------------------------------------------------------------
(* Packets.  A handler sees the session only while its layers exist.       *)

State == [fsm |-> fsm, ld |-> ld, ses |-> ses]

Becomes(s) == fsm' = s.fsm /\ ld' = s.ld /\ ses' = s.ses

Alive == ses.state # "none" /\ ~ses.freed /\ ~ses.gone

Sends(code) == code \in PeerCodes /\ ~ses.silent

(* The peer disappears: it sends nothing any more, and what it sent last   *)
(* has been counted.                                                       *)
PeerVanishes ==
    /\ Alive /\ Sends("Silence")
    /\ Becomes([State EXCEPT !.ses.silent = TRUE])

(* The packet kinds lcp_recv lets through: answers only before the layer   *)
(* is up, nothing in Initial and Closed, only the end of the link once     *)
(* the session is terminating.                                             *)
LcpAccepts(code) ==
    /\ Alive /\ Sends(code)
    /\ fsm["lcp"].state \notin {"Initial", "Closed"}
    /\ code \in {"ConfAck", "ConfNak", "ConfRej"} => ~ld["lcp"].up
    /\ ses.terminating => code \in {"TermReq", "TermAck"}

LcpApply(r, env) == Becomes(Apply(State, "lcp", r, env))

(* The answers LCP can need: it starts the network protocols itself only   *)
(* when there is no authentication.                                        *)
LcpEnv == IF NoAuth THEN EnvNow ELSE {Quiet}

(* Configure-Request with the verdict of the options; once the layer is up *)
(* it is only acknowledged again.                                          *)
LcpConfReq(verdict, env) ==
    /\ LcpAccepts("ConfReq")
    /\ \/ /\ verdict = "fail" \/ (ld["lcp"].up /\ verdict # "ack")
          /\ Becomes(Terminate(State, FALSE))
       \/ /\ verdict # "fail" /\ ~ld["lcp"].up
          /\ LcpApply(RecvConfReq("lcp", fsm["lcp"], "ok", verdict), env)

LcpConfAck(env) ==
    LcpAccepts("ConfAck") /\ LcpApply(RecvConfAck("lcp", fsm["lcp"], "ok"), env)

LcpConfNak ==
    /\ \E code \in {"ConfNak", "ConfRej"} : LcpAccepts(code)
    /\ Becomes(Put(State, "lcp", RecvConfRej("lcp", fsm["lcp"], "ok").f))

(* Answers whose options do not match the request end the session.         *)
LcpBadAnswer ==
    /\ \E code \in {"ConfAck", "ConfRej"} : LcpAccepts(code)
    /\ Becomes(Terminate(State, FALSE))

LcpTermReq ==
    /\ LcpAccepts("TermReq")
    /\ Becomes(Terminate(Put(State, "lcp", RecvTermReq("lcp", fsm["lcp"])),
                         FALSE))

LcpTermAck ==
    /\ LcpAccepts("TermAck")
    /\ LcpApply(RecvTermAck("lcp", fsm["lcp"], "ok"), Quiet)

LcpCodeRej ==
    /\ LcpAccepts("CodeRej")
    /\ LcpApply(RecvCodeRej("lcp", fsm["lcp"]), Quiet)

(* An Echo-Request, or an Echo-Reply that may reveal a looped-back line.   *)
ResetEcho(s) ==
    IF s.ses.freed THEN Misuse(s) ELSE [s EXCEPT !.ses.echoSent = 0]

LcpEcho(loop) ==
    /\ LcpAccepts("Echo")
    /\ Becomes(ResetEcho(IF loop THEN Terminate(State, FALSE) ELSE State))

(* Protocol-Reject of a network protocol.                                  *)
LcpProtoRej(n, env) ==
    /\ LcpAccepts("ProtoRej")
    /\ IF n = "ccp" /\ ~Optional(n)
       THEN Becomes(Terminate(State, FALSE))
       ELSE /\ fsm[n].state \notin {"Initial", "Closed"}
            /\ Becomes(Apply(State, n, Close(LowerDown(n, fsm[n])), env))

NcpAccepts(n, code) ==
    /\ Alive /\ Sends(code)
    /\ ld[n].begun /\ fsm[n].state # "Closed" /\ ~ses.terminating
    /\ Mode[n] # "deny"
    /\ n = "ccp" => ses.state # "active"

(* ccp_ipcp_started: acknowledgements wait until CCP is settled.           *)
CcpPending(s) ==
    "ccp" \in Ncp /\ ~s.ld["ccp"].passive /\ ~s.ld["ccp"].up

(* A Configure-Request: the address option is absent, acknowledged or      *)
(* answered otherwise; "none" is the verdict of options that answered the  *)
(* packet themselves, "fail" of those of CCP that cannot be answered.      *)
NcpVerdict(n, verdict, opt) ==
    /\ IF n = "ccp" THEN opt = "absent" /\ verdict # "none" ELSE verdict # "fail"
    /\ verdict = "ack" => opt # "other"
    /\ verdict = "none" => opt = "other"

(* The options run first: they may ask for an address.                     *)
NcpOptions(n, opt) ==
    IF opt = "absent" THEN State
    ELSE [State EXCEPT !.ld[n].addr = TRUE,
                       !.ld[n].delay = IF opt = "acked" THEN CcpPending(State)
                                                        ELSE @]

(* A passive protocol opens itself on the first request of the peer.       *)
LeavePassive(s, n, verdict, env) ==
    IF s.ld[n].passive /\ (n = "ccp" \/ verdict # "none")
    THEN OpenNcp([s EXCEPT !.ld[n].passive = FALSE,
                           !.ld[n].timeout = FALSE], n, env)
    ELSE s

(* An acknowledgement that was held back brings the layer up.              *)
Release(s, n, env) ==
    IF ld[n].delay /\ ~s.ld[n].delay THEN NcpUp(s, n, env) ELSE s

(* Once the layer is up a request may only be acknowledged again.          *)
NcpAnswer(s, n, verdict, env) ==
    IF s.ld[n].up \/ ld[n].delay
    THEN IF verdict = "ack" THEN s ELSE Terminate(s, FALSE)
    ELSE IF verdict = "none" THEN s
    ELSE IF verdict = "fail" THEN Terminate(s, FALSE)
    ELSE Apply(s, n, RecvConfReq(n, s.fsm[n], Snd(s, n, env), verdict), env)

NcpConfReq(n, verdict, opt, env) ==
    /\ NcpAccepts(n, "ConfReq") /\ NcpVerdict(n, verdict, opt)
    /\ Becomes(NcpAnswer(Release(LeavePassive(NcpOptions(n, opt), n, verdict, env),
                                 n, env),
                         n, verdict, env))

(* A request for which no acceptable address is found.                     *)
NcpNoAddress(n, refused, env) ==
    /\ NcpAccepts(n, "ConfReq") /\ ~ld[n].addr
    /\ LET s == IF refused
                THEN LeavePassive([State EXCEPT !.ld[n].addr = TRUE],
                                  n, "fail", env)
                ELSE State
       IN  Becomes(IF refused \/ Mode[n] = "require" \/ ld[n].up \/ ld[n].delay
                   THEN Terminate(s, FALSE) ELSE s)

NcpApply(n, r, env) == Becomes(Apply(State, n, r, env))

NcpConfAck(n, env) ==
    /\ NcpAccepts(n, "ConfAck")
    /\ NcpApply(n, RecvConfAck(n, fsm[n], Snd(State, n, env)), env)

NcpConfNak(n, env) ==
    /\ \E code \in {"ConfNak", "ConfRej"} : NcpAccepts(n, code)
    /\ NcpApply(n, RecvConfRej(n, fsm[n], Snd(State, n, env)), env)

NcpBadAnswer(n) ==
    /\ \E code \in {"ConfAck", "ConfRej"} : NcpAccepts(n, code)
    /\ Becomes(Terminate(State, FALSE))

(* Terminate-Request: fatal for the address protocols, CCP just closes.    *)
NcpTermReq(n, env) ==
    /\ NcpAccepts(n, "TermReq")
    /\ LET f == RecvTermReq(n, fsm[n])
       IN  IF n = "ccp" THEN Becomes(Apply(State, n, Close(f), env))
           ELSE Becomes(Terminate(Put(State, n, f), FALSE))

(* Terminate-Ack: only CCP looks at it.                                    *)
NcpTermAck(n, env) ==
    /\ n = "ccp" /\ NcpAccepts(n, "TermAck")
    /\ NcpApply(n, RecvTermAck(n, fsm[n], "ok"), env)

NcpCodeRej(n, env) ==
    /\ NcpAccepts(n, "CodeRej")
    /\ NcpApply(n, RecvCodeRej(n, fsm[n]), env)

-----------------------------------------------------------------------------
(* Timers.                                                                 *)

RestartTimerFires(l, env) ==
    /\ fsm[l].timer
    /\ Becomes(Apply(State, l, RestartTimer(fsm[l], Snd(State, l, env)), env))

(* A passive protocol the peer never asked for.                            *)
NcpStartTimeout(n) ==
    /\ ld[n].timeout
    /\ LET s == [State EXCEPT !.ld[n].timeout = FALSE]
       IN  Becomes(IF ses.state = "starting" THEN Terminate(s, FALSE) ELSE s)

EchoLimit == ses.echoSent > EchoFailure

(* With lcp-echo-timeout, packets that the interface has counted since the *)
(* timer last fired stand for an answer, and while the timeout has not     *)
(* passed nothing is done.                                                 *)
EchoTimerFires ==
    /\ ses.echo
    /\ \/ /\ EchoTimeout /\ ~ses.silent
          /\ Becomes([State EXCEPT !.ses.echoSent = 0])
       \/ Becomes(IF EchoLimit THEN Terminate(State, TRUE)
                  ELSE [State EXCEPT !.ses.echoSent = @ + 1])

SessionTimerFires == ses.timer /\ Becomes(Terminate(State, FALSE))

-----------------------------------------------------------------------------
(* Authentication by PAP.  The password check answers at once or later,    *)
(* from the radius module; a request that is too short is dropped, and has *)
(* stopped the authentication timeout.                                     *)

Accept(s) == Post([s EXCEPT !.ses.auth = "acked"], "authStarted")

AuthRequest(answer) ==
    /\ Alive /\ Sends("Auth") /\ ses.auth # "off"
    /\ LET s == [State EXCEPT !.ses.authTimer = FALSE]
       IN  IF ses.auth = "acked" \/ ses.query
           THEN Becomes(s)
           ELSE \/ answer = "short" /\ Becomes(s)
                \/ answer = "later" /\ Becomes([s EXCEPT !.ses.query = TRUE])
                \/ answer = "ok" /\ Becomes(Accept(s))
                \/ answer = "denied" /\ Becomes(Terminate(s, FALSE))

(* pap_auth_result: it uses what pap_finish has released.                  *)
AuthResult(answer) ==
    /\ ses.query
    /\ LET s == [State EXCEPT !.ses.query = FALSE,
                              !.ses.bad = @ \/ ses.auth = "off"]
       IN  \/ answer = "ok" /\ Becomes(Accept(s))
           \/ answer = "denied" /\ Becomes(Terminate(s, FALSE))

AuthTimeout == ses.authTimer /\ Becomes(Terminate(State, FALSE))

-----------------------------------------------------------------------------
(* Calls queued in the connection's context, in order.                     *)

Calls(c) == ~ses.gone /\ ses.calls # <<>> /\ Head(ses.calls) = c

Popped == [State EXCEPT !.ses.calls = Tail(@)]

(* triton_context_unregister: the remaining calls are dropped; a context   *)
(* with an armed timer stays, and the connection with it.                  *)
Armed(s) ==
    \/ \E l \in Automaton : s.fsm[l].timer
    \/ \E d \in Layer : s.ld[d].timeout
    \/ s.ses.echo \/ s.ses.authTimer \/ s.ses.timer

Unregister(s) == [s EXCEPT !.ses.calls = <<>>, !.ses.gone = ~Armed(s)]

(* connect_channel: establish_ppp starts LCP, or fails, for a shutdown or  *)
(* for want of a layer, and the connection is released.                    *)
Connect ==
    /\ Calls("connect")
    /\ LET s == [Popped EXCEPT !.ses.state = "starting", !.ses.linked = TRUE,
                               !.ld["lcp"].starting = TRUE]
       IN  \/ Becomes(Put(s, "lcp", Open("lcp", LowerUp(fsm["lcp"], "ok"), "ok")))
           \/ Becomes(Unregister(Popped))

RunLcpFinished == Calls("lcpFinished") /\ Becomes(LayerFinished(Popped, "lcp"))

RunAuthStarted(env) ==
    /\ Calls("authStarted")
    /\ Becomes(IF ses.terminating THEN Popped
               ELSE IF ses.freed THEN Misuse(Popped)
               ELSE AuthStarted(Popped, env))

(* disconnect: a started session is ended the hard way, then the context   *)
(* is unregistered and the connection is freed.                            *)
Disconnect ==
    /\ Calls("disconnect")
    /\ LET s == IF ses.linked
                THEN Terminate([Popped EXCEPT !.ses.linked = FALSE], TRUE)
                ELSE Popped
       IN  Becomes(Unregister([s EXCEPT !.ses.bad = @ \/ ~s.ses.freed]))

(* A PADT for the session: the discovery handler queues disconnect.        *)
RecvPadt ==
    /\ ~ses.gone /\ Sends("Padt")
    /\ Cardinality({i \in 1..Len(ses.calls) : ses.calls[i] = "disconnect"})
          < MaxPadt
    /\ Becomes(Post(State, "disconnect"))

(* An administrator, a Disconnect-Request or a shutdown.                   *)
AdminTerminate(hard) ==
    /\ ses.state # "none" /\ ~ses.finished /\ ~ses.gone
    /\ Becomes(Terminate(State, hard))

-----------------------------------------------------------------------------
LcpPacket ==
    \/ \E v \in {"ack", "nak", "rej", "fail"}, env \in LcpEnv : LcpConfReq(v, env)
    \/ \E env \in LcpEnv : LcpConfAck(env)
    \/ LcpConfNak
    \/ LcpBadAnswer
    \/ LcpTermReq
    \/ LcpTermAck
    \/ LcpCodeRej
    \/ \E loop \in BOOLEAN : LcpEcho(loop)
    \/ \E n \in Ncp, env \in EnvFor({}) : LcpProtoRej(n, env)

NcpPacket(n, env) ==
    \/ \E v \in {"ack", "nak", "rej", "none", "fail"},
          opt \in {"absent", "acked", "other"} : NcpConfReq(n, v, opt, env)
    \/ \E refused \in BOOLEAN : NcpNoAddress(n, refused, env)
    \/ NcpConfAck(n, env)
    \/ NcpConfNak(n, env)
    \/ NcpBadAnswer(n)
    \/ NcpTermReq(n, env)
    \/ NcpTermAck(n, env)
    \/ NcpCodeRej(n, env)

RunCall == Connect \/ RunLcpFinished \/ Disconnect
           \/ \E env \in EnvNow : RunAuthStarted(env)

RadiusAnswers == \E answer \in {"ok", "denied"} : AuthResult(answer)

PeerPacket ==
    \/ LcpPacket
    \/ \E n \in Ncp : \E env \in EnvFor({n}) : NcpPacket(n, env)
    \/ \E answer \in {"short", "later", "ok", "denied"} : AuthRequest(answer)
    \/ RecvPadt
    \/ PeerVanishes

Next ==
    \/ PeerPacket
    \/ RestartTimerFires("lcp", Quiet)
    \/ \E n \in Ncp : \E env \in EnvFor({n}) : RestartTimerFires(n, env)
    \/ \E n \in Ncp : NcpStartTimeout(n)
    \/ EchoTimerFires \/ SessionTimerFires
    \/ RadiusAnswers \/ AuthTimeout
    \/ RunCall
    \/ \E hard \in BOOLEAN : AdminTerminate(hard)

Spec == Init /\ [][Next]_vars

(* The event loop fires armed timers and runs queued calls; the radius     *)
(* client answers every query, if only after its own timeout.  Each        *)
(* conjunct is weak fairness of the action, written with the condition     *)
(* under which the action can change the state in place of ENABLED.        *)
LcpTimerWorks == fsm["lcp"].timer /\ fsm["lcp"].state \in
                    Negotiating \cup {"Closing", "Stopping"}

EchoWorks == ses.echo /\ (ses.silent \/ ~EchoTimeout)

Fairness ==
    /\ []<>~LcpTimerWorks \/ []<><<RestartTimerFires("lcp", Quiet)>>_vars
    /\ []<>~EchoWorks \/ []<><<EchoTimerFires>>_vars
    /\ []<>(ses.gone \/ ses.calls = <<>>) \/ []<><<RunCall>>_vars
    /\ []<>~ses.query \/ []<><<RadiusAnswers>>_vars
    /\ []<>~ses.authTimer \/ []<><<AuthTimeout>>_vars

FairSpec == Spec /\ Fairness

-----------------------------------------------------------------------------
(* No handler writes to a layer, or uses an authenticator's data, after it *)
(* was freed: a layer that terminates its session from inside a callback   *)
(* returns into code that still uses the layer, ppp_terminate walks the    *)
(* list of layers while their finish callbacks run, and a password check   *)
(* may answer late.                                                        *)
NoUseAfterFree == ~ses.bad

(* Once the layers are freed nothing is left that would call them back: no *)
(* timer is armed, no password check is pending and no queued call names a *)
(* layer.                                                                  *)
FreedIsQuiet ==
    ses.freed =>
        /\ \A l \in Automaton : ~fsm[l].timer
        /\ \A d \in Layer : ~ld[d].timeout
        /\ ~ses.echo /\ ~ses.authTimer /\ ~ses.timer /\ ~ses.query
        /\ \A i \in 1..Len(ses.calls) :
              ses.calls[i] \notin {"lcpFinished", "authStarted"}

(* No network protocol runs before the peer is authenticated: while the    *)
(* session is not terminating, a network protocol was begun only after the *)
(* authentication protocol accepted the peer.                              *)
AuthBeforeNetwork ==
    ~ses.terminating /\ (\E n \in Ncp : ld[n].begun \/ ld[n].up) =>
        /\ ld["lcp"].up /\ ld["auth"].started
        /\ NoAuth \/ ses.auth = "acked"

(* An active session has its link, its authentication and at least one     *)
(* protocol that carries traffic, whatever was renegotiated, rejected or   *)
(* timed out on the way.                                                   *)
ActiveCarriesTraffic ==
    ses.state = "active" =>
        /\ ld["lcp"].up /\ ld["auth"].started
        /\ \E n \in Ncp : ld[n].up /\ ~Optional(n)

(* A network protocol that negotiates has an address to offer: the answers *)
(* of ipaddr_send_conf_nak dereference it without a test.                  *)
RequestHasAddress ==
    \A n \in Ncp :
        ~ses.terminating /\ fsm[n].state \notin {"Initial", "Closed"}
            => ld[n].addr

(* A session that is finished has its connection's disconnect queued until *)
(* the connection is gone: no connection is leaked.                        *)
FinishedIsDisconnected ==
    ses.finished /\ ~ses.gone =>
        \E i \in 1..Len(ses.calls) : ses.calls[i] = "disconnect"

(* The end of a session is complete: nothing is used after it was freed,   *)
(* nothing is left that would call a freed layer, and the connection of a  *)
(* finished session is told (ppp_terminate, destroy_ppp_channel,           *)
(* pppoe_disconnect).                                                      *)
TeardownIsClean == TypeOK /\ NoUseAfterFree /\ FreedIsQuiet /\ FinishedIsDisconnected

(* A session whose termination is under way ends, and its connection is    *)
(* released, without the help of the peer.  It is under way unless LCP is  *)
(* marked Opened after it was closed: without authentication a protocol    *)
(* that fails to start terminates the session from inside layer_up, and    *)
(* ppp_fsm_recv_conf_ack overwrites Closing when layer_up returns.         *)
TerminationCompletes ==
    ses.terminating /\ fsm["lcp"].state # "Opened" ~> ses.gone

(* Does not hold: the session above ends too.  Only the echo timer is left *)
(* for it, which lcp-echo-timeout lets a talking peer put off.             *)
EveryTerminationCompletes == ses.terminating ~> ses.gone

(* RFC 1661, 4.2: the link never waits for an answer of the peer, to a     *)
(* Configure-Request or to a Terminate-Request, without its restart timer, *)
(* which would try again or give up.                                       *)
RestartTimerRuns ==
    ~ses.freed /\ fsm["lcp"].state \in Negotiating \cup {"Closing", "Stopping"}
        => fsm["lcp"].timer

(* A peer that falls silent is noticed, by the restart timer of a          *)
(* negotiation, the authentication timeout or unanswered Echo-Requests, and *)
(* its connection is released.                                             *)
SilentPeerIsDropped == ses.silent ~> ses.gone
=============================================================================
