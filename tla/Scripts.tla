------------------------------ MODULE Scripts ------------------------------
(***************************************************************************)
(* The scripts run for a session (extra/pppd_compat.c) and the thread that *)
(* collects them (extra/sigchld.c).  A session sleeps in its context while *)
(* it waits for a slot (fork-limit) and while ip-pre-up, ip-change or      *)
(* ip-down runs; ip-up runs beside it.  A child's end is handled by the    *)
(* sigchld thread, which hands its slot to the next session and wakes the  *)
(* session it ran for.                                                     *)
(*                                                                         *)
(* A pid is a number that is not used twice; 0 is none.  Environment and   *)
(* arguments of a script are left out, as are a radattr-prefix changed by  *)
(* a reload and files that cannot be made.                                 *)
(***************************************************************************)
EXTENDS Integers, Sequences, FiniteSets

CONSTANTS
    Clients,           \* the sessions
    ScriptScenarios    \* [clients, conf, limit, limits, fails, coa]: the sessions used, the scripts
                       \* configured, fork-limit, what a reload may make of it, the forks that
                       \* fail, the CoA requests per session

VARIABLE scr

Handlers == {"hnd", "ip_up_hnd"}
HandlerOf(ev) == IF ev = "ip-up" THEN "ip_up_hnd" ELSE "hnd"

Gone == [on |-> FALSE, at |-> "new", ev |-> "none", started |-> FALSE, res |-> 0, wakeup |-> FALSE,
         pid |-> [h \in Handlers |-> 0], locked |-> [h \in Handlers |-> FALSE],
         state |-> "STARTING", back |-> "starting", tmp |-> FALSE, saved |-> FALSE,
         tmps |-> 0, files |-> {}, strays |-> 0, early |-> FALSE]
-----------------------------------------------------------------------------
(* Slots.                                                                  *)

\* A context that is awake finds the mark when it goes to sleep.
triton_context_wakeup(g, s) == [g EXCEPT !.ses[s].wakeup = TRUE]

\* The slot goes to the first session before ip-pre-up, then to the others.
fork_queue_wakeup(g) ==
    IF g.limit = 0 THEN g
    ELSE IF g.queue0 # <<>> THEN triton_context_wakeup([g EXCEPT !.queue0 = Tail(@)], Head(g.queue0))
    ELSE IF g.queue1 # <<>> THEN triton_context_wakeup([g EXCEPT !.queue1 = Tail(@)], Head(g.queue1))
    ELSE [g EXCEPT !.fork_cnt = @ - 1]

check_fork_limit(g, s, ev) ==
    IF g.limit = 0 THEN [g EXCEPT !.ses[s].at = "fork"]
    ELSE IF g.fork_cnt < g.limit THEN [g EXCEPT !.fork_cnt = @ + 1, !.ses[s].at = "fork"]
    ELSE IF ev = "ip-pre-up" THEN [g EXCEPT !.queue0 = Append(@, s), !.ses[s].at = "queued"]
    ELSE [g EXCEPT !.queue1 = Append(@, s), !.ses[s].at = "queued"]

load_config(g, limit) == [g EXCEPT !.limit = limit, !.reloaded = TRUE]
-----------------------------------------------------------------------------
(* The attributes kept in files: before the session is active in a         *)
(* temporary one whose name tmp_fname keeps (tmps counts them), later in   *)
(* one named after the interface, the last but one beside it.  tmp_fname   *)
(* holds one name and is not set while the session finishes: strays counts *)
(* the temporary files nobody knows of any more.                           *)

write_radattr(g, s) ==
    LET ses == g.ses[s]
        known == IF ses.state = "STARTING" /\ ~ses.tmp THEN 1 ELSE 0
    IN IF ses.state = "ACTIVE"
       THEN [g EXCEPT !.ses[s].files = {"attr"} \cup (IF "attr" \in @ THEN {"old"} ELSE @),
                      !.ses[s].early = @ \/ ses.tmp]
       ELSE [g EXCEPT !.ses[s].tmps = @ + 1, !.ses[s].tmp = @ \/ ses.state = "STARTING",
                      !.ses[s].strays = @ + 1 - known]

remove_radattr(g, s) ==
    IF g.ses[s].tmp THEN [g EXCEPT !.ses[s].tmps = @ - 1]
    ELSE [g EXCEPT !.ses[s].files = @ \ {"attr", "old"}]

RenameTmp(g, s) ==
    IF g.ses[s].tmp THEN [g EXCEPT !.ses[s].tmps = @ - 1, !.ses[s].files = @ \cup {"attr"}, !.ses[s].tmp = FALSE] ELSE g
-----------------------------------------------------------------------------
(* A session's events.  Run begins a script, Done follows its end; fork    *)
(* and the registration of the handler are within sigchld_lock.            *)

Run(g, s, ev) == check_fork_limit([g EXCEPT !.ses[s].ev = ev], s, ev)

ev_ses_starting(g, s) == [g EXCEPT !.ses[s] = [Gone EXCEPT !.on = TRUE, !.at = "starting"]]

ev_radius_access_accept(g, s) == [write_radattr(g, s) EXCEPT !.ses[s].saved = TRUE]

ev_ses_pre_up(g, s) ==
    IF "ip-pre-up" \in g.sc.conf THEN Run(RenameTmp(g, s), s, "ip-pre-up")
    ELSE [RenameTmp(g, s) EXCEPT !.ses[s].at = "up"]

\* The session is active when ap_session_ifup is done, or as soon as its
\* accounting was started, with the interface brought up when it is answered.
Activated(g, s) == [g EXCEPT !.ses[s].state = "ACTIVE"]

ev_ses_started(g, s) ==
    IF "ip-up" \in g.sc.conf THEN Run([g EXCEPT !.ses[s].started = TRUE], s, "ip-up")
    ELSE [Activated(g, s) EXCEPT !.ses[s].started = TRUE, !.ses[s].at = "active"]

\* In whatever state the session is: coa_request runs in its context.
ev_radius_coa(g, s) ==
    IF ~g.ses[s].saved THEN g
    ELSE IF "ip-change" \in g.sc.conf
         THEN Run([write_radattr(g, s) EXCEPT !.ses[s].back = g.ses[s].at], s, "ip-change")
    ELSE write_radattr(g, s)

\* The session waits for its peer to let go.
ap_session_terminate(g, s) == [g EXCEPT !.ses[s].state = "FINISHING", !.ses[s].at = "finishing"]

kill(g, pid) == IF pid \in g.run THEN g ELSE [g EXCEPT !.stray = TRUE]

\* ip-up is asked to end, ip-down runs; then ip-up is killed.
ev_ses_finished(g, s) ==
    LET term == IF g.ses[s].pid["ip_up_hnd"] = 0 THEN g ELSE kill(g, g.ses[s].pid["ip_up_hnd"])
    IN IF g.ses[s].started /\ "ip-down" \in g.sc.conf THEN Run(term, s, "ip-down")
       ELSE [term EXCEPT !.ses[s].at = "kill"]

\* A child that SIGKILL reaches ends; its handler is taken away next.
KillIpUp(g, s, pid) ==
    IF pid = 0 THEN [g EXCEPT !.ses[s].at = "free"]
    ELSE [kill(g, pid) EXCEPT !.run = @ \ {pid}, !.zombies = @ \cup ({pid} \cap g.run), !.ses[s].at = "unregister"]

\* Whoever takes the handler from the list gives the slot back.
sigchld_unregister_handler(g, s) ==
    IF g.ses[s].pid["ip_up_hnd"] = 0 THEN [g EXCEPT !.ses[s].at = "free"]
    ELSE fork_queue_wakeup([g EXCEPT !.handlers = @ \ {<<s, "ip_up_hnd">>}, !.ses[s].pid["ip_up_hnd"] = 0,
                                     !.ses[s].at = "free"])

FreePd(g, s) ==
    LET rm == IF g.ses[s].saved THEN remove_radattr(g, s) ELSE g
    IN [rm EXCEPT !.ses[s] = [Gone EXCEPT !.at = "over", !.files = rm.ses[s].files, !.tmps = rm.ses[s].tmps,
                                          !.strays = g.ses[s].strays, !.early = g.ses[s].early,
                                          !.locked = g.ses[s].locked]]

Done(g, s) ==
    CASE g.ses[s].ev = "ip-pre-up" ->
           IF g.ses[s].res = 0 THEN [g EXCEPT !.ses[s].at = "up", !.ses[s].started = TRUE]
           ELSE ap_session_terminate(g, s)
      [] g.ses[s].ev = "ip-up" -> [Activated(g, s) EXCEPT !.ses[s].at = "active"]
      [] g.ses[s].ev = "ip-change" -> [g EXCEPT !.ses[s].at = g.ses[s].back]
      [] g.ses[s].ev = "ip-down" -> [g EXCEPT !.ses[s].at = "kill"]

\* sigchld_lock, fork.
Fork(g, s) ==
    [g EXCEPT !.npid = @ + 1, !.run = @ \cup {g.npid + 1}, !.lock_refs = @ + 1, !.ses[s].at = "register",
              !.ses[s].pid[HandlerOf(g.ses[s].ev)] = g.npid + 1,
              !.overlap = @ \/ (g.thr.at = "clear" /\ g.thr.on = <<s, HandlerOf(g.ses[s].ev)>>)]

\* The session has no script; before it is up this ends it.
ForkFails(g, s) ==
    Done(fork_queue_wakeup([g EXCEPT !.fails = @ - 1, !.ses[s].res = IF g.ses[s].ev = "ip-pre-up" THEN 1 ELSE @]), s)

\* The handler's mutex is initialised anew; sigchld_unlock.
sigchld_register_handler(g, s) ==
    LET h == HandlerOf(g.ses[s].ev)
        r == [g EXCEPT !.handlers = @ \cup {<<s, h>>}, !.ses[s].locked[h] = FALSE, !.lock_refs = @ - 1,
                       !.ses[s].at = "sleep"]
    IN IF g.ses[s].ev = "ip-up" THEN Done(r, s) ELSE r

\* Out of triton_context_schedule.  After ip-pre-up and ip-down the session
\* waits for the handler to be left (hnd.lock); after ip-change it does not.
Woken(g, s) ==
    LET w == [g EXCEPT !.ses[s].wakeup = FALSE]
    IN IF g.ses[s].at = "queued" THEN [w EXCEPT !.ses[s].at = "fork"]
       ELSE IF g.ses[s].ev = "ip-change" THEN Done(w, s)
       ELSE [w EXCEPT !.ses[s].at = "settle"]
-----------------------------------------------------------------------------
(* The sigchld thread.                                                     *)

Idle == [at |-> "idle", pid |-> 0, on |-> <<>>]

waitpid(g, pid) == [g EXCEPT !.zombies = @ \ {pid}, !.thr = [at |-> "reaped", pid |-> pid, on |-> <<>>]]

Registered(g, pid) == {sh \in g.handlers : g.ses[sh[1]].pid[sh[2]] = pid}

FindHandler(g, found) ==
    IF found = {} THEN [g EXCEPT !.thr = Idle]
    ELSE LET sh == CHOOSE x \in found : TRUE
         IN [g EXCEPT !.handlers = @ \ {sh}, !.ses[sh[1]].locked[sh[2]] = TRUE,
                      !.thr.at = "handler", !.thr.on = sh]

\* ip_pre_up_handler, ip_change_handler and ip_down_handler wake the session,
\* ip_up_handler posts a call to it that only logs.
HandlerWakes(g, s, h, status) ==
    IF h = "ip_up_hnd" THEN [g EXCEPT !.thr.at = "clear"]
    ELSE LET r == IF g.ses[s].ev = "ip-down" THEN g ELSE [g EXCEPT !.ses[s].res = status]
         IN triton_context_wakeup([r EXCEPT !.thr.at = "clear"], s)

\* The thread goes on with a pd that may have been freed.
ClearPid(g, s, h) == [g EXCEPT !.ses[s].pid[h] = 0, !.thr.at = "unlock", !.stale = @ \/ ~g.ses[s].on]
Unlock(g, s, h) == [g EXCEPT !.ses[s].locked[h] = FALSE, !.thr = Idle, !.stale = @ \/ ~g.ses[s].on]
-----------------------------------------------------------------------------
ScriptInit ==
    \E sc \in ScriptScenarios :
      scr = [ses |-> [s \in Clients |-> Gone], limit |-> sc.limit, fork_cnt |-> 0, queue0 |-> <<>>,
             queue1 |-> <<>>, run |-> {}, zombies |-> {}, npid |-> 0, lock_refs |-> 0, handlers |-> {},
             thr |-> Idle, fails |-> sc.fails, coa |-> [s \in Clients |-> sc.coa], reloaded |-> FALSE,
             overlap |-> FALSE, stray |-> FALSE, stale |-> FALSE, sc |-> sc]

At(s, where) == scr.ses[s].at = where
Awake(s) == scr.ses[s].at \in {"starting", "active", "finishing"}
Free(s, h) == scr.ses[s].pid[h] = 0 \/ ~scr.ses[s].locked[h]

\* (Where no CoA can come the wait for the peer and the end are one step.)
SessionStep(s) ==
    \/ At(s, "new") /\ s \in scr.sc.clients /\ scr' = ev_ses_starting(scr, s)
    \/ At(s, "starting") /\ scr.sc.coa > 0 /\ ~scr.ses[s].saved /\ scr' = ev_radius_access_accept(scr, s)
    \/ At(s, "starting") /\ scr' = ev_ses_pre_up(scr, s)
    \/ At(s, "up") /\ scr' = ev_ses_started(scr, s)
    \/ At(s, "starting") /\ scr.ses[s].saved /\ scr.ses[s].state = "STARTING" /\ scr' = Activated(scr, s)
    \/ Awake(s) /\ scr.coa[s] > 0 /\ scr' = ev_radius_coa([scr EXCEPT !.coa[s] = @ - 1], s)
    \/ scr.ses[s].at \in {"starting", "active"} /\ scr.sc.coa > 0 /\ scr' = ap_session_terminate(scr, s)
    \/ Awake(s) /\ Free(s, "ip_up_hnd") /\ scr' = ev_ses_finished(scr, s)
    \/ At(s, "fork") /\ scr' = Fork(scr, s)
    \/ At(s, "fork") /\ scr.fails > 0 /\ scr' = ForkFails(scr, s)
    \/ At(s, "register") /\ scr' = sigchld_register_handler(scr, s)
    \/ scr.ses[s].at \in {"queued", "sleep"} /\ scr.ses[s].wakeup /\ scr' = Woken(scr, s)
    \/ At(s, "settle") /\ ~scr.ses[s].locked["hnd"] /\ scr' = Done(scr, s)
    \/ At(s, "kill") /\ Free(s, "ip_up_hnd") /\ scr' = KillIpUp(scr, s, scr.ses[s].pid["ip_up_hnd"])
    \/ At(s, "unregister") /\ ~scr.ses[s].locked["ip_up_hnd"] /\ scr' = sigchld_unregister_handler(scr, s)
    \/ At(s, "free") /\ scr' = FreePd(scr, s)

sigchld_thread ==
    \/ scr.thr.at = "idle" /\ \E pid \in scr.zombies : scr' = waitpid(scr, pid)
    \/ scr.thr.at = "reaped" /\ scr.lock_refs = 0 /\ scr' = FindHandler(scr, Registered(scr, scr.thr.pid))
    \/ scr.thr.at = "handler" /\ scr' = fork_queue_wakeup([scr EXCEPT !.thr.at = "wake"])
    \/ scr.thr.at = "wake" /\ \E status \in 0..1 : scr' = HandlerWakes(scr, scr.thr.on[1], scr.thr.on[2], status)
    \/ scr.thr.at = "clear" /\ scr' = ClearPid(scr, scr.thr.on[1], scr.thr.on[2])
    \/ scr.thr.at = "unlock" /\ scr' = Unlock(scr, scr.thr.on[1], scr.thr.on[2])

ChildEnds == \E pid \in scr.run : scr' = [scr EXCEPT !.run = @ \ {pid}, !.zombies = @ \cup {pid}]

ScriptNext ==
    \/ \E s \in Clients : SessionStep(s)
    \/ sigchld_thread
    \/ ChildEnds
    \/ ~scr.reloaded /\ \E limit \in scr.sc.limits : scr' = load_config(scr, limit)

ScriptSpec == ScriptInit /\ [][ScriptNext]_scr
-----------------------------------------------------------------------------
Queues == {scr.queue0[i] : i \in DOMAIN scr.queue0} \cup {scr.queue1[i] : i \in DOMAIN scr.queue1}
Granted == {s \in Clients : At(s, "fork") \/ (At(s, "queued") /\ s \notin Queues)}
Forked == {<<s, h>> \in Clients \X Handlers :
              /\ scr.ses[s].pid[h] # 0
              /\ scr.thr.on = <<s, h>> /\ scr.thr.pid = scr.ses[s].pid[h] => scr.thr.at = "handler"}

\* Every slot is a script that runs or is about to: none is lost when a fork
\* fails or an ip-up script is killed by its session while its end is being
\* handled, none is given back twice.  (A limit that is switched on or off
\* while scripts run, and a handler registered again while it is in use, apart.)
ScriptSlotsExact ==
    (0 \notin scr.sc.limits \cup {scr.sc.limit} /\ ~scr.overlap)
      => scr.fork_cnt = Cardinality(Granted) + Cardinality(Forked)

\* A session sleeps only while something will wake it: in a queue while a slot
\* is taken, else with a script that runs or whose end is being handled.
ScriptWaiterServed ==
    (0 \notin scr.sc.limits /\ ~scr.overlap)
      => \A s \in Clients :
           /\ At(s, "queued") => scr.ses[s].wakeup \/ (s \in Queues /\ scr.fork_cnt > 0)
           /\ At(s, "sleep") => \/ scr.ses[s].wakeup
                                \/ scr.thr.on = <<s, "hnd">> /\ scr.thr.at \in {"handler", "wake"}
                                \/ /\ <<s, "hnd">> \in scr.handlers
                                   /\ scr.ses[s].pid["hnd"] \in scr.run \cup scr.zombies \cup {scr.thr.pid}

\* A handler runs for a session that exists, and a session that is over leaves
\* no handler in the list and no file of attributes, but for what a CoA wrote
\* out of turn: one temporary file for each that came before the session was
\* active or while it finished, and the files named after the interface when
\* one came between the start of the accounting and ip-pre-up.
ScriptPdAlive ==
    /\ scr.thr.at \in {"handler", "wake"} => scr.ses[scr.thr.on[1]].on
    /\ \A sh \in scr.handlers : scr.ses[sh[1]].on
    /\ \A s \in Clients : ~scr.ses[s].on => /\ scr.ses[s].tmps = scr.ses[s].strays
                                             /\ scr.ses[s].files # {} => scr.ses[s].early

\* Does not hold: ev_ses_finished tests ip_up_hnd.pid without the lock, and
\* ev_radius_coa does not wait for hnd.lock, so the pd is freed while the
\* sigchld thread clears the pid or releases the mutex in it.
PdOutlivesHandler == ~scr.stale

\* Does not hold: the pid was collected by waitpid, and may be another process,
\* before its handler is found.
KillsOwnChild == ~scr.stray

\* Does not hold: a session that forks again right after ip-change registers
\* its handler before the sigchld thread cleared its pid; the new pid is
\* cleared and the session is never woken.
HandlerNotReused == ~scr.overlap

\* Does not hold: tmp_fname is overwritten, or not set, by a CoA outside of
\* AP_STATE_ACTIVE, and while it is set the files of the interface stay.
AttributesRemoved == \A s \in Clients : ~scr.ses[s].on => scr.ses[s].tmps = 0 /\ scr.ses[s].files = {}

\* Does not hold: after a reload has removed the limit nobody wakes the queues.
QueuedIsServed == \A s \in Queues : scr.limit > 0
=============================================================================
