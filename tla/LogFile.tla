------------------------------ MODULE LogFile ------------------------------
(***************************************************************************)
(* The log files (logs/log_file.c): any thread appends a message to the    *)
(* list of its file and, if the file is not queued, puts it on the queue   *)
(* of the log thread, which writes what it finds; a session's own files    *)
(* come and go with it; reopening (rotation) gives a file a new            *)
(* descriptor.                                                             *)
(*                                                                         *)
(* A message is its number within the file and, in the file of failed      *)
(* sessions, the session it is of.  Descriptors are numbers that are never *)
(* used twice; one that is not in fds is closed, and what is written to it *)
(* is lost or ends up in another file.                                     *)
(***************************************************************************)
EXTENDS Integers, Sequences, FiniteSets

CONSTANTS
    Files,          \* of {"main", "fail", "user", "session", "if1", "if2"}
    IovMax,         \* IOV_MAX
    MaxOpen,        \* MAX_OPEN_INTERFACE_FILES
    LogScenarios    \* [files, msgs, opens, reopens, workers, sessions]: the files used, the
                    \* messages per file, the descriptors, the rotations, the threads that
                    \* log, the sessions that come one after the other

VARIABLE log

Workers == {"session", "worker", "other"}
Own == {"user", "session"}
Interfaces == {"if1", "if2"}

NoFile == [on |-> FALSE, fd |-> -1, new_fd |-> -1, queued |-> FALSE, need_free |-> FALSE, msgs |-> <<>>]
log_file_init == [NoFile EXCEPT !.on = TRUE]

Resting == [at |-> "idle"]
-----------------------------------------------------------------------------
(* Descriptors.                                                            *)

log_file_open(g, f) == [g EXCEPT !.lf[f].fd = g.nfd, !.fds = @ \cup {g.nfd}, !.nfd = @ + 1]
Close(g, fd) == [g EXCEPT !.fds = @ \ {fd}]

\* writev: what goes to a closed descriptor is lost.
Write(g, f, fd, msgs) ==
    LET Before(i) == g.written[f] \cup {msgs[j] : j \in 1..(i - 1)}
        After(i) == {m \in Before(i) : m.n >= msgs[i].n}
    IN IF msgs = <<>> THEN g
       ELSE IF fd \notin g.fds THEN [g EXCEPT !.lost = TRUE]
       ELSE [g EXCEPT !.written[f] = Before(Len(msgs) + 1),
                      !.disorder = @ \/ \E i \in DOMAIN msgs : \E m \in After(i) : m.of = msgs[i].of,
                      !.shuffled = IF \E i \in DOMAIN msgs : After(i) # {} THEN @ \cup {f} ELSE @]
-----------------------------------------------------------------------------
(* Producers.  Listing a file follows after its lock is released.          *)

queue_lf(g, w, f) == [g EXCEPT !.queue = Append(@, f), !.pc[w] = Resting]

Queued(g, w, f) ==
    IF g.lf[f].fd = -1 \/ g.lf[f].queued THEN g
    ELSE [g EXCEPT !.lf[f].queued = TRUE, !.pc[w] = [at |-> "list", f |-> f]]

queue_log(g, w, f) ==
    Queued([g EXCEPT !.n[f] = @ + 1, !.lf[f].msgs = Append(@, [of |-> 0, n |-> g.n[f] + 1])], w, f)

\* The messages of a failed session go before those that wait.
queue_log_list(g, w, f, msgs) == Queued([g EXCEPT !.lf[f].msgs = msgs \o @], w, f)

general_log(g, w) == queue_log(g, w, "main")

\* A session's files, while it has them.
per_user_log(g, w) == IF g.lf["user"].on THEN queue_log(g, w, "user") ELSE g
per_session_log(g, w) == IF g.lf["session"].on THEN queue_log(g, w, "session") ELSE g
fail_log(g) == [g EXCEPT !.fpd.msgs = Append(@, [of |-> g.ended, n |-> g.n["fail"] + 1]), !.n["fail"] = @ + 1]

\* Beyond MAX_OPEN_INTERFACE_FILES the file used least recently (any of them,
\* or none if all were used within the second) is closed, without its lock.
manage_file_descriptors(g) ==
    LET open == {f \in Interfaces : g.lf[f].fd # -1}
    IN IF Cardinality(open) < MaxOpen THEN {g}
       ELSE {g} \cup {[Close(g, g.lf[f].fd) EXCEPT !.lf[f].fd = -1] : f \in open}

\* Two threads that are here at once make two files of one name; the second is
\* not found again and holds one message.
get_or_create_interface_log_file(g, f) == log_file_open([g EXCEPT !.lf[f] = log_file_init], f)
ensure_interface_log_file_open(g, f) == IF g.lf[f].fd = -1 THEN log_file_open(g, f) ELSE g

per_interface_log(g, w, f) ==
    [(IF g.lf[f].on THEN ensure_interface_log_file_open(g, f) ELSE get_or_create_interface_log_file(g, f))
       EXCEPT !.pc[w] = [at |-> "log", f |-> f]]
-----------------------------------------------------------------------------
(* Sessions.                                                               *)

\* Not queued: freed here, otherwise by the log thread.
free_lpd(g, f) ==
    IF g.lf[f].queued THEN [g EXCEPT !.lf[f].need_free = TRUE, !.ses[f] = FALSE]
    ELSE [Close(Close(g, g.lf[f].fd), g.lf[f].new_fd) EXCEPT !.lf[f] = NoFile, !.ses[f] = FALSE]

NewLpd(g, f) == [g EXCEPT !.lf[f] = log_file_init, !.ses[f] = TRUE, !.n[f] = 0, !.written[f] = {}]

ev_ctrl_started(g) ==
    LET user == IF "user" \in g.sc.files THEN NewLpd(g, "user") ELSE g
        both == IF "session" \in g.sc.files THEN log_file_open(NewLpd(user, "session"), "session") ELSE user
    IN [both EXCEPT !.at = "started", !.fpd = [on |-> "fail" \in g.sc.files, msgs |-> <<>>]]

\* The file gets its name (by user or by log rule); what was logged so far is
\* queued.  Without a rule for the user the messages gather until the end.
ev_ses_authorized1(g, r) ==
    IF ~g.ses["user"] \/ r = "no rule" THEN g
    ELSE IF r = "error" THEN free_lpd(g, "user")
    ELSE IF g.lf["user"].msgs = <<>> THEN log_file_open(g, "user")
    ELSE [log_file_open(g, "user") EXCEPT !.lf["user"].queued = TRUE,
                                          !.pc["session"] = [at |-> "list", f |-> "user"]]
ev_ses_authorized2(g) == [g EXCEPT !.fpd = [on |-> FALSE, msgs |-> <<>>], !.at = "authorized"]

FailLogged(g) ==
    [queue_log_list(g, "session", "fail", g.fpd.msgs) EXCEPT !.fpd = [on |-> FALSE, msgs |-> <<>>]]

\* One file after the other.
ev_ctrl_finished(g) ==
    IF g.fpd.on THEN [FailLogged(g) EXCEPT !.at = "finishing"]
    ELSE IF \E f \in Own : g.ses[f]
         THEN [free_lpd(g, IF g.ses["user"] THEN "user" ELSE "session") EXCEPT !.at = "finishing"]
    ELSE [g EXCEPT !.at = IF g.ended + 1 < g.sc.sessions THEN "new" ELSE "over", !.ended = @ + 1]
-----------------------------------------------------------------------------
(* Rotation: reopen_log_file, fail_reopen, reopen_interface_log_file.      *)

reopen_log_file(g, f) ==
    [g EXCEPT !.fds = @ \cup {g.nfd}, !.nfd = @ + 1, !.reopens = @ - 1,
              !.rot = [at |-> "opened", f |-> f, fd |-> g.nfd]]
ReopenSwap(g, f, fd) ==
    IF g.lf[f].queued THEN [g EXCEPT !.lf[f].new_fd = fd, !.rot = Resting]
    ELSE [g EXCEPT !.lf[f].fd = fd, !.rot = [at |-> "close", f |-> f, fd |-> g.lf[f].fd]]
ReopenClose(g, fd) == [Close(g, fd) EXCEPT !.rot = Resting]
-----------------------------------------------------------------------------
(* The log thread.                                                         *)

\* The wait is not repeated: pthread_cond_wait may return with nothing queued,
\* and what is then taken from the list is no file.
Pick(g) ==
    IF g.queue = <<>> THEN [g EXCEPT !.thr = [at |-> "wild"]]
    ELSE [g EXCEPT !.queue = Tail(@), !.thr = [at |-> "swap", f |-> Head(g.queue), iov |-> <<>>]]

\* The new descriptor is taken without the lock, in two steps.
SwapFd(g, f) ==
    IF g.lf[f].new_fd = -1 THEN [g EXCEPT !.thr.at = "lock"]
    ELSE [Close(g, g.lf[f].fd) EXCEPT !.lf[f].fd = g.lf[f].new_fd, !.thr.at = "clear"]
ClearFd(g, f) == [g EXCEPT !.lf[f].new_fd = -1, !.thr.at = "lock"]

\* Full vectors are written at once, the rest when the list is empty.
Fill(g, f, iov) ==
    LET full == (Len(iov) \div IovMax) * IovMax
    IN [Write(g, f, g.lf[f].fd, SubSeq(iov, 1, full)) EXCEPT
           !.thr.iov = SubSeq(iov, full + 1, Len(iov)), !.thr.at = "swap"]

Take(g, f) ==
    IF g.lf[f].msgs # <<>> THEN Fill([g EXCEPT !.lf[f].msgs = <<>>], f, g.thr.iov \o g.lf[f].msgs)
    ELSE [g EXCEPT !.lf[f].queued = FALSE,
                   !.thr = [at |-> "write", f |-> f, iov |-> g.thr.iov, fd |-> g.lf[f].fd,
                            new_fd |-> g.lf[f].new_fd, free |-> g.lf[f].need_free]]

\* Without the lock: the descriptor may have been replaced since.
Finish(g, f, t) ==
    IF t.free
    THEN [Close(Close(Write(g, f, t.fd, t.iov), t.fd), t.new_fd) EXCEPT !.lf[f] = NoFile, !.thr = Resting]
    ELSE [Write(g, f, t.fd, t.iov) EXCEPT !.thr = Resting]

log_thread(g) ==
    CASE g.thr.at = "swap" -> SwapFd(g, g.thr.f)
      [] g.thr.at = "clear" -> ClearFd(g, g.thr.f)
      [] g.thr.at = "lock" -> Take(g, g.thr.f)
      [] g.thr.at = "write" -> Finish(g, g.thr.f, g.thr)
-----------------------------------------------------------------------------
LogInit ==
    \E sc \in LogScenarios :
      log = [lf |-> [f \in Files |-> IF f \in {"main", "fail"} \cap sc.files
                                     THEN [log_file_init EXCEPT !.fd = IF f = "main" THEN 1 ELSE 2] ELSE NoFile],
             fds |-> {1, 2}, nfd |-> 3, queue |-> <<>>, thr |-> Resting, rot |-> Resting,
             pc |-> [w \in Workers |-> Resting], n |-> [f \in Files |-> 0], written |-> [f \in Files |-> {}],
             ses |-> [f \in Files |-> FALSE], at |-> "new", fpd |-> [on |-> FALSE, msgs |-> <<>>],
             ended |-> 0, lost |-> FALSE, disorder |-> FALSE, shuffled |-> {},
             reopens |-> sc.reopens, sc |-> sc]

Idle(w) == w \in log.sc.workers /\ log.pc[w].at = "idle"
MayLog(f) == f \in log.sc.files /\ log.n[f] < log.sc.msgs

Producers ==
    \E w \in Workers :
      \/ log.pc[w].at = "list" /\ log' = queue_lf(log, w, log.pc[w].f)
      \/ log.pc[w].at = "log" /\ log' = queue_log([log EXCEPT !.pc[w] = Resting], w, log.pc[w].f)
      \/ Idle(w) /\ MayLog("main") /\ log' = general_log(log, w)
      \/ /\ Idle(w) /\ log.nfd < log.sc.opens
         /\ \E f \in Interfaces, g \in manage_file_descriptors(log) : MayLog(f) /\ log' = per_interface_log(g, w, f)

SessionThread ==
    /\ Idle("session")
    /\ \/ log.at = "new" /\ log' = ev_ctrl_started(log)
       \/ log.ses["user"] /\ MayLog("user") /\ log' = per_user_log(log, "session")
       \/ log.ses["session"] /\ MayLog("session") /\ log' = per_session_log(log, "session")
       \/ log.fpd.on /\ MayLog("fail") /\ log' = fail_log(log)
       \/ log.at = "started" /\ \E r \in {"ok", "error", "no rule"} :
                                  log' = ev_ses_authorized1(ev_ses_authorized2(log), r)
       \/ log.at \in {"started", "authorized", "finishing"} /\ log' = ev_ctrl_finished(log)

Rotation ==
    \/ /\ log.rot.at = "idle" /\ log.reopens > 0
       /\ \E f \in log.sc.files \ Own : log.lf[f].on /\ log' = reopen_log_file(log, f)
    \/ log.rot.at = "opened" /\ log' = ReopenSwap(log, log.rot.f, log.rot.fd)
    \/ log.rot.at = "close" /\ log' = ReopenClose(log, log.rot.fd)

LogThread ==
    \/ log.thr.at = "idle" /\ log' = Pick(log)
    \/ log.thr.at \notin {"idle", "wild"} /\ log' = log_thread(log)

LogNext == Producers \/ SessionThread \/ Rotation \/ LogThread

LogSpec == LogInit /\ [][LogNext]_log
-----------------------------------------------------------------------------
Handling(f) == log.thr.at \in {"swap", "clear", "lock"} /\ log.thr.f = f
Places(f) == Cardinality({i \in DOMAIN log.queue : log.queue[i] = f})
               + Cardinality({w \in Workers : log.pc[w].at = "list" /\ log.pc[w].f = f})
               + (IF Handling(f) THEN 1 ELSE 0)

\* A message for an open file is on its way to the log thread (interface files
\* apart, whose descriptor is taken away while they are in use), a file is
\* queued exactly once, and what is written to it is written in order: in the
\* file of failed sessions the messages of each session, in the others all.
LogsAreWritten ==
    /\ \A f \in Files : Places(f) = IF log.lf[f].queued THEN 1 ELSE 0
    /\ \A f \in Files \ Interfaces : log.lf[f].msgs # <<>> /\ log.lf[f].fd # -1 => log.lf[f].queued
    /\ ~log.disorder /\ log.shuffled \subseteq {"fail"}

\* The log thread and its queue refer only to files that exist, and a session's
\* file ends with it.
LogFilesAlive ==
    /\ \A f \in Files : Places(f) > 0 => log.lf[f].on
    /\ log.thr.at = "write" /\ log.thr.free => log.lf[log.thr.f].on
    /\ \A f \in Own : log.lf[f].on => log.ses[f] \/ log.lf[f].need_free

\* Does not hold: the messages of a session that failed later are put before
\* those that wait.
FailedInOrder == "fail" \notin log.shuffled

\* Does not hold: the log thread takes the first of an empty list after a
\* wakeup that was nobody's.
FileIsQueued == log.thr.at # "wild"

\* Does not hold: the last vector is written after queued was cleared and the
\* lock released; a rotation or the session's end closes the descriptor first.
NothingUnwritten == ~log.lost

\* Does not hold: a descriptor that a rotation left for the log thread is taken
\* after a later rotation, or overwritten by one and never closed.
DescriptorsOwned ==
    log.thr = Resting /\ log.rot = Resting
      => log.fds \subseteq {1, 2} \cup UNION {{log.lf[f].fd, log.lf[f].new_fd} : f \in Files}
=============================================================================
