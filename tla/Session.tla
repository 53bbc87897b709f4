------------------------------ MODULE Session ------------------------------
(***************************************************************************)
(* The sessions of all access protocols together (micro-bngd/session.c):   *)
(* the counters every protocol shares, the session list, single-session    *)
(* control, shutdown, and the limits PPPoE discovery enforces with the     *)
(* counters (ctrl/pppoe/pppoe.c).                                          *)
(*                                                                         *)
(* Each session lives in a triton context of its own, so the handlers of   *)
(* one session are serial, but those of different sessions run on          *)
(* different workers: every atomic operation on a counter, every section   *)
(* under ses_lock and every unprotected read is a step of its own.         *)
(* pc[s] is the place reached in the handler session s is running; "idle"  *)
(* is between two handlers.  A stopper is a thread in ap_shutdown_soft:    *)
(* the main thread after SIGTERM, or a CLI client.                         *)
(***************************************************************************)
EXTENDS Integers, Sequences, FiniteSets, SequencesExt

CONSTANTS
    Sessions,
    Kind,           \* [Sessions -> {"pppoe", "tunnel", "ipoe"}]
    Server,         \* the discovery context of each PPPoE session
    User,           \* the name each session logs in with
    Scenarios,      \* configurations, and what happens under each: see conf
    MaxSessions,    \* conf_max_sessions or the license's limit, 0 for none
    UIntMod,        \* the counters are unsigned: values modulo UIntMod
    NoSession       \* a NULL pointer

ASSUME SessionAssumption ==
    /\ IsFiniteSet(Sessions) /\ NoSession \notin Sessions
    /\ Kind \in [Sessions -> {"pppoe", "tunnel", "ipoe"}]
    /\ \A c \in Scenarios :
          /\ c.single \in {"off", "deny", "replace"} /\ c.max_starting \in Nat
          /\ c.arrive \subseteq Sessions
          /\ c.ops \subseteq {"sigterm", "soft", "default", "hard", "cancel"}
    /\ MaxSessions \in Nat
    /\ UIntMod \in Nat /\ UIntMod > Cardinality(Sessions)

VARIABLES
    pc,        \* [Sessions -> PC]
    ses,       \* [Sessions -> struct ap_session]
    calls,     \* [Sessions -> calls queued in the session's context]
    list,      \* ses_list
    cnt,       \* ap_session_stat
    shutdown,  \* ap_shutdown
    cb,        \* shutdown_cb: "main" or "null"
    stopper,   \* [{"main", "cli"} -> place in ap_shutdown_soft]
    op,        \* the CLI's request
    stopped,   \* the daemon ends: main.c's term, or a crash
    conf       \* [single: conf_single_session, max_starting: conf_max_starting
               \*  (0 for no limit), arrive: the sessions that may arrive,
               \*  ops: the shutdown requests that may be made]

vars == <<pc, ses, calls, list, cnt, shutdown, cb, stopper, op, stopped, conf>>

admin == <<shutdown, cb, stopper, op, stopped, conf>>

Stoppers == {"main", "cli"}

PC == {"none", "padr", "slot", "conn", "checked", "counted", "idle", "asleep",
       "ipoe1", "ipoe2", "act1", "act2", "act3", "term1", "term2", "lower", "fin1", "fin2",
       "fin3", "rdStarting", "rdActive", "rdFinishing", "gone"}

StopperPC == {"idle", "signalled", "rdStarting", "rdActive", "rdFinishing",
              "walk", "done"}

Counter == {"starting", "incoming", "active", "finishing"}

SessionRecord ==
    [state: {"none", "starting", "active", "finishing"},
     user: BOOLEAN, authErr: BOOLEAN, authed: BOOLEAN, hard: BOOLEAN,
     wakeup: Sessions \cup {NoSession}, woken: BOOLEAN]

TypeOK ==
    /\ pc \in [Sessions -> PC]
    /\ ses \in [Sessions -> SessionRecord]
    /\ calls \in [Sessions -> Seq({"soft", "hard", "auth"})]
    /\ list \in Seq(Sessions)
    /\ cnt \in [Counter -> 0..(UIntMod - 1)]
    /\ shutdown \in BOOLEAN /\ cb \in {"main", "null"}
    /\ stopper \in [Stoppers -> StopperPC]
    /\ op \in {"none", "soft", "default", "hard", "cancel"}
    /\ stopped \in BOOLEAN
    /\ conf \in Scenarios

NewSession ==
    [state |-> "none", user |-> FALSE, authErr |-> FALSE, authed |-> FALSE,
     hard |-> FALSE, wakeup |-> NoSession, woken |-> FALSE]

Init ==
    /\ conf \in Scenarios
    /\ pc = [s \in Sessions |-> IF s \in conf.arrive THEN "none" ELSE "gone"]
    /\ ses = [s \in Sessions |-> NewSession]
    /\ calls = [s \in Sessions |-> <<>>]
    /\ list = <<>>
    /\ cnt = [c \in Counter |-> 0]
    /\ shutdown = FALSE /\ cb = "null" /\ stopped = FALSE
    /\ stopper = [t \in Stoppers |-> "idle"] /\ op = "none"

-----------------------------------------------------------------------------
(* Small steps.                                                            *)

Inc(c) == cnt' = [cnt EXCEPT ![c] = (@ + 1) % UIntMod]

Dec(c) == cnt' = [cnt EXCEPT ![c] = (@ + UIntMod - 1) % UIntMod]

At(s, p, q) == pc[s] = p /\ pc' = [pc EXCEPT ![s] = q]

SetSes(s, r) == ses' = [ses EXCEPT ![s] = r]

Listed(s) == \E i \in 1..Len(list) : list[i] = s

(* !starting && !active && !finishing, one unprotected read after another. *)
Reading == {"rdStarting", "rdActive", "rdFinishing"}

(* ses_lock held for reading, by a stopper.  Main walks the list under the *)
(* same lock; the CLI releases it and takes it again for the walk.         *)
ReadLocked ==
    stopper["main"] \in Reading \cup {"walk"} \/ stopper["cli"] \in Reading

(* shutdown_cb: main.c's callback ends the wait of main; without it a      *)
(* SIGTERM is sent, which main only takes while it waits for one.          *)
Called(st) ==
    IF cb = "main" THEN st
    ELSE [st EXCEPT !["main"] = IF @ = "idle" THEN "signalled" ELSE @]

CallbackIf(c, st) ==
    /\ stopper' = IF c THEN Called(st) ELSE st
    /\ stopped' = (stopped \/ (c /\ cb = "main"))

ReadsZero(p) ==
    CASE p = "rdStarting" -> cnt.starting = 0
      [] p = "rdActive" -> cnt.active = 0
      [] p = "rdFinishing" -> cnt.finishing = 0

ReadsNext(p) == IF p = "rdStarting" THEN "rdActive" ELSE "rdFinishing"

-----------------------------------------------------------------------------
(* Arrival.  The limits are read first and enforced later.                 *)

Admits ==
    /\ ~shutdown
    /\ conf.max_starting = 0 \/ cnt.starting < conf.max_starting
    /\ MaxSessions = 0 \/ cnt.active + cnt.starting < MaxSessions

SlotFree == conf.max_starting = 0 \/ cnt.incoming < conf.max_starting

(* A PADR, in its server's context; that context handles one at a time.    *)
RecvPadr(s) ==
    /\ Kind[s] = "pppoe" /\ Admits
    /\ \A r \in Sessions : Server[r] = Server[s] => pc[r] \notin {"padr", "slot"}
    /\ At(s, "none", "padr")
    /\ UNCHANGED <<ses, calls, list, cnt, admin>>

PadrCheckSlot(s) ==
    /\ At(s, "padr", IF SlotFree THEN "slot" ELSE "none")
    /\ UNCHANGED <<ses, calls, list, cnt, admin>>

(* The slot is taken and the connection created; connect_channel is queued *)
(* unless no session id is free.                                           *)
PadrTakeSlot(s, sidFound) ==
    /\ At(s, "slot", IF sidFound THEN "conn" ELSE "gone")
    /\ IF sidFound THEN Inc("incoming") ELSE UNCHANGED cnt
    /\ UNCHANGED <<ses, calls, list, admin>>

(* A connection of a tunnel protocol, or a new IPoE client.                *)
Accept(s) ==
    /\ Kind[s] # "pppoe" /\ Admits
    /\ At(s, "none", "conn")
    /\ UNCHANGED <<ses, calls, list, cnt, admin>>

\* Mutant: the slot of a session that cannot start is lost.
StartCheck_KeepsSlot(s) ==
    /\ IF shutdown THEN At(s, "conn", IF Kind[s] = "ipoe" THEN "idle" ELSE "gone")
                   ELSE At(s, "conn", "checked")
    /\ UNCHANGED <<ses, calls, list, cnt, admin>>

(* ap_session_starting, and what the protocol does when it fails: PPPoE    *)
(* gives the slot back in disconnect; IPoE takes no notice and goes on     *)
(* with a session that is not in the list.                                 *)
StartCheck(s) ==
    /\ IF shutdown THEN At(s, "conn", IF Kind[s] = "ipoe" THEN "idle" ELSE "gone")
                   ELSE At(s, "conn", "checked")
    /\ IF shutdown /\ Kind[s] = "pppoe" /\ cnt.incoming > 0
       THEN Dec("incoming") ELSE UNCHANGED cnt
    /\ UNCHANGED <<ses, calls, list, admin>>

StartCount(s) ==
    /\ At(s, "checked", "counted")
    /\ SetSes(s, [ses[s] EXCEPT !.state = "starting"])
    /\ Inc("starting")
    /\ UNCHANGED <<calls, list, admin>>

StartLink(s) ==
    /\ ~ReadLocked
    /\ At(s, "counted", "idle")
    /\ list' = Append(list, s)
    /\ UNCHANGED <<ses, calls, cnt, admin>>

-----------------------------------------------------------------------------
(* ap_session_set_username.  After it PPP queues the call that starts the  *)
(* network protocols, while IPoE goes on in the same handler.              *)

\* Mutant: only sessions that are still being set up are compared.
Duplicate_Starting(s, t) ==
    ses[t].user /\ ~ses[t].authErr /\ User[t] = User[s] /\ ses[t].state = "starting"

Duplicate(s, t) ==
    ses[t].user /\ ~ses[t].authErr /\ User[t] = User[s]

(* The sessions of this name in ses_list.                                  *)
Duplicates(s) == {t \in Sessions : Listed(t) /\ Duplicate(s, t)}

First(P, w) == \E i \in P : w = list[i] /\ \A j \in P : i <= j

\* Mutant: a session that already has a waiter gets another one.
WaitsFor_First(s, w) ==
    LET dups == {i \in 1..Len(list) : Duplicate(s, list[i])}
    IN  IF dups = {} THEN w = NoSession ELSE First(dups, w)

(* w is the first of them, in list order, that nobody waits for yet.       *)
WaitsFor(s, w) ==
    LET free == {i \in 1..Len(list) : Duplicate(s, list[i])
                                      /\ ses[list[i]].wakeup = NoSession}
    IN  IF free = {} THEN w = NoSession ELSE First(free, w)

Authenticating(s) ==
    pc[s] = "idle" /\ ~ses[s].user /\ ses[s].state \in {"starting", "none"}

Denied(s) == conf.single = "deny" /\ Duplicates(s) # {}

(* The second session of a name is refused...                              *)
DenyUsername(s) ==
    /\ Authenticating(s) /\ ~ReadLocked /\ Denied(s)
    /\ pc' = [pc EXCEPT ![s] = "term1"]
    /\ SetSes(s, [ses[s] EXCEPT !.authErr = TRUE])
    /\ UNCHANGED <<calls, list, cnt, admin>>

(* ... or has the older ones terminated and sleeps until w has finished.   *)
TakeUsername(s, w) ==
    /\ Authenticating(s) /\ ~ReadLocked /\ ~Denied(s)
    /\ IF conf.single = "replace" THEN WaitsFor(s, w) ELSE w = NoSession
    /\ calls' = [t \in Sessions |->
                   IF conf.single = "replace" /\ t \in Duplicates(s)
                   THEN Append(calls[t], "soft")
                   ELSE IF t = s /\ w = NoSession /\ Kind[s] # "ipoe"
                   THEN Append(calls[t], "auth") ELSE calls[t]]
    /\ ses' = [t \in Sessions |->
                 IF t = s
                 THEN [ses[t] EXCEPT !.user = TRUE,
                                     !.authed = w = NoSession /\ Kind[s] = "ipoe"]
                 ELSE IF t = w THEN [ses[t] EXCEPT !.wakeup = s]
                 ELSE ses[t]]
    /\ pc' = IF w = NoSession THEN pc ELSE [pc EXCEPT ![s] = "asleep"]
    /\ UNCHANGED <<list, cnt, admin>>

SetUsername(s) ==
    DenyUsername(s) \/ \E w \in Sessions \cup {NoSession} : TakeUsername(s, w)

(* triton_context_schedule returns once the old session woke this one.     *)
Resume(s) ==
    /\ ses[s].woken
    /\ At(s, "asleep", "idle")
    /\ SetSes(s, [ses[s] EXCEPT !.woken = FALSE, !.authed = Kind[s] = "ipoe"])
    /\ calls' = IF Kind[s] = "ipoe" THEN calls
                ELSE [calls EXCEPT ![s] = Append(@, "auth")]
    /\ UNCHANGED <<list, cnt, admin>>

(* ppp_auth_failed: the name is kept with the cause.                       *)
AuthFailed(s) ==
    /\ Authenticating(s) /\ ~ReadLocked
    /\ pc' = [pc EXCEPT ![s] = "term1"]
    /\ SetSes(s, [ses[s] EXCEPT !.user = TRUE, !.authErr = TRUE])
    /\ UNCHANGED <<calls, list, cnt, admin>>

-----------------------------------------------------------------------------
(* ap_session_activate: during a shutdown the session just stays where it  *)
(* is.  IPoE counts the session once more before the call.                 *)

ActivateFrom ==
    IF shutdown THEN "idle" ELSE "act1"

Activate(s) ==
    /\ ses[s].authed /\ ses[s].state # "finishing"
    /\ At(s, "idle", IF Kind[s] = "ipoe" THEN "ipoe1" ELSE ActivateFrom)
    /\ SetSes(s, [ses[s] EXCEPT !.authed = FALSE])
    /\ UNCHANGED <<calls, list, cnt, admin>>

IpoeStarting(s) ==
    /\ At(s, "ipoe1", "ipoe2")
    /\ Inc("starting")
    /\ UNCHANGED <<ses, calls, list, admin>>

IpoeIncoming(s) ==
    /\ At(s, "ipoe2", ActivateFrom)
    /\ Inc("incoming")
    /\ UNCHANGED <<ses, calls, list, admin>>

ActivateStarting(s) ==
    /\ At(s, "act1", "act2")
    /\ SetSes(s, [ses[s] EXCEPT !.state = "active"])
    /\ Dec("starting")
    /\ UNCHANGED <<calls, list, admin>>

ActivateIncoming(s) ==
    /\ At(s, "act2", "act3")
    /\ Dec("incoming")
    /\ UNCHANGED <<ses, calls, list, admin>>

ActivateActive(s) ==
    /\ At(s, "act3", "idle")
    /\ Inc("active")
    /\ UNCHANGED <<ses, calls, list, admin>>

-----------------------------------------------------------------------------
(* ap_session_terminate.  A session that is already terminating is only    *)
(* forced on by a hard request.                                            *)

TerminateStep(s, hard) ==
    IF ses[s].state = "finishing"
    THEN /\ pc' = [pc EXCEPT ![s] = IF hard THEN "lower" ELSE "idle"]
         /\ SetSes(s, [ses[s] EXCEPT !.hard = hard])
    ELSE /\ pc' = [pc EXCEPT ![s] = "term1"]
         /\ SetSes(s, [ses[s] EXCEPT !.hard = hard])

(* A queued call.                                                          *)
RunCall(s) ==
    /\ pc[s] = "idle" /\ calls[s] # <<>>
    /\ calls' = [calls EXCEPT ![s] = Tail(@)]
    /\ IF Head(calls[s]) = "auth"
       THEN /\ SetSes(s, [ses[s] EXCEPT !.authed = ses[s].state # "finishing"])
            /\ UNCHANGED pc
       ELSE TerminateStep(s, Head(calls[s]) = "hard")
    /\ UNCHANGED <<list, cnt, admin>>

(* The peer disconnects, a timer expires, a layer fails to start.          *)
PeerLeaves(s, hard) ==
    /\ pc[s] = "idle" /\ ses[s].state # "finishing"
    /\ TerminateStep(s, hard)
    /\ UNCHANGED <<calls, list, cnt, admin>>

TerminateCount(s) ==
    /\ At(s, "term1", IF ses[s].state = "active" THEN "lower" ELSE "term2")
    /\ Dec(IF ses[s].state = "active" THEN "active" ELSE "starting")
    /\ UNCHANGED <<ses, calls, list, admin>>

TerminateIncoming(s) ==
    /\ At(s, "term2", "lower")
    /\ Dec("incoming")
    /\ UNCHANGED <<ses, calls, list, admin>>

(* finishing is counted and ctrl->terminate called; the lower layers end   *)
(* now or, after a soft request, later.                                    *)
TerminateLower(s, now) ==
    /\ ses[s].hard => now
    /\ At(s, "lower", IF now THEN "fin1" ELSE "idle")
    /\ IF ses[s].state = "finishing" THEN UNCHANGED cnt ELSE Inc("finishing")
    /\ SetSes(s, [ses[s] EXCEPT !.state = "finishing"])
    /\ UNCHANGED <<calls, list, admin>>

(* The last layer of a terminating session is finished.                    *)
LowerFinished(s) ==
    /\ ses[s].state = "finishing"
    /\ At(s, "idle", "fin1")
    /\ UNCHANGED <<ses, calls, list, cnt, admin>>

-----------------------------------------------------------------------------
(* ap_session_finished.                                                    *)

(* A session that was never linked has NULL pointers in its list entry:    *)
(* list_del ends the daemon.                                               *)
FinishUnlink(s) ==
    /\ ~ReadLocked
    /\ At(s, "fin1", IF Listed(s) THEN "fin2" ELSE "gone")
    /\ IF Listed(s) THEN \E i \in 1..Len(list) : list[i] = s /\ list' = RemoveAt(list, i)
                    ELSE UNCHANGED list
    /\ stopped' = (stopped \/ ~Listed(s))
    /\ UNCHANGED <<ses, calls, cnt, shutdown, cb, stopper, op, conf>>

\* Mutant: the FINISHING case is forgotten.
FinishedCounters_Active(st) ==
    IF st = "starting" THEN {"starting", "incoming"} ELSE {"active"}

(* The counters a finished session leaves.  In fact ap_session_terminate   *)
(* always came first, and only the last case occurs.                       *)
FinishedCounters(st) ==
    CASE st = "active" -> {"active"}
      [] st = "starting" -> {"starting", "incoming"}
      [] OTHER -> {"finishing"}

FinishCount(s) ==
    /\ At(s, "fin2", "fin3")
    /\ cnt' = [c \in Counter |->
                 IF c \in FinishedCounters(ses[s].state)
                 THEN (cnt[c] + UIntMod - 1) % UIntMod ELSE cnt[c]]
    /\ UNCHANGED <<ses, calls, list, admin>>

\* Mutant: the waiter is forgotten instead of woken.
FinishWake_Forgets(s) ==
    /\ At(s, "fin3", "rdStarting")
    /\ SetSes(s, [ses[s] EXCEPT !.wakeup = NoSession])
    /\ calls' = [calls EXCEPT ![s] = <<>>]
    /\ UNCHANGED <<list, cnt, admin>>

(* The session that waits for this name is woken; the control protocol     *)
(* unregisters the context, which drops its calls.                         *)
FinishWake(s) ==
    /\ At(s, "fin3", "rdStarting")
    /\ ses' = [t \in Sessions |->
                 IF t = s THEN [ses[t] EXCEPT !.wakeup = NoSession]
                 ELSE IF t = ses[s].wakeup THEN [ses[t] EXCEPT !.woken = TRUE]
                 ELSE ses[t]]
    /\ calls' = [calls EXCEPT ![s] = <<>>]
    /\ UNCHANGED <<list, cnt, admin>>

(* The last session to finish ends a shutdown.                             *)
FinishRead(s) ==
    /\ pc[s] \in Reading
    /\ LET zero == ReadsZero(pc[s]) /\ (pc[s] = "rdStarting" => shutdown)
           last == pc[s] = "rdFinishing"
       IN  /\ pc' = [pc EXCEPT ![s] = IF zero /\ ~last THEN ReadsNext(@)
                                      ELSE "gone"]
           /\ CallbackIf(zero /\ last, stopper)
    /\ UNCHANGED <<ses, calls, list, cnt, shutdown, cb, op, conf>>

-----------------------------------------------------------------------------
(* Shutdown.                                                               *)

(* SIGTERM reaches main while it waits for it.                             *)
SigTerm ==
    /\ "sigterm" \in conf.ops /\ stopper["main"] = "idle"
    /\ stopper' = [stopper EXCEPT !["main"] = "signalled"]
    /\ UNCHANGED <<pc, ses, calls, list, cnt, shutdown, cb, op, stopped, conf>>

(* ap_shutdown_soft is entered, by main or for a CLI command.              *)
MainShutdown ==
    /\ stopper["main"] = "signalled"
    /\ shutdown' = TRUE /\ cb' = "main"
    /\ stopper' = [stopper EXCEPT !["main"] = "rdStarting"]
    /\ UNCHANGED <<pc, ses, calls, list, cnt, op, stopped, conf>>

CliShutdown(o) ==
    /\ o \in conf.ops /\ op = "none"
    /\ shutdown' = TRUE /\ cb' = "null" /\ op' = o
    /\ stopper' = [stopper EXCEPT !["cli"] = "rdStarting"]
    /\ UNCHANGED <<pc, ses, calls, list, cnt, stopped, conf>>

CliCancel ==
    /\ "cancel" \in conf.ops /\ stopper["cli"] = "done" /\ op # "cancel"
    /\ shutdown' = FALSE /\ op' = "cancel"
    /\ UNCHANGED <<pc, ses, calls, list, cnt, cb, stopper, stopped, conf>>

(* With terminate_all_sessions the CLI goes on to the walk in any case.    *)
WalkNext(t, idle) ==
    IF t = "main" THEN IF idle THEN "done" ELSE "walk"
    ELSE IF op = "soft" THEN "done" ELSE "walk"

ShutdownRead(t) ==
    /\ stopper[t] \in Reading
    /\ LET zero == ReadsZero(stopper[t])
           last == stopper[t] = "rdFinishing"
           next == IF zero /\ ~last THEN ReadsNext(stopper[t])
                   ELSE WalkNext(t, zero)
       IN  CallbackIf(zero /\ last, [stopper EXCEPT ![t] = next])
    /\ UNCHANGED <<pc, ses, calls, list, cnt, shutdown, cb, op, conf>>

(* The walk over ses_list.                                                 *)
ShutdownWalk(t) ==
    /\ stopper[t] = "walk"
    /\ LET how == IF t = "cli" /\ op = "hard" THEN "hard" ELSE "soft"
       IN  calls' = [s \in Sessions |->
                       IF Listed(s) THEN Append(calls[s], how) ELSE calls[s]]
    /\ stopper' = [stopper EXCEPT ![t] = "done"]
    /\ UNCHANGED <<pc, ses, list, cnt, shutdown, cb, op, stopped, conf>>

-----------------------------------------------------------------------------
Starts(s) == StartCheck(s) \/ StartCount(s) \/ StartLink(s)

Discovers(s) == RecvPadr(s) \/ PadrCheckSlot(s)
                \/ \E found \in BOOLEAN : PadrTakeSlot(s, found)

Finishes(s) ==
    \/ TerminateCount(s) \/ TerminateIncoming(s)
    \/ \E now \in BOOLEAN : TerminateLower(s, now)
    \/ FinishUnlink(s) \/ FinishCount(s)
    \/ FinishWake(s) \/ FinishRead(s)

(* What the session's context does by itself once it is running.           *)
Runs(s) ==
    \/ Starts(s) \/ Resume(s) \/ RunCall(s)
    \/ IpoeStarting(s) \/ IpoeIncoming(s) \/ ActivateStarting(s) \/ ActivateIncoming(s)
    \/ ActivateActive(s)
    \/ Finishes(s)

Stops(t) == ShutdownRead(t) \/ ShutdownWalk(t)

Next ==
    \/ \E s \in Sessions :
          \/ Discovers(s) \/ Accept(s) \/ Runs(s)
          \/ SetUsername(s) \/ AuthFailed(s) \/ Activate(s)
          \/ \E hard \in BOOLEAN : PeerLeaves(s, hard)
          \/ LowerFinished(s)
    \/ SigTerm \/ MainShutdown \/ CliCancel
    \/ \E o \in {"soft", "default", "hard"} : CliShutdown(o)
    \/ \E t \in Stoppers : Stops(t)

Spec == Init /\ [][Next]_vars

(* Workers run the contexts, main and the CLI thread run, and the lower    *)
(* layers of a terminating session end (module Ppp).                       *)
Fairness ==
    /\ \A s \in Sessions : WF_vars(Runs(s)) /\ WF_vars(LowerFinished(s))
    /\ \A t \in Stoppers : WF_vars(Stops(t))
    /\ WF_vars(MainShutdown)

FairSpec == Spec /\ Fairness

(* In addition every client leaves at last.                                *)
LeavingSpec ==
    FairSpec /\ \A s \in Sessions : WF_vars(\E h \in BOOLEAN : PeerLeaves(s, h))

-----------------------------------------------------------------------------
(* Where a session is counted.                                             *)

InStarting(s) == ses[s].state = "starting" /\ pc[s] \notin {"term2", "lower"}

InIncoming(s) ==
    /\ Kind[s] = "pppoe"
    /\ \/ pc[s] \in {"conn", "checked", "act2"}
       \/ ses[s].state = "starting" /\ pc[s] # "lower"

InActive(s) ==
    ses[s].state = "active" /\ pc[s] \notin {"act2", "act3", "lower"}

InFinishing(s) ==
    /\ ses[s].state = "finishing"
    /\ pc[s] \notin Reading \cup {"fin3", "gone"}

Number(P(_)) == Cardinality({s \in Sessions : P(s)})

(* Whatever way a session takes through activation, termination and        *)
(* finish, and wherever its handlers are interrupted, each counter of      *)
(* ap_session_stat is the number of sessions it stands for: none is        *)
(* counted twice and none is forgotten.                                    *)
CountsAgree ==
    /\ cnt.starting = Number(InStarting)
    /\ cnt.incoming = Number(InIncoming)
    /\ cnt.active = Number(InActive)
    /\ cnt.finishing = Number(InFinishing)

(* max-starting: with one discovery context no more sessions are being     *)
(* set up than allowed, from the PADR to the activation.                   *)
StartingWithinLimit ==
    conf.max_starting > 0 => Number(InIncoming) <= conf.max_starting

(* Both are true of PPPoE: a tunnel gives back a place it never took, and  *)
(* IPoE counts a session twice (run session_ipoe).                         *)
CountersExact ==
    /\ TypeOK
    /\ (\A s \in conf.arrive : Kind[s] = "pppoe") => CountsAgree /\ StartingWithinLimit

(* single-session: two sessions of one name are never active together.     *)
OneSessionPerName ==
    conf.single # "off" =>
        \A s, t \in Sessions :
            s # t /\ User[s] = User[t]
                => ~(ses[s].state = "active" /\ ses[t].state = "active")

(* A session that sleeps until an older one of its name has finished is    *)
(* registered with one that has still to wake it: no wakeup is lost when   *)
(* several sessions replace each other.                                    *)
WaiterIsArmed ==
    \A s \in Sessions :
        pc[s] = "asleep" /\ ~ses[s].woken =>
            \E t \in Sessions :
                ses[t].wakeup = s /\ pc[t] \notin Reading \cup {"gone"}

(* The session that replaces another one gets its turn.                    *)
WaiterResumes == \A s \in Sessions : (pc[s] = "asleep") ~> (pc[s] # "asleep")

(* Once a shutdown was requested and the clients leave, the daemon stops.  *)
ShutdownEnds == shutdown ~> stopped
=============================================================================
