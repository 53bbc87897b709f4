------------------------------ MODULE TritonIo ------------------------------
(***************************************************************************)
(* Triton's descriptors and timers (triton/md.c, triton/timer.c and the    *)
(* part of ctx_thread in triton/triton.c that serves them): the md thread  *)
(* waits for epoll events, notes them in the handler and queues it on its  *)
(* context; the context's worker calls read and write; what was            *)
(* unregistered is freed by the md thread a round later.  The timer thread *)
(* does the same with timerfds.                                            *)
(*                                                                         *)
(* One context, one descriptor and one timer, of which handler objects are *)
(* made one after the other.  A step is what happens under ctx->lock or    *)
(* between two epoll calls.  epoll is external: an edge makes an object    *)
(* ready, epoll_wait reports what it finds of the events asked for.        *)
(***************************************************************************)
EXTENDS Integers, Sequences, FiniteSets

CONSTANTS
    Objects,       \* handler objects and timer objects
    IoScenarios    \* [timer, level, edges, ops]: timers or descriptors, MD_TRIG_LEVEL, the edges
                   \* (times the timer runs out), the calls made outside of a handler

VARIABLE io

Modes == {"in", "out"}

\* ev: epoll_event.events; inst: what epoll has (a set with "x" for an entry).
NoObject == [on |-> FALSE, ud |-> FALSE, ev |-> {}, inst |-> {}, trig |-> {}, pending |-> FALSE,
             armed |-> FALSE, mod |-> FALSE]
NoWork == [at |-> "idle", h |-> 0, events |-> {}]
-----------------------------------------------------------------------------
(* epoll: the entry of object h.                                           *)

Ready(g, h) == g.ready \cap g.obj[h].inst
epoll_ctl(g, h, inst) ==
    [g EXCEPT !.obj[h].inst = inst, !.rdl = IF g.ready \cap inst = {} THEN @ \ {h} ELSE @ \cup {h}]

\* An edge: data arrive, the buffer has room, the timer runs out.
Edge(g, m) ==
    [g EXCEPT !.ready = @ \cup {m}, !.edges = @ - 1, !.due = TRUE,
              !.rdl = @ \cup {h \in Objects : m \in g.obj[h].inst}]

\* EPOLLONESHOT: what is reported is disabled.
epoll_wait(g) ==
    LET seen == {h \in g.rdl : Ready(g, h) # {}}
    IN [g EXCEPT !.batch = [h \in seen |-> Ready(g, h)], !.rdl = {}, !.thr = "batch",
                 !.obj = [h \in Objects |-> IF h \in seen /\ g.sc.level THEN [@[h] EXCEPT !.inst = {}] ELSE @[h]]]
-----------------------------------------------------------------------------
(* md_thread and timer_thread.                                             *)

\* Unregistered objects and objects that wait are not queued again.
Notify(g, h) ==
    LET rest == [g EXCEPT !.batch = [x \in DOMAIN g.batch \ {h} |-> g.batch[x]]]
    IN IF ~g.obj[h].ud THEN rest
       ELSE [rest EXCEPT !.obj[h].trig = @ \cup g.batch[h], !.obj[h].pending = TRUE,
                         !.pend = IF g.obj[h].pending THEN @ ELSE Append(@, h)]

\* What was freed a round ago; a timer leaves epoll only here.
Release(g) ==
    [g EXCEPT !.obj = [h \in Objects |-> IF h \in g.freed2 THEN NoObject ELSE @[h]], !.rdl = @ \ g.freed2,
              !.refs = @ - Cardinality(g.freed2), !.freed2 = {}, !.thr = "splice"]
Splice(g) == [g EXCEPT !.freed2 = g.freed, !.freed = {}, !.thr = "wait"]
-----------------------------------------------------------------------------
(* Calls of the owner.                                                     *)

triton_md_register_handler(g, h) ==
    [g EXCEPT !.obj[h] = [NoObject EXCEPT !.on = TRUE, !.ud = TRUE], !.cur = h, !.refs = @ + 1]

Install(g, h, ev, e) ==
    IF ev = e.ev THEN g
    ELSE IF e.ev = {} THEN epoll_ctl([g EXCEPT !.obj[h].ev = ev], h, ev)
    ELSE IF ev = {} THEN epoll_ctl([g EXCEPT !.obj[h].ev = {}, !.obj[h].mod = FALSE], h, {})
    ELSE IF e.armed THEN epoll_ctl([g EXCEPT !.obj[h].ev = ev], h, ev)
    ELSE [g EXCEPT !.obj[h].ev = ev, !.obj[h].mod = TRUE]

triton_md_enable_handler(g, h, m) == Install(g, h, g.obj[h].ev \cup {m}, g.obj[h])
triton_md_disable_handler(g, h, m) == Install(g, h, g.obj[h].ev \ {m}, g.obj[h])

Unlink(g, h) ==
    [g EXCEPT !.obj[h].ud = FALSE, !.obj[h].pending = FALSE, !.pend = SelectSeq(@, LAMBDA x : x # h),
              !.freed = @ \cup {h}, !.cur = 0]

triton_md_unregister_handler(g, h) == Unlink(Install(g, h, {}, g.obj[h]), h)

\* A deferred change is made once the handler has returned.
md_rearm(g, h) ==
    IF ~g.obj[h].ud THEN g
    ELSE IF g.obj[h].mod THEN [epoll_ctl(g, h, g.obj[h].ev) EXCEPT !.obj[h].mod = FALSE, !.obj[h].armed = TRUE]
    ELSE [g EXCEPT !.obj[h].armed = TRUE]

\* timerfd_settime takes back an expiry that was not read.
triton_timer_mod(g) == [g EXCEPT !.ready = {}, !.due = FALSE]

\* On failure the timer is freed, the reference to the context is kept.
triton_timer_add(g, h, ok) ==
    LET t == triton_timer_mod(triton_md_register_handler(g, h))
    IN IF ok THEN epoll_ctl([t EXCEPT !.obj[h].ev = {"in"}], h, {"in"})
       ELSE [t EXCEPT !.obj[h] = NoObject, !.cur = 0, !.failed = @ + 1]
triton_timer_del(g, h) == Unlink(g, h)
-----------------------------------------------------------------------------
(* The worker (ctx_thread).                                                *)

Pop(g) ==
    LET h == Head(g.pend)
    IN [g EXCEPT !.pend = Tail(@), !.obj[h].pending = FALSE, !.obj[h].trig = {},
                 !.work = [at |-> IF g.sc.timer THEN "expire" ELSE "read", h |-> h, events |-> g.obj[h].trig],
                 !.obj[h].armed = IF g.sc.timer THEN @ ELSE FALSE]

\* What the owner does of its own accord or in a handler.
Calls(g) ==
    IF g.cur = 0 THEN {g}
    ELSE {g} \cup {triton_md_enable_handler(g, g.cur, m) : m \in Modes}
             \cup {triton_md_disable_handler(g, g.cur, "out")} \cup {triton_md_unregister_handler(g, g.cur)}

\* read and write run if the event was asked for and still is; they take all
\* there is.  A handler that unregisters itself returns 1.
CallsOf(g, m) ==
    IF m \in g.work.events \cap g.obj[g.work.h].ev
    THEN Calls([g EXCEPT !.ready = @ \ {m}])
    ELSE {g}
Then(g, at) == IF g.obj[g.work.h].ud THEN [g EXCEPT !.work.at = at] ELSE [g EXCEPT !.work = NoWork]
Rearm(g) == [md_rearm(g, g.work.h) EXCEPT !.work = NoWork]

\* read() of the timerfd, whose result is not looked at, then expire.
Expire(g) ==
    LET e == [g EXCEPT !.work = NoWork, !.ready = {}]
    IN IF g.obj[g.work.h].ud THEN [e EXCEPT !.early = @ \/ ~g.due, !.due = FALSE] ELSE e
-----------------------------------------------------------------------------
IoInit ==
    \E sc \in IoScenarios :
      io = [obj |-> [h \in Objects |-> NoObject], cur |-> 0, ready |-> {}, rdl |-> {},
            batch |-> [h \in {} |-> {}], thr |-> "wait", freed |-> {}, freed2 |-> {}, pend |-> <<>>,
            work |-> NoWork, refs |-> 1, edges |-> sc.edges, ops |-> sc.ops, due |-> FALSE, early |-> FALSE,
            failed |-> 0, sc |-> sc]

New == {h \in Objects : ~io.obj[h].on}
Own(g) == io.work.at = "idle" /\ io.ops > 0 /\ io' = [g EXCEPT !.ops = @ - 1]

Owner ==
    \/ io.cur = 0 /\ ~io.sc.timer /\ \E h \in New : Own(triton_md_register_handler(io, h))
    \/ ~io.sc.timer /\ \E g \in Calls(io) \ {io} : Own(g)
    \/ io.cur = 0 /\ io.sc.timer /\ \E h \in New, ok \in BOOLEAN : Own(triton_timer_add(io, h, ok))
    \/ io.cur # 0 /\ io.sc.timer /\ Own(triton_timer_mod(io))
    \/ io.cur # 0 /\ io.sc.timer /\ Own(triton_timer_del(io, io.cur))

Worker ==
    \/ io.work.at = "idle" /\ io.pend # <<>> /\ io' = Pop(io)
    \/ io.work.at = "read" /\ \E g \in CallsOf(io, "in") : io' = Then(g, "write")
    \/ io.work.at = "write" /\ \E g \in CallsOf(io, "out") : io' = Then(g, "rearm")
    \/ io.work.at = "rearm" /\ io' = Rearm(io)
    \/ io.work.at = "expire" /\ io' = Expire(io)

md_thread ==
    \/ io.thr = "wait" /\ io.rdl # {} /\ io' = epoll_wait(io)
    \/ io.thr = "batch" /\ \E h \in DOMAIN io.batch : io' = Notify(io, h)
    \/ io.thr = "batch" /\ io.batch = [h \in {} |-> {}] /\ io' = Release(io)
    \/ io.thr = "splice" /\ io' = Splice(io)

IoNext ==
    \/ Owner
    \/ Worker
    \/ md_thread
    \/ io.edges > 0 /\ \E m \in (IF io.sc.timer THEN {"in"} ELSE Modes) : io' = Edge(io, m)

IoSpec == IoInit /\ [][IoNext]_io
-----------------------------------------------------------------------------
Live == {h \in Objects : io.obj[h].on}
Serving(h) == io.work.at # "idle" /\ io.work.h = h

\* The context is referred to once for every object that is not freed, and an
\* object that is freed is nowhere: not in epoll, in what epoll_wait returned,
\* on the context's list or in the worker's hands.
IoReferences ==
    /\ io.refs = 1 + Cardinality(Live) + io.failed
    /\ io.rdl \cup DOMAIN io.batch \cup {io.pend[i] : i \in DOMAIN io.pend} \subseteq Live
    /\ \A h \in Objects : Serving(h) => h \in Live
    /\ \A h \in Live : io.cur = h \/ h \in io.freed \cup io.freed2

\* No event is lost: while an event epoll was asked for is there to be handled,
\* it is on its way (in epoll, in the md thread's hands or noted in a handler
\* that is queued), its handler is about to look at it, or epoll will be asked
\* again when the handler has returned.  Once armed, an edge-triggered handler
\* has in epoll what was asked for.
EventsDelivered ==
    /\ \A h \in Live : io.obj[h].ud /\ io.obj[h].armed /\ ~io.sc.level => io.obj[h].inst = io.obj[h].ev
    /\ \A h \in Live : \A m \in Ready(io, h) \cap io.obj[h].ev :
         io.obj[h].ud => \/ h \in io.rdl \cup DOMAIN io.batch
                         \/ io.obj[h].pending /\ m \in io.obj[h].trig
                         \/ /\ Serving(h) /\ m \in io.work.events
                            /\ m = "in" => io.work.at \in {"read", "expire"}
                            /\ m = "out" => io.work.at \in {"read", "write"}
                         \/ Serving(h) /\ io.obj[h].mod

\* Does not hold: armed is 0 until the first event was handled, so what is
\* enabled beside an earlier mode is only marked (mod); and a level-triggered
\* handler whose modes did not change is not armed again.
InterestInstalled ==
    \A h \in Live : io.obj[h].ud /\ ~Serving(h) /\ ~io.obj[h].pending /\ h \notin DOMAIN io.batch
                      => io.obj[h].inst = io.obj[h].ev

\* Does not hold: a timer that ran out and was set anew before its context came
\* to it expires at once.
ExpiresWhenDue == ~io.early

\* Does not hold: triton_timer_add keeps its reference when it fails.
ContextCanEnd == io.failed = 0
=============================================================================
