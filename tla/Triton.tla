------------------------------- MODULE Triton -------------------------------
(***************************************************************************)
(* The triton scheduler (micro-bngd/triton/triton.c): a pool of worker     *)
(* threads runs the callbacks of contexts so that a context is never run   *)
(* by two workers at once.  A context may suspend itself inside a callback *)
(* (triton_context_schedule) and is later continued by the same worker.    *)
(*                                                                         *)
(* Every critical section of a spinlock is one action; what happens        *)
(* between two critical sections is a separate action.  Work for a context *)
(* (a call, a ready descriptor, an expired timer) is a pending call here;  *)
(* descriptors and timers have their own module.                           *)
(***************************************************************************)
EXTENDS Integers, Sequences, FiniteSets

CONSTANTS
    Thread,            \* worker threads
    Ctx,               \* contexts (struct _triton_context_t)
    Default,           \* default_ctx, never unregistered
    Static,            \* contexts registered before triton_run
    Sleepers,          \* contexts whose callbacks call triton_context_schedule
    CloseUnregisters,  \* contexts whose close callback unregisters them
    Poster,            \* threads posting to contexts: md, timer, other workers
    Func,              \* functions passed to triton_context_call
    PrioMax,           \* CTX_PRIO_MAX
    Requests,          \* what else happens: "reload", "shutdown", "register"
    MaxOps,            \* bound on posted operations, reloads, registrations
    None               \* NULL

ASSUME ConstantAssumption ==
    /\ Default \in Static
    /\ Static \subseteq Ctx
    /\ Sleepers \subseteq Ctx
    /\ CloseUnregisters \subseteq Ctx \ {Default}
    /\ IsFiniteSet(Thread) /\ IsFiniteSet(Poster)
    /\ PrioMax \in Nat /\ PrioMax > 1
    /\ Requests \subseteq {"reload", "shutdown", "register"}
    /\ MaxOps \in Nat
    /\ None \notin Thread \cup Ctx

Prio == 0 .. PrioMax - 1

VARIABLES
    \* struct _triton_thread_t
    tpc,              \* where each worker is in triton_thread and ctx_thread
    tctx,             \* thread->ctx
    wakeup_list,      \* thread->wakeup_list[prio]
    sig,              \* workers with a pending SIGUSR1 (signals coalesce)
    \* globals of triton.c
    sleep_threads,    \* idle workers, most recent first
    thread_active,    \* triton_stat.thread_active
    ctx_queue,        \* ctx_queue[prio]
    ctx_list,         \* registered contexts
    need_config_reload, need_terminate, terminate,
    \* struct _triton_context_t
    cthread,          \* ctx->thread
    asleep, wakeup, init, need_close, need_free, refs, pending, priority,
    calls,            \* ctx->pending_calls, as <<position, function>> pairs
    callback,         \* the callback the context is inside, if any
    \* the posting threads and the thread that runs main()
    kpc, kctx, kfunc, kick,
    mpc, mtodo, mkick,
    ops,              \* operations begun so far
    posted            \* position of the next call on a pending_calls list

pool    == <<sig, sleep_threads, thread_active>>
queues  == <<ctx_queue, wakeup_list>>
flags   == <<need_config_reload, need_terminate, terminate>>
sched   == <<cthread, asleep, wakeup>>
life    == <<ctx_list, init, need_free, refs>>
work    == <<pending, need_close, priority, calls, callback>>
posters == <<kpc, kctx, kfunc, kick>>
main    == <<mpc, mtodo, mkick>>
bounds  == <<ops, posted>>
vars    == <<tpc, tctx, pool, queues, flags, sched, life, work, posters, main,
             bounds>>

WorkerPC == {"loop", "reload", "slept", "sigwait", "exited", "resume", "ctx",
             "handler", "drain", "unlink", "unregsig", "preclose", "leave",
             "drop", "dropfree"}

\* A worker is inside triton_thread on behalf of its context.
Executing == {"resume", "ctx", "handler", "drain", "unlink", "unregsig",
              "preclose", "leave"}

Elems(s) == {s[i] : i \in DOMAIN s}

\* ctx->entry2.next # NULL: the context is on a queue.
Linked(c) ==
    \/ \E p \in Prio : c \in Elems(ctx_queue[p])
    \/ \E t \in Thread, p \in Prio : c \in Elems(wakeup_list[t][p])

\* list_del of a thread's entry2.
Unlink(s, t) ==
    IF t \notin Elems(s) THEN s
    ELSE LET i == CHOOSE j \in DOMAIN s : s[j] = t
         IN  [j \in 1 .. Len(s) - 1 |-> IF j < i THEN s[j] ELSE s[j + 1]]

AllThreads == {t \in Thread : tpc[t] # "exited"}

Goto(t, pc) == tpc' = [tpc EXCEPT ![t] = pc]

Init ==
    /\ tpc = [t \in Thread |-> "loop"]
    /\ tctx = [t \in Thread |-> None]
    /\ wakeup_list = [t \in Thread |-> [p \in Prio |-> << >>]]
    /\ sig = {}
    /\ sleep_threads = << >>
    /\ thread_active = Cardinality(Thread)
    /\ ctx_queue = [p \in Prio |-> << >>]
    /\ ctx_list = Static
    /\ need_config_reload = FALSE /\ need_terminate = FALSE /\ terminate = FALSE
    /\ cthread = [c \in Ctx |-> None]
    /\ asleep = [c \in Ctx |-> FALSE] /\ wakeup = [c \in Ctx |-> FALSE]
    /\ init = [c \in Ctx |-> TRUE]
    /\ need_close = [c \in Ctx |-> FALSE] /\ need_free = [c \in Ctx |-> FALSE]
    /\ refs = [c \in Ctx |-> IF c \in Static THEN 1 ELSE 0]
    /\ pending = [c \in Ctx |-> FALSE]
    /\ priority = [c \in Ctx |-> 1]
    /\ calls = [c \in Ctx |-> {}]
    /\ callback = [c \in Ctx |-> "none"]
    /\ kpc = [k \in Poster |-> "idle"] /\ kctx = [k \in Poster |-> None]
    /\ kfunc = [k \in Poster |-> None] /\ kick = [k \in Poster |-> None]
    /\ mpc = "idle" /\ mtodo = {} /\ mkick = None
    /\ ops = 0 /\ posted = 0

-----------------------------------------------------------------------------
(***************************************************************************)
(* triton_queue_ctx(c), its caller holding ctx->lock; "ini" is ctx->init   *)
(* inside that section.  QueuedTo is the idle worker the context is handed *)
(* to, which the caller must signal, or None.  The callers read            *)
(* ctx->thread before they drop ctx->lock, which the worker needs to get   *)
(* through ctx_thread: it is still that worker.                            *)
(***************************************************************************)
\* Mutants: the test of ctx->thread, or that of entry2, is missing.
Settled_NoThreadTest(c, ini) == Linked(c) \/ need_free[c] \/ ini
Settled_NoLinkTest(c, ini) == cthread[c] # None \/ need_free[c] \/ ini

Settled(c, ini) == cthread[c] # None \/ Linked(c) \/ need_free[c] \/ ini

\* Mutant: idle workers are not looked for.
NoIdleWorker_NotLooked == TRUE

NoIdleWorker == sleep_threads = << >> \/ need_config_reload

\* Mutant: triton_queue_ctx returns 0 on every path.
QueuedTo_Zero(c, ini) == None

QueuedTo(c, ini) ==
    IF Settled(c, ini) \/ NoIdleWorker THEN None ELSE Head(sleep_threads)

QueueCtx(c, ini) ==
    /\ pending' = [pending EXCEPT ![c] = TRUE]
    /\ \/ /\ Settled(c, ini)
          /\ UNCHANGED <<ctx_queue, cthread, tctx, sleep_threads>>
       \/ /\ ~Settled(c, ini) /\ NoIdleWorker
          /\ ctx_queue' = [ctx_queue EXCEPT ![priority[c]] = Append(@, c)]
          /\ UNCHANGED <<cthread, tctx, sleep_threads>>
       \/ /\ ~Settled(c, ini) /\ ~NoIdleWorker
          /\ cthread' = [cthread EXCEPT ![c] = Head(sleep_threads)]
          /\ tctx' = [tctx EXCEPT ![Head(sleep_threads)] = c]
          /\ sleep_threads' = Tail(sleep_threads)
          /\ UNCHANGED ctx_queue

-----------------------------------------------------------------------------
(***************************************************************************)
(* triton_thread: the main loop of a worker.                               *)
(***************************************************************************)
HasWork(t, p) == wakeup_list[t][p] # << >> \/ ctx_queue[p] # << >>

\* check_ctx_queue_empty: the most urgent priority at which t finds work.
TopPrio(t, p) == HasWork(t, p) /\ \A q \in Prio : q < p => ~HasWork(t, q)

\* A suspended context is continued, any other context is adopted.
Take(t, c) ==
    /\ tctx' = [tctx EXCEPT ![t] = c]
    /\ \/ /\ asleep[c] /\ wakeup[c]
          /\ Goto(t, "resume")
          /\ UNCHANGED cthread
       \/ /\ ~(asleep[c] /\ wakeup[c])
          /\ Goto(t, "ctx")
          /\ cthread' = [cthread EXCEPT ![c] = t]

Dequeue(t) ==
    /\ tpc[t] = "loop"
    /\ ~need_config_reload
    /\ \E p \in Prio :
        /\ TopPrio(t, p)
        /\ \/ /\ wakeup_list[t][p] # << >>
              /\ Take(t, Head(wakeup_list[t][p]))
              /\ wakeup_list' = [wakeup_list EXCEPT ![t][p] = Tail(@)]
              /\ UNCHANGED ctx_queue
           \/ /\ wakeup_list[t][p] = << >>
              /\ Take(t, Head(ctx_queue[p]))
              /\ ctx_queue' = [ctx_queue EXCEPT ![p] = Tail(@)]
              /\ UNCHANGED wakeup_list
    /\ UNCHANGED <<pool, flags, asleep, wakeup, life, work, posters, main,
                   bounds>>

\* Where a worker that goes to sleep can be found by triton_queue_ctx.
SleepList(t) == IF terminate THEN sleep_threads ELSE <<t>> \o sleep_threads

\* Mutant: the counter is compared before it is decremented.
LastAwake_Before == thread_active = 0

LastAwake == thread_active = 1

\* No work, or a reload wants the workers to stop: the last one performs it.
GoToSleep(t) ==
    /\ tpc[t] = "loop"
    /\ need_config_reload \/ \A p \in Prio : ~HasWork(t, p)
    /\ sleep_threads' = SleepList(t)
    /\ thread_active' = thread_active - 1
    /\ Goto(t, IF LastAwake /\ need_config_reload THEN "reload" ELSE "slept")
    /\ UNCHANGED <<tctx, sig, queues, flags, sched, life, work, posters,
                   main, bounds>>

\* __config_reload in a worker: the end of it releases and signals everyone.
ReloadDone(t) ==
    /\ tpc[t] = "reload"
    /\ Goto(t, "slept")
    /\ need_config_reload' = FALSE
    /\ sig' = sig \cup AllThreads
    /\ UNCHANGED <<tctx, sleep_threads, thread_active, queues,
                   need_terminate, terminate, sched, life, work, posters,
                   main, bounds>>

\* The second look at "terminate"; it was not read in the same section.
CheckTerminate(t) ==
    /\ tpc[t] = "slept"
    /\ Goto(t, IF terminate THEN "exited" ELSE "sigwait")
    /\ sig' = IF terminate THEN sig \ {t} ELSE sig
    /\ UNCHANGED <<tctx, sleep_threads, thread_active, queues, flags, sched,
                   life, work, posters, main, bounds>>

\* sigwait returns: either a context was assigned meanwhile or look again.
SigWake(t) ==
    /\ tpc[t] = "sigwait"
    /\ t \in sig
    /\ sig' = sig \ {t}
    /\ thread_active' = thread_active + 1
    /\ \/ /\ tctx[t] = None
          /\ sleep_threads' = Unlink(sleep_threads, t)
          /\ Goto(t, "loop")
       \/ /\ tctx[t] # None
          /\ Goto(t, "ctx")
          /\ UNCHANGED sleep_threads
    /\ UNCHANGED <<tctx, queues, flags, sched, life, work, posters, main,
                   bounds>>

\* Mutant: the pending flag is not looked at again.
MustRerun_NotAgain(c) == FALSE

MustRerun(c) == pending[c] /\ ~need_free[c]

\* The callbacks are done: run again if work came in, else let the context go.
Leave(t) ==
    LET c == tctx[t] IN
    /\ tpc[t] = "leave"
    /\ \/ /\ MustRerun(c)
          /\ Goto(t, "ctx")
          /\ UNCHANGED cthread
       \/ /\ ~MustRerun(c)
          /\ Goto(t, IF need_free[c] THEN "dropfree" ELSE "drop")
          /\ cthread' = [cthread EXCEPT ![c] = None]
    /\ UNCHANGED <<tctx, pool, queues, flags, asleep, wakeup, life, work,
                   posters, main, bounds>>

\* After the lock: release an unregistered context, then forget it.
Drop(t) ==
    /\ \/ /\ tpc[t] = "drop"
          /\ UNCHANGED refs
       \/ /\ tpc[t] = "dropfree"
          /\ refs' = [refs EXCEPT ![tctx[t]] = @ - 1]
    /\ Goto(t, "loop")
    /\ tctx' = [tctx EXCEPT ![t] = None]
    /\ UNCHANGED <<pool, queues, flags, sched, ctx_list, init, need_free,
                   work, posters, main, bounds>>

-----------------------------------------------------------------------------
(***************************************************************************)
(* ctx_thread: run the pending work of a context, then its close callback. *)
(***************************************************************************)
First(s) == CHOOSE x \in s : \A y \in s : x[1] <= y[1]

RunCall(t) ==
    LET c == tctx[t] IN
    /\ tpc[t] = "ctx"
    /\ calls[c] # {}
    /\ calls' = [calls EXCEPT ![c] = @ \ {First(@)}]
    /\ callback' = [callback EXCEPT ![c] = "call"]
    /\ Goto(t, "handler")
    /\ UNCHANGED <<tctx, pool, queues, flags, sched, life, pending,
                   need_close, priority, posters, main, bounds>>

WorkDone(t) ==
    LET c == tctx[t] IN
    /\ tpc[t] = "ctx"
    /\ calls[c] = {}
    /\ pending' = [pending EXCEPT ![c] = FALSE]
    /\ Goto(t, "preclose")
    /\ UNCHANGED <<tctx, pool, queues, flags, sched, life, need_close,
                   priority, calls, callback, posters, main, bounds>>

CheckClose(t) ==
    LET c == tctx[t] IN
    /\ tpc[t] = "preclose"
    /\ \/ /\ need_close[c] /\ ~need_free[c]
          /\ callback' = [callback EXCEPT ![c] = "close"]
          /\ Goto(t, "handler")
       \/ /\ ~need_close[c] \/ need_free[c]
          /\ Goto(t, "leave")
          /\ UNCHANGED callback
    /\ UNCHANGED <<tctx, pool, queues, flags, sched, life, pending,
                   need_close, priority, calls, posters, main, bounds>>

\* A callback returns; the close callback may be bound to unregister first.
HandlerReturn(t) ==
    LET c == tctx[t] IN
    /\ tpc[t] = "handler"
    /\ \/ /\ callback[c] = "call"
          /\ Goto(t, "ctx")
          /\ UNCHANGED need_close
       \/ /\ callback[c] = "close"
          /\ c \in CloseUnregisters => need_free[c]
          /\ need_close' = [need_close EXCEPT ![c] = FALSE]
          /\ Goto(t, "leave")
    /\ callback' = [callback EXCEPT ![c] = "none"]
    /\ UNCHANGED <<tctx, pool, queues, flags, sched, life, pending, priority,
                   calls, posters, main, bounds>>

-----------------------------------------------------------------------------
(***************************************************************************)
(* What a callback may do to its own context.                              *)
(***************************************************************************)
\* triton_context_schedule: a wakeup that came first is consumed at once.
Schedule(t) ==
    LET c == tctx[t] IN
    /\ tpc[t] = "handler"
    /\ c \in Sleepers
    /\ ~need_free[c]
    /\ \/ /\ wakeup[c]
          /\ asleep' = [asleep EXCEPT ![c] = FALSE]
          /\ wakeup' = [wakeup EXCEPT ![c] = FALSE]
          /\ UNCHANGED <<tpc, tctx>>
       \/ /\ ~wakeup[c]
          /\ asleep' = [asleep EXCEPT ![c] = TRUE]
          /\ Goto(t, "loop")
          /\ tctx' = [tctx EXCEPT ![t] = None]
          /\ UNCHANGED wakeup
    /\ UNCHANGED <<pool, queues, flags, cthread, life, work, posters, main,
                   bounds>>

\* The other end of triton_context_schedule, after setcontext.
Resume(t) ==
    LET c == tctx[t] IN
    /\ tpc[t] = "resume"
    /\ asleep' = [asleep EXCEPT ![c] = FALSE]
    /\ wakeup' = [wakeup EXCEPT ![c] = FALSE]
    /\ Goto(t, "handler")
    /\ UNCHANGED <<tctx, pool, queues, flags, cthread, life, work, posters,
                   main, bounds>>

\* Mutant: off by one at CTX_PRIO_MAX.
ValidPrio_OffByOne(p) == p >= 0 /\ p <= PrioMax

ValidPrio(p) == p >= 0 /\ p < PrioMax

\* triton_context_set_priority; an invalid priority is ignored.
SetPriority(t) ==
    /\ tpc[t] = "handler"
    /\ ~need_free[tctx[t]]
    /\ \E p \in {q \in -1 .. PrioMax : ValidPrio(q)} :
            priority' = [priority EXCEPT ![tctx[t]] = p]
    /\ UNCHANGED <<tpc, tctx, pool, queues, flags, sched, life, pending,
                   need_close, calls, callback, posters, main, bounds>>

\* triton_context_unregister, in a callback of the context itself.
UnregisterBegin(t) ==
    /\ tpc[t] = "handler"
    /\ tctx[t] # Default
    /\ ~need_free[tctx[t]]
    /\ Goto(t, "drain")
    /\ UNCHANGED <<tctx, pool, queues, flags, sched, life, work, posters,
                   main, bounds>>

\* pending_calls is emptied without ctx->lock: posts may come in between.
UnregisterDrain(t) ==
    LET c == tctx[t] IN
    /\ tpc[t] = "drain"
    /\ \/ /\ calls[c] # {}
          /\ calls' = [calls EXCEPT ![c] = @ \ {First(@)}]
          /\ UNCHANGED <<tpc, need_free>>
       \/ /\ calls[c] = {}
          /\ need_free' = [need_free EXCEPT ![c] = TRUE]
          /\ Goto(t, "unlink")
          /\ UNCHANGED calls
    /\ UNCHANGED <<tctx, pool, queues, flags, sched, ctx_list, init, refs,
                   pending, need_close, priority, callback, posters, main,
                   bounds>>

LastUnregister(s) == Cardinality(s) = 1 /\ need_terminate

\* Under ctx_list_lock: the last context but one lets the workers exit.
UnregisterUnlink(t) ==
    /\ tpc[t] = "unlink"
    /\ mpc # "closing"
    /\ ctx_list' = ctx_list \ {tctx[t]}
    /\ terminate' = (terminate \/ LastUnregister(ctx_list \ {tctx[t]}))
    /\ Goto(t, "unregsig")
    /\ UNCHANGED <<tctx, pool, queues, need_config_reload, need_terminate,
                   sched, init, need_free, refs, work, posters, main, bounds>>

UnregisterSignal(t) ==
    /\ tpc[t] = "unregsig"
    /\ sig' = IF terminate THEN sig \cup AllThreads ELSE sig
    /\ Goto(t, "handler")
    /\ UNCHANGED <<tctx, sleep_threads, thread_active, queues, flags, sched,
                   life, work, posters, main, bounds>>

\* triton_conf_reload in a callback: that worker is active, so it is deferred.
ConfReload(t) ==
    /\ tpc[t] = "handler"
    /\ "reload" \in Requests /\ ops < MaxOps
    /\ ops' = ops + 1
    /\ need_config_reload' = TRUE
    /\ UNCHANGED <<tpc, tctx, pool, queues, need_terminate, terminate, sched,
                   life, work, posters, main, posted>>

-----------------------------------------------------------------------------
(***************************************************************************)
(* Posting to a context from any thread.  A poster validates the context   *)
(* under ctx_list_lock and holds a reference while it uses it.             *)
(***************************************************************************)
\* Mutant: the context is validated but not referenced.
TakeRef_None(c) == refs

TakeRef(c) == [refs EXCEPT ![c] = @ + 1]

\* triton_context_get_live, for the operation named by the next pc.
GetLive(k, c) ==
    /\ kpc[k] = "idle"
    /\ ops < MaxOps
    /\ mpc # "closing"
    /\ c \in ctx_list /\ ~need_free[c]
    /\ ops' = ops + 1
    /\ refs' = TakeRef(c)
    /\ kctx' = [kctx EXCEPT ![k] = c]
    /\ \E f \in Func : kfunc' = [kfunc EXCEPT ![k] = f]
    /\ \E op \in {"call", "cancel", "wakeup"} : kpc' = [kpc EXCEPT ![k] = op]
    /\ UNCHANGED <<tpc, tctx, pool, queues, flags, sched, ctx_list, init,
                   need_free, work, kick, main, posted>>

\* triton_context_call, the section of ctx->lock.
ContextCall(k) ==
    LET c == kctx[k] IN
    /\ kpc[k] = "call"
    /\ calls' = [calls EXCEPT ![c] = @ \cup {<<posted, kfunc[k]>>}]
    /\ posted' = posted + 1
    /\ QueueCtx(c, init[c])
    /\ kick' = [kick EXCEPT ![k] = QueuedTo(c, init[c])]
    /\ kpc' = [kpc EXCEPT ![k] = "kick"]
    /\ UNCHANGED <<tpc, sig, thread_active, wakeup_list, flags, asleep,
                   wakeup, life, need_close, priority, callback, kctx, kfunc,
                   main, ops>>

\* triton_context_wakeup reads ctx->init before it takes either lock.
WakeupReadInit(k) ==
    /\ kpc[k] = "wakeup"
    /\ kpc' = [kpc EXCEPT ![k] = IF init[kctx[k]] THEN "start" ELSE "awaken"]
    /\ UNCHANGED <<tpc, tctx, pool, queues, flags, sched, life, work, kctx,
                   kfunc, kick, main, bounds>>

\* The first wakeup starts the context: what was posted so far is queued.
WakeupStart(k) ==
    LET c == kctx[k] IN
    /\ kpc[k] = "start"
    /\ init' = [init EXCEPT ![c] = FALSE]
    /\ \/ /\ pending[c]
          /\ QueueCtx(c, FALSE)
          /\ kick' = [kick EXCEPT ![k] = QueuedTo(c, FALSE)]
       \/ /\ ~pending[c]
          /\ UNCHANGED <<pending, ctx_queue, cthread, tctx, sleep_threads,
                         kick>>
    /\ kpc' = [kpc EXCEPT ![k] = "kick"]
    /\ UNCHANGED <<tpc, sig, thread_active, wakeup_list, flags, asleep,
                   wakeup, ctx_list, need_free, refs, need_close, priority,
                   calls, callback, kctx, kfunc, main, bounds>>

\* Mutant: the busy worker is signalled.
WakeTarget_Busy(t) == IF tctx[t] # None THEN t ELSE None

\* A busy worker looks at its list before it sleeps; an idle one is signalled.
WakeTarget(t) == IF tctx[t] = None THEN t ELSE None

\* A later wakeup: only the first one before the resume links the context.
WakeupAsleep(k) ==
    LET c == kctx[k]
        t == cthread[c] IN
    /\ kpc[k] = "awaken"
    /\ wakeup' = [wakeup EXCEPT ![c] = TRUE]
    /\ \/ /\ ~wakeup[c] /\ asleep[c] /\ t # None
          /\ wakeup_list' = [wakeup_list EXCEPT
                                ![t][priority[c]] = Append(@, c)]
          /\ kick' = [kick EXCEPT ![k] = WakeTarget(t)]
       \/ /\ wakeup[c] \/ ~asleep[c] \/ t = None
          /\ UNCHANGED <<wakeup_list, kick>>
    /\ kpc' = [kpc EXCEPT ![k] = "kick"]
    /\ UNCHANGED <<tpc, tctx, pool, ctx_queue, flags, cthread, asleep, life,
                   work, kctx, kfunc, main, bounds>>

\* triton_cancel_call: every pending call of the function is removed.
CancelCall(k) ==
    /\ kpc[k] = "cancel"
    /\ calls' = [calls EXCEPT ![kctx[k]] = {x \in @ : x[2] # kfunc[k]}]
    /\ kpc' = [kpc EXCEPT ![k] = "release"]
    /\ UNCHANGED <<tpc, tctx, pool, queues, flags, sched, life, pending,
                   need_close, priority, callback, kctx, kfunc, kick, main,
                   bounds>>

\* triton_thread_wakeup, outside of every lock.
Kick(k) ==
    /\ kpc[k] = "kick"
    /\ sig' = sig \cup ({kick[k]} \cap AllThreads)
    /\ kick' = [kick EXCEPT ![k] = None]
    /\ kpc' = [kpc EXCEPT ![k] = "release"]
    /\ UNCHANGED <<tpc, tctx, sleep_threads, thread_active, queues, flags,
                   sched, life, work, kctx, kfunc, main, bounds>>

\* triton_context_release of the poster's reference.
Release(k) ==
    /\ kpc[k] = "release"
    /\ refs' = [refs EXCEPT ![kctx[k]] = @ - 1]
    /\ kpc' = [kpc EXCEPT ![k] = "idle"]
    /\ kctx' = [kctx EXCEPT ![k] = None]
    /\ kfunc' = [kfunc EXCEPT ![k] = None]
    /\ UNCHANGED <<tpc, tctx, pool, queues, flags, sched, ctx_list, init,
                   need_free, work, kick, main, bounds>>

\* triton_context_register, in memory that was never used or was freed.
Register(c) ==
    /\ "register" \in Requests /\ ops < MaxOps
    /\ refs[c] = 0
    /\ mpc # "closing"
    /\ ops' = ops + 1
    /\ ctx_list' = ctx_list \cup {c}
    /\ refs' = [refs EXCEPT ![c] = 1]
    /\ init' = [init EXCEPT ![c] = TRUE]
    /\ need_free' = [need_free EXCEPT ![c] = FALSE]
    /\ cthread' = [cthread EXCEPT ![c] = None]
    /\ asleep' = [asleep EXCEPT ![c] = FALSE]
    /\ wakeup' = [wakeup EXCEPT ![c] = FALSE]
    /\ pending' = [pending EXCEPT ![c] = FALSE]
    /\ need_close' = [need_close EXCEPT ![c] = FALSE]
    /\ priority' = [priority EXCEPT ![c] = 1]
    /\ calls' = [calls EXCEPT ![c] = {}]
    /\ callback' = [callback EXCEPT ![c] = "none"]
    /\ UNCHANGED <<tpc, tctx, pool, queues, flags, posters, main, posted>>

-----------------------------------------------------------------------------
(***************************************************************************)
(* The main thread: SIGHUP and the shutdown.                               *)
(***************************************************************************)
\* triton_conf_reload from a thread that is not a worker.
MainReload ==
    /\ mpc = "idle"
    /\ "reload" \in Requests /\ ops < MaxOps
    /\ ops' = ops + 1
    /\ need_config_reload' = TRUE
    /\ mpc' = IF thread_active = 0 THEN "reload" ELSE mpc
    /\ UNCHANGED <<tpc, tctx, pool, queues, need_terminate, terminate, sched,
                   life, work, posters, mtodo, mkick, posted>>

MainReloadDone ==
    /\ mpc = "reload"
    /\ mpc' = "idle"
    /\ need_config_reload' = FALSE
    /\ sig' = sig \cup AllThreads
    /\ UNCHANGED <<tpc, tctx, sleep_threads, thread_active, queues,
                   need_terminate, terminate, sched, life, work, posters,
                   mtodo, mkick, bounds>>

\* triton_terminate: all contexts are asked to close under ctx_list_lock.
Terminate ==
    /\ mpc = "idle"
    /\ "shutdown" \in Requests
    /\ mpc' = "closing"
    /\ mtodo' = ctx_list
    /\ need_terminate' = TRUE
    /\ UNCHANGED <<tpc, tctx, pool, queues, need_config_reload, terminate,
                   sched, life, work, posters, mkick, bounds>>

TerminateClose(c) ==
    /\ mpc = "closing"
    /\ mkick = None
    /\ c \in mtodo
    /\ mtodo' = mtodo \ {c}
    /\ need_close' = [need_close EXCEPT ![c] = TRUE]
    /\ QueueCtx(c, init[c])
    /\ mkick' = QueuedTo(c, init[c])
    /\ UNCHANGED <<tpc, sig, thread_active, wakeup_list, flags, asleep,
                   wakeup, life, priority, calls, callback, posters, mpc,
                   bounds>>

TerminateKick ==
    /\ mpc = "closing"
    /\ mkick # None
    /\ sig' = sig \cup ({mkick} \cap AllThreads)
    /\ mkick' = None
    /\ UNCHANGED <<tpc, tctx, sleep_threads, thread_active, queues, flags,
                   sched, life, work, posters, mpc, mtodo, bounds>>

\* The loop ends; then list_empty(&threads) is polled.
TerminateWait ==
    /\ \/ mpc = "closing" /\ mkick = None /\ mtodo = {} /\ mpc' = "wait"
       \/ mpc = "wait" /\ AllThreads = {} /\ mpc' = "done"
    /\ UNCHANGED <<tpc, tctx, pool, queues, flags, sched, life, work,
                   posters, mtodo, mkick, bounds>>

-----------------------------------------------------------------------------
WorkerStep(t) ==
    \/ Dequeue(t) \/ GoToSleep(t) \/ ReloadDone(t) \/ CheckTerminate(t)
    \/ SigWake(t) \/ Leave(t) \/ Drop(t)
    \/ RunCall(t) \/ WorkDone(t) \/ CheckClose(t) \/ Resume(t)
    \/ UnregisterDrain(t) \/ UnregisterUnlink(t) \/ UnregisterSignal(t)

CallbackStep(t) ==
    \/ HandlerReturn(t) \/ Schedule(t) \/ SetPriority(t) \/ UnregisterBegin(t)
    \/ ConfReload(t)

PosterStep(k) ==
    \/ ContextCall(k) \/ WakeupReadInit(k) \/ WakeupStart(k) \/ WakeupAsleep(k)
    \/ CancelCall(k) \/ Kick(k) \/ Release(k)

MainStep ==
    \/ MainReloadDone \/ TerminateKick \/ TerminateWait
    \/ \E c \in Ctx : TerminateClose(c)

Next ==
    \/ \E t \in Thread : WorkerStep(t) \/ CallbackStep(t)
    \/ \E k \in Poster : PosterStep(k) \/ \E c \in Ctx : GetLive(k, c)
    \/ \E c \in Ctx : Register(c)
    \/ MainReload \/ Terminate \/ MainStep

Spec == Init /\ [][Next]_vars

(***************************************************************************)
(* Workers, posters and main() run on their own threads, so each of their  *)
(* steps is weakly fair; callbacks return.  Nothing obliges anyone to post *)
(* work, to reload or to shut down.                                        *)
(***************************************************************************)
CloseUnregister(t) ==
    /\ UnregisterBegin(t)
    /\ callback[tctx[t]] = "close"
    /\ tctx[t] \in CloseUnregisters

Fairness ==
    /\ \A t \in Thread : /\ WF_vars(WorkerStep(t))
                         /\ WF_vars(HandlerReturn(t))
                         /\ WF_vars(CloseUnregister(t))
    /\ \A k \in Poster : WF_vars(PosterStep(k))
    /\ WF_vars(MainStep)

FairSpec == Spec /\ Fairness

-----------------------------------------------------------------------------
(***************************************************************************)
(* Properties.                                                             *)
(***************************************************************************)
(* Every variable holds what its C declaration allows; in particular a      *)
(* context's priority indexes ctx_queue and wakeup_list.                    *)
TypeOK ==
    /\ tpc \in [Thread -> WorkerPC]
    /\ tctx \in [Thread -> Ctx \cup {None}]
    /\ wakeup_list \in [Thread -> [Prio -> Seq(Ctx)]]
    /\ sig \subseteq Thread
    /\ sleep_threads \in Seq(Thread)
    /\ thread_active \in Int
    /\ ctx_queue \in [Prio -> Seq(Ctx)]
    /\ ctx_list \subseteq Ctx
    /\ need_config_reload \in BOOLEAN
    /\ need_terminate \in BOOLEAN /\ terminate \in BOOLEAN
    /\ cthread \in [Ctx -> Thread \cup {None}]
    /\ asleep \in [Ctx -> BOOLEAN] /\ wakeup \in [Ctx -> BOOLEAN]
    /\ init \in [Ctx -> BOOLEAN]
    /\ need_close \in [Ctx -> BOOLEAN] /\ need_free \in [Ctx -> BOOLEAN]
    /\ refs \in [Ctx -> Int]
    /\ pending \in [Ctx -> BOOLEAN]
    /\ priority \in [Ctx -> Prio]
    /\ calls \in [Ctx -> SUBSET (Nat \X Func)]
    /\ callback \in [Ctx -> {"none", "call", "close"}]
    /\ kpc \in [Poster -> {"idle", "call", "wakeup", "start", "awaken",
                           "cancel", "kick", "release"}]
    /\ kctx \in [Poster -> Ctx \cup {None}]
    /\ kfunc \in [Poster -> Func \cup {None}]
    /\ kick \in [Poster -> Thread \cup {None}]
    /\ mpc \in {"idle", "reload", "closing", "wait", "done"}
    /\ mtodo \subseteq Ctx
    /\ mkick \in Thread \cup {None}
    /\ ops \in Nat /\ posted \in Nat

(* A context is run by at most one worker, and a worker that runs it is the *)
(* one ctx->thread names: callbacks of one context never overlap.           *)
OneWorkerPerContext ==
    \A t \in Thread :
        tpc[t] \in Executing => tctx[t] \in Ctx /\ cthread[tctx[t]] = t

Queue(t, p) == IF t = None THEN ctx_queue[p] ELSE wakeup_list[t][p]

(* The queues stay well formed: a context has one entry2, so it is on at    *)
(* most one of the run queues and wakeup lists, and there only once.        *)
LinkedOnce ==
    \A t, u \in Thread \cup {None}, p, q \in Prio :
        \A i \in DOMAIN Queue(t, p), j \in DOMAIN Queue(u, q) :
            Queue(t, p)[i] = Queue(u, q)[j] => t = u /\ p = q /\ i = j

(* A worker that is about to remove itself from sleep_threads after sigwait *)
(* is on that list (list_del of an unlinked entry would crash).             *)
SleeperIsListed ==
    \A t \in Thread :
        tpc[t] = "sigwait" /\ tctx[t] = None => t \in Elems(sleep_threads)

(* No context is freed while someone can still reach it: a worker that has  *)
(* it in thread->ctx (one in "drop" only clears the pointer), a poster      *)
(* between get_live and release, ctx_list or a queue.                       *)
NoUseAfterFree ==
    \A c \in Ctx :
        \/ \E t \in Thread : tctx[t] = c /\ tpc[t] # "drop"
        \/ \E k \in Poster : kctx[k] = c
        \/ c \in ctx_list
        \/ Linked(c)
        => refs[c] > 0

(* Work that was accepted is never stranded: a started, registered context  *)
(* with pending work or a pending close is queued or has a worker, and the  *)
(* worker that has left its work loop will see the pending flag.            *)
NoStrandedWork ==
    \A c \in Ctx :
        c \in ctx_list /\ ~init[c] /\ ~need_free[c] /\ calls[c] # {} =>
            /\ Linked(c) \/ cthread[c] # None
            /\ \A t \in Thread :
                tctx[t] = c /\ tpc[t] \in {"preclose", "leave"} => pending[c]

(* A close request made by triton_terminate is never lost either.           *)
CloseIsDelivered ==
    \A c \in Ctx :
        need_close[c] /\ ~init[c] /\ ~need_free[c] =>
            Linked(c) \/ cthread[c] # None

Kicked(t) == t \in sig \/ mkick = t \/ \E k \in Poster : kick[k] = t

(* No lost wakeup: an idle worker that was handed a context, or that has a  *)
(* woken context on its list, has a signal on its way.                      *)
NoLostSignal ==
    \A t \in Thread :
        tpc[t] \in {"slept", "sigwait"} =>
            /\ tctx[t] # None => Kicked(t)
            /\ (\E p \in Prio : wakeup_list[t][p] # << >>) =>
                    Kicked(t) \/ need_config_reload \/ terminate

(* Nothing that was asked of the pool is lost between the locks: work and   *)
(* close requests have a queue or a worker, handed contexts a signal, and a *)
(* worker that leaves sigwait finds itself on the list it unlinks from.     *)
NoWorkLost == NoStrandedWork /\ CloseIsDelivered /\ NoLostSignal /\ SleeperIsListed

(* Work conservation: no worker idles, without a signal on its way, while a *)
(* context waits on a run queue, except during a reload or the shutdown.    *)
WorkConserving ==
    (\E p \in Prio : ctx_queue[p] # << >>) /\ ~need_config_reload /\ ~terminate
        => \A t \in Thread : tpc[t] \in {"slept", "sigwait"} => Kicked(t)

(* Everything posted is eventually run or dropped, unless the context was   *)
(* never started, sleeps, or the workers were told to exit.                 *)
PostedWorkIsDone ==
    \A c \in Ctx :
        <>[](calls[c] # {} /\ c \in ctx_list =>
                init[c] \/ terminate \/ (asleep[c] /\ ~wakeup[c]))

(* A suspended context that was woken resumes.                              *)
WokenResumes ==
    \A c \in Ctx : asleep[c] /\ wakeup[c] ~> (~asleep[c] \/ terminate)

(* A reload that was asked for is carried out.                              *)
ReloadHappens == need_config_reload ~> ~need_config_reload

(* Shutdown: if a context other than the default one is still registered    *)
(* when triton_terminate waits, and every such context was started and      *)
(* unregisters itself when closed, all workers exit and it returns, unless  *)
(* a context still sleeps for a wakeup nobody sends.  (With none left there *)
(* is no unregister call to set "terminate".)                               *)
TerminateEnds ==
    /\ mpc = "wait"
    /\ terminate \/ ctx_list # {Default}
    /\ \A c \in ctx_list \ {Default} : ~init[c] /\ c \in CloseUnregisters
    ~> mpc = "done" \/ \E c \in Ctx : asleep[c] /\ ~wakeup[c]

(* What the administrator asks of the pool happens: a reload is carried out *)
(* and a shutdown ends (triton_conf_reload, triton_terminate).              *)
RequestsAreServed == ReloadHappens /\ TerminateEnds
=============================================================================
