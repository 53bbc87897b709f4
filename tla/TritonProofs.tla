---------------------------- MODULE TritonProofs ----------------------------
(***************************************************************************)
(* Machine-checked proofs about the triton scheduler, for any number of    *)
(* workers, contexts, posters, priorities and operations.                  *)
(***************************************************************************)
EXTENDS Triton, FiniteSetTheorems, TLAPS

\* A poster that has begun an operation knows its context and function.
PosterInv ==
    \A k \in Poster :
        /\ kpc[k] = "idle" <=> kctx[k] = None
        /\ kpc[k] \in {"call", "wakeup", "start", "awaken", "cancel"} =>
                kfunc[k] \in Func

-----------------------------------------------------------------------------
(***************************************************************************)
(* Type correctness.                                                       *)
(***************************************************************************)
LEMMA WorkerPCs ==
    /\ "loop" \in WorkerPC /\ "reload" \in WorkerPC /\ "slept" \in WorkerPC
    /\ "sigwait" \in WorkerPC /\ "exited" \in WorkerPC /\ "resume" \in WorkerPC
    /\ "ctx" \in WorkerPC /\ "handler" \in WorkerPC /\ "drain" \in WorkerPC
    /\ "unlink" \in WorkerPC /\ "unregsig" \in WorkerPC
    /\ "preclose" \in WorkerPC /\ "leave" \in WorkerPC
    /\ "drop" \in WorkerPC /\ "dropfree" \in WorkerPC
  BY DEF WorkerPC

LEMMA GotoType ==
    ASSUME tpc \in [Thread -> WorkerPC], NEW t \in Thread, NEW p \in WorkerPC,
           Goto(t, p)
    PROVE  tpc' \in [Thread -> WorkerPC]
  BY DEF Goto

\* What list_del leaves of a list: the same elements without t, in order.
LEMMA UnlinkType ==
    ASSUME NEW s \in Seq(Thread), NEW t
    PROVE  Unlink(s, t) \in Seq(Thread)
<1>1. CASE t \notin Elems(s)
  BY <1>1 DEF Unlink
<1>2. CASE t \in Elems(s)
  <2> DEFINE i == CHOOSE j \in DOMAIN s : s[j] = t
             u == [j \in 1 .. Len(s) - 1 |-> IF j < i THEN s[j] ELSE s[j + 1]]
  <2>1. Len(s) - 1 \in Nat
    BY <1>2 DEF Elems
  <2>2. \A j \in 1 .. Len(s) - 1 : u[j] \in Thread
    OBVIOUS
  <2>3. u \in [1 .. Len(s) - 1 -> Thread]
    BY <2>2
  <2>4. u \in Seq(Thread)
    BY <2>1, <2>3
  <2> QED
    BY <1>2, <2>4 DEF Unlink
<1> QED
  BY <1>1, <1>2

LEMMA QueueCtxType ==
    ASSUME TypeOK, NEW c \in Ctx, NEW ini, QueueCtx(c, ini)
    PROVE  /\ pending' \in [Ctx -> BOOLEAN]
           /\ ctx_queue' \in [Prio -> Seq(Ctx)]
           /\ cthread' \in [Ctx -> Thread \cup {None}]
           /\ tctx' \in [Thread -> Ctx \cup {None}]
           /\ sleep_threads' \in Seq(Thread)
           /\ QueuedTo(c, ini) \in Thread \cup {None}
<1>1. pending' \in [Ctx -> BOOLEAN]
  BY DEF QueueCtx, TypeOK
<1>2. ~NoIdleWorker => /\ Head(sleep_threads) \in Thread
                       /\ Tail(sleep_threads) \in Seq(Thread)
  BY DEF NoIdleWorker, TypeOK
<1>3. QueuedTo(c, ini) \in Thread \cup {None}
  BY <1>2 DEF QueuedTo
<1>4. CASE Settled(c, ini)
  BY <1>1, <1>3, <1>4 DEF QueueCtx, TypeOK
<1>5. CASE ~Settled(c, ini) /\ NoIdleWorker
  <2>1. ctx_queue' = [ctx_queue EXCEPT ![priority[c]] = Append(@, c)]
    BY <1>5 DEF QueueCtx
  <2>2. priority[c] \in Prio /\ ctx_queue \in [Prio -> Seq(Ctx)]
    BY DEF TypeOK
  <2>3. ctx_queue' \in [Prio -> Seq(Ctx)]
    BY <2>1, <2>2
  <2> QED
    BY <1>1, <1>3, <1>5, <2>3 DEF QueueCtx, TypeOK
<1>6. CASE ~Settled(c, ini) /\ ~NoIdleWorker
  <2>1. /\ cthread' = [cthread EXCEPT ![c] = Head(sleep_threads)]
        /\ tctx' = [tctx EXCEPT ![Head(sleep_threads)] = c]
        /\ sleep_threads' = Tail(sleep_threads)
        /\ ctx_queue' = ctx_queue
    BY <1>6 DEF QueueCtx
  <2>2. cthread' \in [Ctx -> Thread \cup {None}]
    BY <1>2, <1>6, <2>1 DEF TypeOK
  <2>3. tctx' \in [Thread -> Ctx \cup {None}]
    BY <2>1 DEF TypeOK
  <2>4. sleep_threads' \in Seq(Thread) /\ ctx_queue' \in [Prio -> Seq(Ctx)]
    BY <1>2, <1>6, <2>1 DEF TypeOK
  <2> QED
    BY <1>1, <1>3, <2>2, <2>3, <2>4
<1> QED
  BY <1>4, <1>5, <1>6

LEMMA DequeueParts ==
    ASSUME TypeOK, NEW t \in Thread, Dequeue(t)
    PROVE  /\ tpc' \in [Thread -> WorkerPC]
           /\ tctx' \in [Thread -> Ctx \cup {None}]
           /\ cthread' \in [Ctx -> Thread \cup {None}]
           /\ wakeup_list' \in [Thread -> [Prio -> Seq(Ctx)]]
           /\ ctx_queue' \in [Prio -> Seq(Ctx)]
<1>1. ASSUME NEW c \in Ctx, Take(t, c)
      PROVE  /\ tpc' \in [Thread -> WorkerPC]
             /\ tctx' \in [Thread -> Ctx \cup {None}]
             /\ cthread' \in [Ctx -> Thread \cup {None}]
  <2>1. tctx' \in [Thread -> Ctx \cup {None}]
    BY <1>1 DEF Take, TypeOK
  <2>2. cthread' \in [Ctx -> Thread \cup {None}]
    BY <1>1 DEF Take, TypeOK
  <2>3. Goto(t, "resume") \/ Goto(t, "ctx")
    BY <1>1 DEF Take
  <2>4. tpc \in [Thread -> WorkerPC]
    BY DEF TypeOK
  <2>5. tpc' \in [Thread -> WorkerPC]
    BY <2>3, <2>4, WorkerPCs, GotoType
  <2> QED
    BY <2>1, <2>2, <2>5
<1>2. PICK p \in Prio :
        \/ /\ wakeup_list[t][p] # << >>
           /\ Take(t, Head(wakeup_list[t][p]))
           /\ wakeup_list' = [wakeup_list EXCEPT ![t][p] = Tail(@)]
           /\ UNCHANGED ctx_queue
        \/ /\ ctx_queue[p] # << >>
           /\ Take(t, Head(ctx_queue[p]))
           /\ ctx_queue' = [ctx_queue EXCEPT ![p] = Tail(@)]
           /\ UNCHANGED wakeup_list
  BY DEF Dequeue, TopPrio, HasWork
<1>3. wakeup_list[t][p] \in Seq(Ctx) /\ ctx_queue[p] \in Seq(Ctx)
  BY DEF TypeOK
<1>4. CASE /\ wakeup_list[t][p] # << >>
           /\ Take(t, Head(wakeup_list[t][p]))
           /\ wakeup_list' = [wakeup_list EXCEPT ![t][p] = Tail(@)]
           /\ UNCHANGED ctx_queue
  <2>1. Head(wakeup_list[t][p]) \in Ctx /\ Tail(wakeup_list[t][p]) \in Seq(Ctx)
    BY <1>3, <1>4
  <2>2. wakeup_list' \in [Thread -> [Prio -> Seq(Ctx)]]
    BY <1>4, <2>1 DEF TypeOK
  <2> QED
    BY <1>1, <1>4, <2>1, <2>2 DEF TypeOK
<1>5. CASE /\ ctx_queue[p] # << >>
           /\ Take(t, Head(ctx_queue[p]))
           /\ ctx_queue' = [ctx_queue EXCEPT ![p] = Tail(@)]
           /\ UNCHANGED wakeup_list
  <2>1. Head(ctx_queue[p]) \in Ctx /\ Tail(ctx_queue[p]) \in Seq(Ctx)
    BY <1>3, <1>5
  <2>2. ctx_queue' \in [Prio -> Seq(Ctx)]
    BY <1>5, <2>1 DEF TypeOK
  <2> QED
    BY <1>1, <1>5, <2>1, <2>2 DEF TypeOK
<1> QED
  BY <1>2, <1>4, <1>5

LEMMA DequeueType ==
    ASSUME TypeOK, PosterInv, NEW t \in Thread, Dequeue(t)
    PROVE  TypeOK'
<1>1. /\ tpc' \in [Thread -> WorkerPC]
      /\ tctx' \in [Thread -> Ctx \cup {None}]
      /\ cthread' \in [Ctx -> Thread \cup {None}]
      /\ wakeup_list' \in [Thread -> [Prio -> Seq(Ctx)]]
      /\ ctx_queue' \in [Prio -> Seq(Ctx)]
  BY DequeueParts
<1> QED
  BY <1>1 DEF TypeOK, Dequeue, pool, flags, life, work, posters, main,
     bounds

LEMMA GoToSleepType ==
    ASSUME TypeOK, PosterInv, NEW t \in Thread, GoToSleep(t)
    PROVE  TypeOK'
<1>1. tpc' \in [Thread -> WorkerPC]
  BY GotoType, WorkerPCs DEF TypeOK, GoToSleep
<1>2. sleep_threads' \in Seq(Thread)
  BY DEF TypeOK, GoToSleep, SleepList
<1>3. thread_active' \in Int
  BY DEF TypeOK, GoToSleep
<1> QED
  BY <1>1, <1>2, <1>3 DEF TypeOK, GoToSleep, queues, flags, sched, life,
     work, posters, main, bounds

LEMMA ReloadDoneType ==
    ASSUME TypeOK, PosterInv, NEW t \in Thread, ReloadDone(t)
    PROVE  TypeOK'
<1>1. tpc' \in [Thread -> WorkerPC]
  BY GotoType, WorkerPCs DEF TypeOK, ReloadDone
<1>2. sig' \subseteq Thread
  BY DEF TypeOK, ReloadDone, AllThreads
<1>3. need_config_reload' \in BOOLEAN
  BY DEF TypeOK, ReloadDone
<1> QED
  BY <1>1, <1>2, <1>3 DEF TypeOK, ReloadDone, queues, sched, life, work,
     posters, main, bounds

LEMMA CheckTerminateType ==
    ASSUME TypeOK, PosterInv, NEW t \in Thread, CheckTerminate(t)
    PROVE  TypeOK'
<1>1. tpc' \in [Thread -> WorkerPC]
  BY GotoType, WorkerPCs DEF TypeOK, CheckTerminate
<1>2. sig' \subseteq Thread
  BY DEF TypeOK, CheckTerminate
<1> QED
  BY <1>1, <1>2 DEF TypeOK, CheckTerminate, queues, flags, sched, life,
     work, posters, main, bounds

LEMMA SigWakeType ==
    ASSUME TypeOK, PosterInv, NEW t \in Thread, SigWake(t)
    PROVE  TypeOK'
<1>1. tpc' \in [Thread -> WorkerPC]
  BY GotoType, WorkerPCs DEF TypeOK, SigWake
<1>2. sig' \subseteq Thread
  BY DEF TypeOK, SigWake
<1>3. sleep_threads' \in Seq(Thread)
  BY UnlinkType DEF TypeOK, SigWake
<1>4. thread_active' \in Int
  BY DEF TypeOK, SigWake
<1> QED
  BY <1>1, <1>2, <1>3, <1>4 DEF TypeOK, SigWake, queues, flags, sched,
     life, work, posters, main, bounds

LEMMA LeaveType ==
    ASSUME TypeOK, PosterInv, NEW t \in Thread, Leave(t)
    PROVE  TypeOK'
<1>1. tpc' \in [Thread -> WorkerPC]
  BY GotoType, WorkerPCs DEF TypeOK, Leave
<1>2. cthread' \in [Ctx -> Thread \cup {None}]
  BY DEF TypeOK, Leave
<1> QED
  BY <1>1, <1>2 DEF TypeOK, Leave, pool, queues, flags, life, work,
     posters, main, bounds

LEMMA DropType ==
    ASSUME TypeOK, PosterInv, NEW t \in Thread, Drop(t)
    PROVE  TypeOK'
<1>1. tpc' \in [Thread -> WorkerPC]
  BY GotoType, WorkerPCs DEF TypeOK, Drop
<1>2. tctx' \in [Thread -> Ctx \cup {None}]
  BY DEF TypeOK, Drop
<1>3. refs' \in [Ctx -> Int]
  BY DEF TypeOK, Drop
<1> QED
  BY <1>1, <1>2, <1>3 DEF TypeOK, Drop, pool, queues, flags, sched, work,
     posters, main, bounds

LEMMA RunCallType ==
    ASSUME TypeOK, PosterInv, NEW t \in Thread, RunCall(t)
    PROVE  TypeOK'
<1>1. tpc' \in [Thread -> WorkerPC]
  BY GotoType, WorkerPCs DEF TypeOK, RunCall
<1>2. calls' \in [Ctx -> SUBSET (Nat \X Func)]
  BY DEF TypeOK, RunCall
<1>3. callback' \in [Ctx -> {"none", "call", "close"}]
  BY DEF TypeOK, RunCall
<1> QED
  BY <1>1, <1>2, <1>3 DEF TypeOK, RunCall, pool, queues, flags, sched,
     life, posters, main, bounds

LEMMA WorkDoneType ==
    ASSUME TypeOK, PosterInv, NEW t \in Thread, WorkDone(t)
    PROVE  TypeOK'
<1>1. tpc' \in [Thread -> WorkerPC]
  BY GotoType, WorkerPCs DEF TypeOK, WorkDone
<1>2. pending' \in [Ctx -> BOOLEAN]
  BY DEF TypeOK, WorkDone
<1> QED
  BY <1>1, <1>2 DEF TypeOK, WorkDone, pool, queues, flags, sched, life,
     posters, main, bounds

LEMMA CheckCloseType ==
    ASSUME TypeOK, PosterInv, NEW t \in Thread, CheckClose(t)
    PROVE  TypeOK'
<1>1. tpc' \in [Thread -> WorkerPC]
  BY GotoType, WorkerPCs DEF TypeOK, CheckClose
<1>2. callback' \in [Ctx -> {"none", "call", "close"}]
  BY DEF TypeOK, CheckClose
<1> QED
  BY <1>1, <1>2 DEF TypeOK, CheckClose, pool, queues, flags, sched, life,
     posters, main, bounds

LEMMA ResumeType ==
    ASSUME TypeOK, PosterInv, NEW t \in Thread, Resume(t)
    PROVE  TypeOK'
<1>1. tpc' \in [Thread -> WorkerPC]
  BY GotoType, WorkerPCs DEF TypeOK, Resume
<1>2. asleep' \in [Ctx -> BOOLEAN]
  BY DEF TypeOK, Resume
<1>3. wakeup' \in [Ctx -> BOOLEAN]
  BY DEF TypeOK, Resume
<1> QED
  BY <1>1, <1>2, <1>3 DEF TypeOK, Resume, pool, queues, flags, life, work,
     posters, main, bounds

LEMMA UnregisterDrainType ==
    ASSUME TypeOK, PosterInv, NEW t \in Thread, UnregisterDrain(t)
    PROVE  TypeOK'
<1>1. tpc' \in [Thread -> WorkerPC]
  BY GotoType, WorkerPCs DEF TypeOK, UnregisterDrain
<1>2. need_free' \in [Ctx -> BOOLEAN]
  BY DEF TypeOK, UnregisterDrain
<1>3. calls' \in [Ctx -> SUBSET (Nat \X Func)]
  <2>1. CASE calls[tctx[t]] = {}
    BY <2>1 DEF TypeOK, UnregisterDrain
  <2>2. CASE calls[tctx[t]] # {}
    <3>1. calls' = [calls EXCEPT ![tctx[t]] =
                        calls[tctx[t]] \ {First(calls[tctx[t]])}]
      BY <2>2 DEF UnregisterDrain
    <3>2. tctx[t] \in Ctx => calls[tctx[t]] \subseteq Nat \X Func
      BY DEF TypeOK
    <3> QED
      BY <3>1, <3>2 DEF TypeOK
  <2> QED
    BY <2>1, <2>2
<1> QED
  BY <1>1, <1>2, <1>3 DEF TypeOK, UnregisterDrain, pool, queues, flags,
     sched, posters, main, bounds

LEMMA UnregisterUnlinkType ==
    ASSUME TypeOK, PosterInv, NEW t \in Thread, UnregisterUnlink(t)
    PROVE  TypeOK'
<1>1. tpc' \in [Thread -> WorkerPC]
  BY GotoType, WorkerPCs DEF TypeOK, UnregisterUnlink
<1>2. ctx_list' \subseteq Ctx
  BY DEF TypeOK, UnregisterUnlink
<1>3. terminate' \in BOOLEAN
  BY DEF TypeOK, UnregisterUnlink
<1> QED
  BY <1>1, <1>2, <1>3 DEF TypeOK, UnregisterUnlink, pool, queues, sched,
     work, posters, main, bounds

LEMMA UnregisterSignalType ==
    ASSUME TypeOK, PosterInv, NEW t \in Thread, UnregisterSignal(t)
    PROVE  TypeOK'
<1>1. tpc' \in [Thread -> WorkerPC]
  BY GotoType, WorkerPCs DEF TypeOK, UnregisterSignal
<1>2. sig' \subseteq Thread
  BY DEF TypeOK, UnregisterSignal, AllThreads
<1> QED
  BY <1>1, <1>2 DEF TypeOK, UnregisterSignal, queues, flags, sched, life,
     work, posters, main, bounds

LEMMA HandlerReturnType ==
    ASSUME TypeOK, PosterInv, NEW t \in Thread, HandlerReturn(t)
    PROVE  TypeOK'
<1>1. tpc' \in [Thread -> WorkerPC]
  BY GotoType, WorkerPCs DEF TypeOK, HandlerReturn
<1>2. need_close' \in [Ctx -> BOOLEAN]
  BY DEF TypeOK, HandlerReturn
<1>3. callback' \in [Ctx -> {"none", "call", "close"}]
  BY DEF TypeOK, HandlerReturn
<1> QED
  BY <1>1, <1>2, <1>3 DEF TypeOK, HandlerReturn, pool, queues, flags,
     sched, life, posters, main, bounds

LEMMA ScheduleType ==
    ASSUME TypeOK, PosterInv, NEW t \in Thread, Schedule(t)
    PROVE  TypeOK'
<1>1. tpc' \in [Thread -> WorkerPC]
  BY GotoType, WorkerPCs DEF TypeOK, Schedule
<1>2. tctx' \in [Thread -> Ctx \cup {None}]
  BY DEF TypeOK, Schedule
<1>3. asleep' \in [Ctx -> BOOLEAN]
  BY DEF TypeOK, Schedule
<1>4. wakeup' \in [Ctx -> BOOLEAN]
  BY DEF TypeOK, Schedule
<1> QED
  BY <1>1, <1>2, <1>3, <1>4 DEF TypeOK, Schedule, pool, queues, flags,
     life, work, posters, main, bounds

LEMMA SetPriorityType ==
    ASSUME TypeOK, PosterInv, NEW t \in Thread, SetPriority(t)
    PROVE  TypeOK'
<1>1. priority' \in [Ctx -> Prio]
  <2>1. PICK p \in -1 .. PrioMax :
            ValidPrio(p) /\ priority' = [priority EXCEPT ![tctx[t]] = p]
    BY DEF SetPriority
  <2>2. p \in Prio
    BY <2>1, ConstantAssumption DEF ValidPrio, Prio
  <2> QED
    BY <2>1, <2>2 DEF TypeOK
<1> QED
  BY <1>1 DEF TypeOK, SetPriority, pool, queues, flags, sched, life,
     posters, main, bounds

LEMMA UnregisterBeginType ==
    ASSUME TypeOK, PosterInv, NEW t \in Thread, UnregisterBegin(t)
    PROVE  TypeOK'
<1>1. tpc' \in [Thread -> WorkerPC]
  BY GotoType, WorkerPCs DEF TypeOK, UnregisterBegin
<1> QED
  BY <1>1 DEF TypeOK, UnregisterBegin, pool, queues, flags, sched, life,
     work, posters, main, bounds

LEMMA ConfReloadType ==
    ASSUME TypeOK, PosterInv, NEW t \in Thread, ConfReload(t)
    PROVE  TypeOK'
<1>1. need_config_reload' \in BOOLEAN
  BY DEF TypeOK, ConfReload
<1>2. ops' \in Nat
  BY DEF TypeOK, ConfReload
<1> QED
  BY <1>1, <1>2 DEF TypeOK, ConfReload, pool, queues, sched, life, work,
     posters, main

LEMMA ContextCallType ==
    ASSUME TypeOK, PosterInv, NEW k \in Poster, ContextCall(k)
    PROVE  TypeOK'
<1>1. kctx[k] \in Ctx /\ QueueCtx(kctx[k], init[kctx[k]])
  BY DEF TypeOK, PosterInv, ContextCall
<1>2. /\ pending' \in [Ctx -> BOOLEAN]
      /\ ctx_queue' \in [Prio -> Seq(Ctx)]
      /\ cthread' \in [Ctx -> Thread \cup {None}]
      /\ tctx' \in [Thread -> Ctx \cup {None}]
      /\ sleep_threads' \in Seq(Thread)
      /\ QueuedTo(kctx[k], init[kctx[k]]) \in Thread \cup {None}
  BY <1>1, QueueCtxType
<1>3. calls' \in [Ctx -> SUBSET (Nat \X Func)]
  BY <1>1, <1>2 DEF TypeOK, PosterInv, ContextCall
<1>4. posted' \in Nat
  BY <1>1, <1>2 DEF TypeOK, PosterInv, ContextCall
<1>5. kick' \in [Poster -> Thread \cup {None}]
  BY <1>1, <1>2 DEF TypeOK, PosterInv, ContextCall
<1>6. kpc' \in [Poster -> {"idle", "call", "wakeup", "start", "awaken",
                           "cancel", "kick", "release"}]
  BY <1>1, <1>2 DEF TypeOK, PosterInv, ContextCall
<1> QED
  BY <1>1, <1>2, <1>3, <1>4, <1>5, <1>6 DEF TypeOK, ContextCall, flags,
     life, main

LEMMA WakeupReadInitType ==
    ASSUME TypeOK, PosterInv, NEW k \in Poster, WakeupReadInit(k)
    PROVE  TypeOK'
<1>1. kpc' \in [Poster -> {"idle", "call", "wakeup", "start", "awaken",
                           "cancel", "kick", "release"}]
  BY DEF TypeOK, WakeupReadInit
<1> QED
  BY <1>1 DEF TypeOK, WakeupReadInit, pool, queues, flags, sched, life,
     work, main, bounds

LEMMA WakeupStartType ==
    ASSUME TypeOK, PosterInv, NEW k \in Poster, WakeupStart(k)
    PROVE  TypeOK'
<1>1. kctx[k] \in Ctx
  BY DEF TypeOK, PosterInv, WakeupStart
<1>2. /\ pending' \in [Ctx -> BOOLEAN]
      /\ ctx_queue' \in [Prio -> Seq(Ctx)]
      /\ cthread' \in [Ctx -> Thread \cup {None}]
      /\ tctx' \in [Thread -> Ctx \cup {None}]
      /\ sleep_threads' \in Seq(Thread)
      /\ kick' \in [Poster -> Thread \cup {None}]
  <2>1. CASE pending[kctx[k]]
    <3>1. /\ QueueCtx(kctx[k], FALSE)
          /\ kick' = [kick EXCEPT ![k] = QueuedTo(kctx[k], FALSE)]
      BY <2>1 DEF WakeupStart
    <3>2. kick \in [Poster -> Thread \cup {None}]
      BY DEF TypeOK
    <3> QED
      BY <1>1, <3>1, <3>2, QueueCtxType
  <2>2. CASE ~pending[kctx[k]]
    BY <2>2 DEF TypeOK, WakeupStart
  <2> QED
    BY <2>1, <2>2
<1>3. init' \in [Ctx -> BOOLEAN]
  BY DEF TypeOK, WakeupStart
<1>4. kpc' \in [Poster -> {"idle", "call", "wakeup", "start", "awaken",
                           "cancel", "kick", "release"}]
  BY DEF TypeOK, WakeupStart
<1> QED
  BY <1>1, <1>2, <1>3, <1>4 DEF TypeOK, WakeupStart, flags, main, bounds

LEMMA WakeupAsleepType ==
    ASSUME TypeOK, PosterInv, NEW k \in Poster, WakeupAsleep(k)
    PROVE  TypeOK'
<1>1. wakeup_list' \in [Thread -> [Prio -> Seq(Ctx)]]
  <2>1. CASE wakeup_list' = wakeup_list
    BY <2>1 DEF TypeOK
  <2>2. CASE wakeup_list' # wakeup_list
    <3> DEFINE c == kctx[k]
               p == priority[c]
               u == cthread[c]
    <3>1. c \in Ctx
      BY DEF TypeOK, PosterInv, WakeupAsleep
    <3>2. u \in Thread /\ p \in Prio
      BY <2>2, <3>1 DEF TypeOK, WakeupAsleep
    <3>3. wakeup_list' = [wakeup_list EXCEPT ![u][p] = Append(@, c)]
      BY <2>2 DEF WakeupAsleep
    <3>4. Append(wakeup_list[u][p], c) \in Seq(Ctx)
      BY <3>1, <3>2 DEF TypeOK
    <3> QED
      BY <3>2, <3>3, <3>4 DEF TypeOK
  <2> QED
    BY <2>1, <2>2
<1>2. wakeup' \in [Ctx -> BOOLEAN]
  BY DEF TypeOK, WakeupAsleep
<1>3. kpc' \in [Poster -> {"idle", "call", "wakeup", "start", "awaken",
                           "cancel", "kick", "release"}]
  BY DEF TypeOK, WakeupAsleep
<1>4. kick' \in [Poster -> Thread \cup {None}]
  <2>1. CASE kick' = kick
    BY <2>1 DEF TypeOK
  <2>2. CASE kick' # kick
    <3>1. kctx[k] \in Ctx
      BY DEF TypeOK, PosterInv, WakeupAsleep
    <3>2. WakeTarget(cthread[kctx[k]]) \in Thread \cup {None}
      BY <3>1 DEF TypeOK, WakeTarget
    <3>3. kick' = [kick EXCEPT ![k] = WakeTarget(cthread[kctx[k]])]
      BY <2>2 DEF WakeupAsleep
    <3> QED
      BY <3>2, <3>3 DEF TypeOK
  <2> QED
    BY <2>1, <2>2
<1> QED
  BY <1>1, <1>2, <1>3, <1>4 DEF TypeOK, WakeupAsleep, pool, flags, life,
     work, main, bounds

LEMMA CancelCallType ==
    ASSUME TypeOK, PosterInv, NEW k \in Poster, CancelCall(k)
    PROVE  TypeOK'
<1>1. calls' \in [Ctx -> SUBSET (Nat \X Func)]
  BY DEF TypeOK, CancelCall
<1>2. kpc' \in [Poster -> {"idle", "call", "wakeup", "start", "awaken",
                           "cancel", "kick", "release"}]
  BY DEF TypeOK, CancelCall
<1> QED
  BY <1>1, <1>2 DEF TypeOK, CancelCall, pool, queues, flags, sched, life,
     main, bounds

LEMMA KickType ==
    ASSUME TypeOK, PosterInv, NEW k \in Poster, Kick(k)
    PROVE  TypeOK'
<1>1. sig' \subseteq Thread
  BY DEF TypeOK, Kick, AllThreads
<1>2. kpc' \in [Poster -> {"idle", "call", "wakeup", "start", "awaken",
                           "cancel", "kick", "release"}]
  BY DEF TypeOK, Kick
<1>3. kick' \in [Poster -> Thread \cup {None}]
  BY DEF TypeOK, Kick
<1> QED
  BY <1>1, <1>2, <1>3 DEF TypeOK, Kick, queues, flags, sched, life, work,
     main, bounds

LEMMA ReleaseType ==
    ASSUME TypeOK, PosterInv, NEW k \in Poster, Release(k)
    PROVE  TypeOK'
<1>1. refs' \in [Ctx -> Int]
  <2>1. refs' = [refs EXCEPT ![kctx[k]] = refs[kctx[k]] - 1]
    BY DEF Release
  <2>2. kctx[k] \in Ctx /\ refs[kctx[k]] \in Int
    BY DEF TypeOK, PosterInv, Release
  <2> QED
    BY <2>1, <2>2 DEF TypeOK
<1>2. kpc' \in [Poster -> {"idle", "call", "wakeup", "start", "awaken",
                           "cancel", "kick", "release"}]
  BY DEF TypeOK, Release
<1>3. kctx' \in [Poster -> Ctx \cup {None}]
  BY DEF TypeOK, Release
<1>4. kfunc' \in [Poster -> Func \cup {None}]
  BY DEF TypeOK, Release
<1> QED
  BY <1>1, <1>2, <1>3, <1>4 DEF TypeOK, Release, pool, queues, flags,
     sched, work, main, bounds

LEMMA GetLiveType ==
    ASSUME TypeOK, PosterInv, NEW k \in Poster, NEW c \in Ctx, GetLive(k, c)
    PROVE  TypeOK'
<1>1. refs' \in [Ctx -> Int]
  BY DEF TypeOK, GetLive, TakeRef
<1>2. kpc' \in [Poster -> {"idle", "call", "wakeup", "start", "awaken",
                           "cancel", "kick", "release"}]
  BY DEF TypeOK, GetLive
<1>3. kctx' \in [Poster -> Ctx \cup {None}]
  BY DEF TypeOK, GetLive
<1>4. kfunc' \in [Poster -> Func \cup {None}]
  BY DEF TypeOK, GetLive
<1>5. ops' \in Nat
  BY DEF TypeOK, GetLive
<1> QED
  BY <1>1, <1>2, <1>3, <1>4, <1>5 DEF TypeOK, GetLive, pool, queues,
     flags, sched, work, main

LEMMA RegisterType ==
    ASSUME TypeOK, PosterInv, NEW c \in Ctx, Register(c)
    PROVE  TypeOK'
<1>1. ctx_list' \subseteq Ctx
  BY DEF TypeOK, Register
<1>2. cthread' \in [Ctx -> Thread \cup {None}]
  BY DEF TypeOK, Register
<1>3. asleep' \in [Ctx -> BOOLEAN]
  BY DEF TypeOK, Register
<1>4. wakeup' \in [Ctx -> BOOLEAN]
  BY DEF TypeOK, Register
<1>5. init' \in [Ctx -> BOOLEAN]
  BY DEF TypeOK, Register
<1>6. need_close' \in [Ctx -> BOOLEAN]
  BY DEF TypeOK, Register
<1>7. need_free' \in [Ctx -> BOOLEAN]
  BY DEF TypeOK, Register
<1>8. refs' \in [Ctx -> Int]
  BY DEF TypeOK, Register
<1>9. pending' \in [Ctx -> BOOLEAN]
  BY DEF TypeOK, Register
<1>10. priority' \in [Ctx -> Prio]
  BY ConstantAssumption DEF TypeOK, Register, Prio
<1>11. calls' \in [Ctx -> SUBSET (Nat \X Func)]
  BY DEF TypeOK, Register
<1>12. callback' \in [Ctx -> {"none", "call", "close"}]
  BY DEF TypeOK, Register
<1>13. ops' \in Nat
  BY DEF TypeOK, Register
<1> QED
  BY <1>1, <1>2, <1>3, <1>4, <1>5, <1>6, <1>7, <1>8, <1>9, <1>10, <1>11,
     <1>12, <1>13 DEF TypeOK, Register, pool, queues, flags, posters, main

LEMMA TerminateCloseType ==
    ASSUME TypeOK, PosterInv, NEW c \in Ctx, TerminateClose(c)
    PROVE  TypeOK'
<1>1. c \in Ctx /\ QueueCtx(c, init[c])
  BY DEF TypeOK, PosterInv, TerminateClose
<1>2. /\ pending' \in [Ctx -> BOOLEAN]
      /\ ctx_queue' \in [Prio -> Seq(Ctx)]
      /\ cthread' \in [Ctx -> Thread \cup {None}]
      /\ tctx' \in [Thread -> Ctx \cup {None}]
      /\ sleep_threads' \in Seq(Thread)
      /\ QueuedTo(c, init[c]) \in Thread \cup {None}
  BY <1>1, QueueCtxType
<1>3. mtodo' \subseteq Ctx
  BY <1>1, <1>2 DEF TypeOK, PosterInv, TerminateClose
<1>4. need_close' \in [Ctx -> BOOLEAN]
  BY <1>1, <1>2 DEF TypeOK, PosterInv, TerminateClose
<1>5. mkick' \in Thread \cup {None}
  BY <1>1, <1>2 DEF TypeOK, PosterInv, TerminateClose
<1> QED
  BY <1>1, <1>2, <1>3, <1>4, <1>5 DEF TypeOK, TerminateClose, flags, life,
     posters, bounds

LEMMA MainReloadType ==
    ASSUME TypeOK, PosterInv, MainReload
    PROVE  TypeOK'
<1>1. need_config_reload' \in BOOLEAN
  BY DEF TypeOK, MainReload
<1>2. mpc' \in {"idle", "reload", "closing", "wait", "done"}
  BY DEF TypeOK, MainReload
<1>3. ops' \in Nat
  BY DEF TypeOK, MainReload
<1> QED
  BY <1>1, <1>2, <1>3 DEF TypeOK, MainReload, pool, queues, sched, life,
     work, posters

LEMMA MainReloadDoneType ==
    ASSUME TypeOK, PosterInv, MainReloadDone
    PROVE  TypeOK'
<1>1. sig' \subseteq Thread
  BY DEF TypeOK, MainReloadDone, AllThreads
<1>2. need_config_reload' \in BOOLEAN
  BY DEF TypeOK, MainReloadDone
<1>3. mpc' \in {"idle", "reload", "closing", "wait", "done"}
  BY DEF TypeOK, MainReloadDone
<1> QED
  BY <1>1, <1>2, <1>3 DEF TypeOK, MainReloadDone, queues, sched, life,
     work, posters, bounds

LEMMA TerminateType ==
    ASSUME TypeOK, PosterInv, Terminate
    PROVE  TypeOK'
<1>1. need_terminate' \in BOOLEAN
  BY DEF TypeOK, Terminate
<1>2. mpc' \in {"idle", "reload", "closing", "wait", "done"}
  BY DEF TypeOK, Terminate
<1>3. mtodo' \subseteq Ctx
  BY DEF TypeOK, Terminate
<1> QED
  BY <1>1, <1>2, <1>3 DEF TypeOK, Terminate, pool, queues, sched, life,
     work, posters, bounds

LEMMA TerminateKickType ==
    ASSUME TypeOK, PosterInv, TerminateKick
    PROVE  TypeOK'
<1>1. sig' \subseteq Thread
  BY DEF TypeOK, TerminateKick, AllThreads
<1>2. mkick' \in Thread \cup {None}
  BY DEF TypeOK, TerminateKick
<1> QED
  BY <1>1, <1>2 DEF TypeOK, TerminateKick, queues, flags, sched, life,
     work, posters, bounds

LEMMA TerminateWaitType ==
    ASSUME TypeOK, PosterInv, TerminateWait
    PROVE  TypeOK'
<1>1. mpc' \in {"idle", "reload", "closing", "wait", "done"}
  BY DEF TypeOK, TerminateWait
<1> QED
  BY <1>1 DEF TypeOK, TerminateWait, pool, queues, flags, sched, life,
     work, posters, bounds

-----------------------------------------------------------------------------
\* Only the poster itself changes what it is doing.
LEMMA PosterFrame ==
    ASSUME PosterInv, UNCHANGED <<kpc, kctx, kfunc>>
    PROVE  PosterInv'
  BY DEF PosterInv

LEMMA PosterStepInv ==
    ASSUME TypeOK, PosterInv, NEW k \in Poster, PosterStep(k)
    PROVE  PosterInv'
<1>1. CASE ContextCall(k)
  BY <1>1 DEF TypeOK, PosterInv, ContextCall
<1>2. CASE WakeupReadInit(k)
  BY <1>2 DEF TypeOK, PosterInv, WakeupReadInit
<1>3. CASE WakeupStart(k)
  BY <1>3 DEF TypeOK, PosterInv, WakeupStart
<1>4. CASE WakeupAsleep(k)
  BY <1>4 DEF TypeOK, PosterInv, WakeupAsleep
<1>5. CASE CancelCall(k)
  BY <1>5 DEF TypeOK, PosterInv, CancelCall
<1>6. CASE Kick(k)
  BY <1>6 DEF TypeOK, PosterInv, Kick
<1>7. CASE Release(k)
  BY <1>7 DEF TypeOK, PosterInv, Release
<1> QED
  BY <1>1, <1>2, <1>3, <1>4, <1>5, <1>6, <1>7 DEF PosterStep

LEMMA GetLiveInv ==
    ASSUME TypeOK, PosterInv, NEW k \in Poster, NEW c \in Ctx, GetLive(k, c)
    PROVE  PosterInv'
<1>1. PICK f \in Func : kfunc' = [kfunc EXCEPT ![k] = f]
  BY DEF GetLive
<1>2. PICK op \in {"call", "cancel", "wakeup"} :
            kpc' = [kpc EXCEPT ![k] = op]
  BY DEF GetLive
<1>3. kctx' = [kctx EXCEPT ![k] = c] /\ c # None
  BY ConstantAssumption DEF GetLive
<1> QED
  BY <1>1, <1>2, <1>3 DEF TypeOK, PosterInv

LEMMA OthersLeavePosters ==
    ASSUME NEW t \in Thread, WorkerStep(t) \/ CallbackStep(t)
    PROVE  UNCHANGED <<kpc, kctx, kfunc>>
  BY DEF WorkerStep, CallbackStep, Dequeue, GoToSleep, ReloadDone,
         CheckTerminate, SigWake, Leave, Drop, RunCall, WorkDone, CheckClose,
         Resume, UnregisterDrain, UnregisterUnlink, UnregisterSignal,
         HandlerReturn, Schedule, SetPriority, UnregisterBegin, ConfReload,
         posters

LEMMA TypeNext ==
    ASSUME TypeOK, PosterInv, Next
    PROVE  TypeOK' /\ PosterInv'
<1>1. ASSUME NEW t \in Thread, WorkerStep(t)
      PROVE  TypeOK'
  BY <1>1, DequeueType, GoToSleepType, ReloadDoneType, CheckTerminateType,
     SigWakeType, LeaveType, DropType, RunCallType, WorkDoneType,
     CheckCloseType, ResumeType, UnregisterDrainType, UnregisterUnlinkType,
     UnregisterSignalType DEF WorkerStep
<1>2. ASSUME NEW t \in Thread, CallbackStep(t)
      PROVE  TypeOK'
  BY <1>2, HandlerReturnType, ScheduleType, SetPriorityType,
     UnregisterBeginType, ConfReloadType DEF CallbackStep
<1>3. ASSUME NEW k \in Poster, PosterStep(k)
      PROVE  TypeOK'
  BY <1>3, ContextCallType, WakeupReadInitType, WakeupStartType,
     WakeupAsleepType, CancelCallType, KickType, ReleaseType DEF PosterStep
<1>4. ASSUME MainStep
      PROVE  TypeOK'
  <2>1. ASSUME NEW c \in Ctx, TerminateClose(c)
        PROVE  TypeOK'
    BY <2>1, TerminateCloseType
  <2>2. CASE MainReloadDone
    BY <2>2, MainReloadDoneType
  <2>3. CASE TerminateKick
    BY <2>3, TerminateKickType
  <2>4. CASE TerminateWait
    BY <2>4, TerminateWaitType
  <2> QED
    BY <1>4, <2>1, <2>2, <2>3, <2>4 DEF MainStep
<1>5. TypeOK'
  BY <1>1, <1>2, <1>3, <1>4, GetLiveType, RegisterType, MainReloadType,
     TerminateType DEF Next
<1>6. ASSUME NEW c \in Ctx, Register(c) \/ TerminateClose(c)
      PROVE  UNCHANGED <<kpc, kctx, kfunc>>
  BY <1>6 DEF Register, TerminateClose, posters
<1>7. ASSUME \/ MainReload \/ Terminate \/ MainReloadDone
             \/ TerminateKick \/ TerminateWait
      PROVE  UNCHANGED <<kpc, kctx, kfunc>>
  BY <1>7 DEF MainReload, Terminate, MainReloadDone, TerminateKick,
     TerminateWait, posters
<1>8. PosterInv'
  BY <1>6, <1>7, PosterStepInv, GetLiveInv, OthersLeavePosters, PosterFrame
     DEF Next, MainStep
<1> QED
  BY <1>5, <1>8

LEMMA TypeInit ==
    ASSUME Init
    PROVE  TypeOK /\ PosterInv
<1>1. PosterInv
  BY DEF Init, PosterInv
<1>2. tpc \in [Thread -> WorkerPC]
  BY WorkerPCs DEF Init
<1>3. /\ priority \in [Ctx -> Prio]
      /\ wakeup_list \in [Thread -> [Prio -> Seq(Ctx)]]
      /\ ctx_queue \in [Prio -> Seq(Ctx)]
  BY ConstantAssumption DEF Init, Prio
<1>4. thread_active \in Int
  BY ConstantAssumption, FS_CardinalityType DEF Init
<1>5. /\ ctx_list \subseteq Ctx
      /\ refs \in [Ctx -> Int]
  BY ConstantAssumption DEF Init
<1>6. /\ calls \in [Ctx -> SUBSET (Nat \X Func)]
      /\ callback \in [Ctx -> {"none", "call", "close"}]
      /\ tctx \in [Thread -> Ctx \cup {None}]
      /\ sleep_threads \in Seq(Thread)
      /\ cthread \in [Ctx -> Thread \cup {None}]
  BY DEF Init
<1>7. /\ kpc \in [Poster -> {"idle", "call", "wakeup", "start", "awaken",
                           "cancel", "kick", "release"}]
      /\ kctx \in [Poster -> Ctx \cup {None}]
      /\ kfunc \in [Poster -> Func \cup {None}]
      /\ kick \in [Poster -> Thread \cup {None}]
  BY DEF Init
<1>8. /\ asleep \in [Ctx -> BOOLEAN] /\ wakeup \in [Ctx -> BOOLEAN]
      /\ init \in [Ctx -> BOOLEAN]
      /\ need_close \in [Ctx -> BOOLEAN] /\ need_free \in [Ctx -> BOOLEAN]
      /\ pending \in [Ctx -> BOOLEAN]
  BY DEF Init
<1>9. /\ sig \subseteq Thread
      /\ need_config_reload \in BOOLEAN
      /\ need_terminate \in BOOLEAN /\ terminate \in BOOLEAN
      /\ mpc \in {"idle", "reload", "closing", "wait", "done"}
      /\ mtodo \subseteq Ctx
      /\ mkick \in Thread \cup {None}
      /\ ops \in Nat /\ posted \in Nat
  BY DEF Init
<1> QED
  BY <1>1, <1>2, <1>3, <1>4, <1>5, <1>6, <1>7, <1>8, <1>9 DEF TypeOK

(* Every value stays within its declared type, whatever the pool, the       *)
(* contexts and the posters are; ctx->priority always indexes the queues.   *)
THEOREM TypeCorrect == Spec => []TypeOK
<1>1. Init => TypeOK /\ PosterInv
  BY TypeInit
<1>2. TypeOK /\ PosterInv /\ [Next]_vars => TypeOK' /\ PosterInv'
  <2>1. TypeOK /\ PosterInv /\ UNCHANGED vars => TypeOK' /\ PosterInv'
    BY DEF TypeOK, PosterInv, vars, pool, queues, flags, sched, life, work,
           posters, main, bounds
  <2> QED
    BY <2>1, TypeNext
<1> QED
  BY <1>1, <1>2, PTL DEF Spec

-----------------------------------------------------------------------------
(***************************************************************************)
(* The inductive invariant of the scheduler, and the safety properties     *)
(* that follow from it.                                                    *)
(***************************************************************************)
\* A worker serves the context in thread->ctx from the moment it is given it
\* until it lets it go.
Serving(t) == tctx[t] # None /\ tpc[t] \notin {"drop", "dropfree"}

PcInv ==
    \A t \in Thread :
        /\ tpc[t] \in Executing \cup {"drop", "dropfree"} => tctx[t] # None
        /\ tpc[t] = "loop" => tctx[t] = None

\* ctx->thread names the server; only a context about to resume is asleep.
ServeInv ==
    \A t \in Thread :
        Serving(t) =>
            /\ cthread[tctx[t]] = t
            /\ asleep[tctx[t]] <=> tpc[t] = "resume"
            /\ tpc[t] = "resume" => wakeup[tctx[t]]

\* How far the unregistration of a context has got at each place.
FreeInv ==
    \A t \in Thread :
        /\ tpc[t] = "dropfree" => /\ cthread[tctx[t]] = None
                                  /\ need_free[tctx[t]]
                                  /\ tctx[t] \notin ctx_list
        /\ tpc[t] = "unlink" => need_free[tctx[t]] /\ tctx[t] \in ctx_list
        /\ tpc[t] = "drain" => ~need_free[tctx[t]]
        /\ tpc[t] \in Executing \ {"unlink"} /\ need_free[tctx[t]] =>
                tctx[t] \notin ctx_list
        /\ Serving(t) /\ tpc[t] \notin Executing => ~need_free[tctx[t]]

\* At most one worker drops the registration's reference of a context.
OneDrop ==
    \A t, u \in Thread :
        tpc[t] = "dropfree" /\ tpc[u] = "dropfree" /\ tctx[t] = tctx[u]
            => t = u

Idle == {"reload", "slept", "sigwait", "exited"}

Distinct(s) == \A i, j \in 1 .. Len(s) : s[i] = s[j] => i = j

\* The workers on sleep_threads are idle and have no context yet.
SleepInv ==
    \A t \in Thread :
        t \in Elems(sleep_threads) => tpc[t] \in Idle /\ tctx[t] = None

SleepOnce == Distinct(sleep_threads)

\* Membership and uniqueness in an array of queues, one per priority.
InSome(f, c) == \E p \in Prio : c \in Elems(f[p])

OnceIn(f) ==
    \A p, q \in Prio : \A i \in 1 .. Len(f[p]), j \in 1 .. Len(f[q]) :
        f[p][i] = f[q][j] => p = q /\ i = j

OnQueue(c) == InSome(ctx_queue, c)

OnWake(t, c) == InSome(wakeup_list[t], c)

\* A context on a run queue is live and has no worker.
QueueInv ==
    \A c \in Ctx :
        OnQueue(c) => /\ cthread[c] = None
                      /\ ~need_free[c]
                      /\ c \in ctx_list

QueueOnce == OnceIn(ctx_queue)

\* A context on a wakeup list sleeps and belongs to that worker.
WakeInv ==
    \A t \in Thread, c \in Ctx :
        OnWake(t, c) => /\ cthread[c] = t
                        /\ asleep[c] /\ wakeup[c]
                        /\ Serving(t) => tctx[t] # c

WakeOnce == \A t \in Thread : OnceIn(wakeup_list[t])

\* A context that has a worker is registered, or that worker will free it.
CtxInv ==
    \A c \in Ctx :
        /\ asleep[c] => cthread[c] # None /\ ~need_free[c]
        /\ cthread[c] # None /\ c \notin ctx_list =>
            /\ need_free[c]
            /\ tctx[cthread[c]] = c
            /\ tpc[cthread[c]] \in Executing

\* A context that a poster holds is registered until need_free is set.
HolderInv ==
    \A k \in Poster :
        kctx[k] # None /\ ~need_free[kctx[k]] => kctx[k] \in ctx_list

MainInv == mpc = "closing" => mtodo \subseteq ctx_list

\* The reference count is exact: one per poster that holds the context, and
\* one for its registration until the worker that runs it drops it.
Holders(c) == {k \in Poster : kctx[k] = c}

Doomed(c) ==
    \E t \in Thread :
        /\ tctx[t] = c
        /\ \/ tpc[t] = "dropfree"
           \/ tpc[t] \in Executing /\ need_free[c]

Owed(c) == c \in ctx_list \/ Doomed(c)

RefInv ==
    \A c \in Ctx :
        refs[c] = Cardinality(Holders(c)) + (IF Owed(c) THEN 1 ELSE 0)

WorkerInv == PcInv /\ ServeInv /\ FreeInv /\ OneDrop

ListInv == /\ SleepInv /\ SleepOnce /\ QueueInv /\ QueueOnce
           /\ WakeInv /\ WakeOnce

SInv == WorkerInv /\ ListInv /\ CtxInv /\ HolderInv /\ MainInv /\ RefInv

IInv == TypeOK /\ PosterInv /\ SInv

-----------------------------------------------------------------------------
\* The part of TypeOK that the proofs below use.
CoreType ==
    /\ tpc \in [Thread -> WorkerPC]
    /\ tctx \in [Thread -> Ctx \cup {None}]
    /\ wakeup_list \in [Thread -> [Prio -> Seq(Ctx)]]
    /\ sleep_threads \in Seq(Thread)
    /\ ctx_queue \in [Prio -> Seq(Ctx)]
    /\ ctx_list \subseteq Ctx
    /\ cthread \in [Ctx -> Thread \cup {None}]
    /\ asleep \in [Ctx -> BOOLEAN] /\ wakeup \in [Ctx -> BOOLEAN]
    /\ need_free \in [Ctx -> BOOLEAN]
    /\ refs \in [Ctx -> Int]
    /\ kctx \in [Poster -> Ctx \cup {None}]
    /\ priority \in [Ctx -> Prio]

LEMMA CoreTyped == ASSUME TypeOK PROVE CoreType
  BY DEF TypeOK, CoreType

LEMMA NoneIsNeither == None \notin Thread /\ None \notin Ctx
  BY ConstantAssumption

\* Steps that leave the queues and the wakeup lists alone.
LEMMA QueueFrame ==
    ASSUME SInv, UNCHANGED <<ctx_queue, wakeup_list>>
    PROVE  /\ \A c : OnQueue(c)' <=> OnQueue(c)
           /\ \A t, c : OnWake(t, c)' <=> OnWake(t, c)
           /\ QueueOnce' /\ WakeOnce'
  BY DEF OnQueue, OnWake, SInv, ListInv, QueueOnce, WakeOnce

LEMMA SleepFrame ==
    ASSUME SInv, UNCHANGED sleep_threads
    PROVE  /\ Elems(sleep_threads') = Elems(sleep_threads)
           /\ SleepOnce'
  BY DEF SInv, ListInv, SleepOnce

\* Who holds and who owes a reference decides the counter.
LEMMA RefFrame ==
    ASSUME RefInv, UNCHANGED <<refs, kctx>>,
           \A c \in Ctx : Owed(c)' <=> Owed(c)
    PROVE  RefInv'
<1>1. \A c : Holders(c)' = Holders(c)
  BY DEF Holders
<1> QED
  BY <1>1 DEF RefInv

-----------------------------------------------------------------------------
\* A worker goes from one place of ctx_thread or of a callback to another.
Mid == Executing \ {"resume", "unlink"}

LEMMA Walk ==
    ASSUME CoreType, SInv, NEW t \in Thread, NEW pc \in Mid,
           tpc[t] \in Mid, tpc' = [tpc EXCEPT ![t] = pc],
           pc = "drain" => ~need_free[tctx[t]],
           UNCHANGED <<tctx, sleep_threads, ctx_queue, wakeup_list, cthread,
                       asleep, wakeup, need_free, ctx_list, refs, kctx, mpc,
                       mtodo>>
    PROVE  SInv'
<1> USE DEF CoreType
<1>1. \A u \in Thread : Serving(u)' <=> Serving(u)
  BY DEF Serving, Mid, Executing
<1>2. PcInv'
  BY DEF SInv, WorkerInv, PcInv, Executing, Mid
<1>3. ServeInv'
  BY <1>1 DEF SInv, WorkerInv, ServeInv, Mid, Executing
<1>4. FreeInv'
  BY <1>1 DEF SInv, WorkerInv, FreeInv, Executing, Mid
<1>5. OneDrop'
  BY DEF SInv, WorkerInv, OneDrop, Mid, Executing
<1>6. SleepInv'
  BY SleepFrame DEF SInv, ListInv, SleepInv, Idle, Mid, Executing
<1>7. QueueInv'
  BY QueueFrame DEF SInv, ListInv, QueueInv
<1>8. WakeInv'
  BY <1>1, QueueFrame DEF SInv, ListInv, WakeInv, Mid, Executing
<1>9. CtxInv'
  BY DEF SInv, CtxInv, Executing, Mid
<1>10. (SleepOnce /\ QueueOnce /\ WakeOnce)'
  BY SleepFrame, QueueFrame
<1>11. (HolderInv /\ MainInv)'
  BY DEF SInv, HolderInv, MainInv
<1>12. RefInv'
  <2>1. \A d \in Ctx : Owed(d)' <=> Owed(d)
    BY DEF Owed, Doomed, Executing, Mid
  <2> QED
    BY <2>1, RefFrame DEF SInv
<1> QED
  BY <1>2, <1>3, <1>4, <1>5, <1>6, <1>7, <1>8, <1>9, <1>10, <1>11, <1>12
     DEF SInv, WorkerInv, ListInv

\* Steps that change nothing the invariant speaks of but main's own state.
LEMMA Frame ==
    ASSUME SInv, MainInv',
           UNCHANGED <<tpc, tctx, sleep_threads, ctx_queue, wakeup_list,
                       cthread, asleep, wakeup, need_free, ctx_list, refs,
                       kctx>>
    PROVE  SInv'
<1>1. \A u \in Thread : Serving(u)' <=> Serving(u)
  BY DEF Serving
<1>2. PcInv'
  BY DEF SInv, WorkerInv, PcInv, Executing
<1>3. ServeInv'
  BY <1>1 DEF SInv, WorkerInv, ServeInv
<1>4. FreeInv'
  BY <1>1 DEF SInv, WorkerInv, FreeInv, Executing
<1>5. OneDrop'
  BY DEF SInv, WorkerInv, OneDrop
<1>6. SleepInv'
  BY SleepFrame DEF SInv, ListInv, SleepInv, Idle
<1>7. QueueInv'
  BY QueueFrame DEF SInv, ListInv, QueueInv
<1>8. WakeInv'
  BY <1>1, QueueFrame DEF SInv, ListInv, WakeInv
<1>9. CtxInv'
  BY DEF SInv, CtxInv, Executing
<1>10. (SleepOnce /\ QueueOnce /\ WakeOnce)'
  BY SleepFrame, QueueFrame
<1>11. (HolderInv /\ MainInv)'
  BY DEF SInv, HolderInv
<1>12. RefInv'
  <2>1. \A d \in Ctx : Owed(d)' <=> Owed(d)
    BY DEF Owed, Doomed, Executing
  <2> QED
    BY <2>1, RefFrame DEF SInv
<1> QED
  BY <1>2, <1>3, <1>4, <1>5, <1>6, <1>7, <1>8, <1>9, <1>10, <1>11, <1>12
     DEF SInv, WorkerInv, ListInv

\* An idle worker gets from one place before sigwait to another.
LEMMA IdleMove ==
    ASSUME CoreType, SInv, NEW t \in Thread, NEW pc \in Idle,
           tpc[t] \in Idle, tpc' = [tpc EXCEPT ![t] = pc],
           UNCHANGED <<tctx, sleep_threads, ctx_queue, wakeup_list, cthread,
                       asleep, wakeup, need_free, ctx_list, refs, kctx, mpc,
                       mtodo>>
    PROVE  SInv'
<1> USE DEF CoreType
<1>1. \A u \in Thread : Serving(u)' <=> Serving(u)
  BY DEF Serving, Idle
<1>2. PcInv'
  BY DEF SInv, WorkerInv, PcInv, Executing, Idle
<1>3. ServeInv'
  BY <1>1 DEF SInv, WorkerInv, ServeInv, Idle
<1>4. FreeInv'
  BY <1>1 DEF SInv, WorkerInv, FreeInv, Executing, Idle
<1>5. OneDrop'
  BY DEF SInv, WorkerInv, OneDrop, Idle
<1>6. SleepInv'
  BY SleepFrame DEF SInv, ListInv, SleepInv, Idle
<1>7. QueueInv'
  BY QueueFrame DEF SInv, ListInv, QueueInv
<1>8. WakeInv'
  BY <1>1, QueueFrame DEF SInv, ListInv, WakeInv, Idle
<1>9. CtxInv'
  BY DEF SInv, CtxInv, Executing, Idle
<1>10. (SleepOnce /\ QueueOnce /\ WakeOnce)'
  BY SleepFrame, QueueFrame
<1>11. (HolderInv /\ MainInv)'
  BY DEF SInv, HolderInv, MainInv
<1>12. RefInv'
  <2>1. \A d \in Ctx : Owed(d)' <=> Owed(d)
    BY DEF Owed, Doomed, Executing, Idle
  <2> QED
    BY <2>1, RefFrame DEF SInv
<1> QED
  BY <1>2, <1>3, <1>4, <1>5, <1>6, <1>7, <1>8, <1>9, <1>10, <1>11, <1>12
     DEF SInv, WorkerInv, ListInv

\* list_del: what is left are the other elements, each once.
LEMMA UnlinkFacts ==
    ASSUME NEW s \in Seq(Thread), NEW t \in Thread, Distinct(s)
    PROVE  Elems(Unlink(s, t)) = Elems(s) \ {t} /\ Distinct(Unlink(s, t))
<1>1. CASE t \notin Elems(s)
  BY <1>1 DEF Unlink
<1>2. CASE t \in Elems(s)
  <2> DEFINE k == CHOOSE j \in DOMAIN s : s[j] = t
             u == [j \in 1 .. Len(s) - 1 |-> IF j < k THEN s[j] ELSE s[j + 1]]
  <2>1. k \in 1 .. Len(s) /\ s[k] = t
    BY <1>2 DEF Elems
  <2>2. Unlink(s, t) = u
    BY <1>2 DEF Unlink
  <2> HIDE DEF k
  <2>3. Len(s) - 1 \in Nat /\ Len(u) = Len(s) - 1 /\ DOMAIN u = 1 .. Len(u)
    BY <2>1
  <2>4. \A i \in 1 .. Len(u) :
            /\ u[i] = s[IF i < k THEN i ELSE i + 1]
            /\ (IF i < k THEN i ELSE i + 1) \in 1 .. Len(s)
            /\ (IF i < k THEN i ELSE i + 1) # k
    BY <2>1, <2>3
  <2>5. /\ \A j \in 1 .. Len(s) : j < k => j \in 1 .. Len(u) /\ u[j] = s[j]
        /\ \A j \in 1 .. Len(s) :
                j > k => j - 1 \in 1 .. Len(u) /\ u[j - 1] = s[j]
    BY <2>1, <2>3
  <2> HIDE DEF u
  <2>6. \A i, j \in 1 .. Len(u) : u[i] = u[j] => i = j
    BY <2>1, <2>3, <2>4 DEF Distinct
  <2>7. \A i \in 1 .. Len(u) : u[i] \in Elems(s) /\ u[i] # t
    <3>1. ASSUME NEW i \in 1 .. Len(u), NEW m \in 1 .. Len(s), m # k,
                 u[i] = s[m]
          PROVE  u[i] \in Elems(s) /\ u[i] # t
      BY <2>1, <3>1 DEF Distinct, Elems
    <3> QED
      BY <2>4, <3>1
  <2>8. ASSUME NEW x \in Elems(s), x # t
        PROVE  x \in Elems(u)
    <3>1. PICK j \in 1 .. Len(s) : s[j] = x
      BY DEF Elems
    <3>2. j < k \/ j > k
      BY <2>1, <2>8, <3>1
    <3>3. PICK i \in 1 .. Len(u) : u[i] = x
      BY <2>5, <3>1, <3>2
    <3> QED
      BY <2>3, <3>3 DEF Elems
  <2>9. Elems(u) = Elems(s) \ {t}
    BY <2>1, <2>3, <2>7, <2>8 DEF Elems
  <2> QED
    BY <2>2, <2>6, <2>9 DEF Distinct
<1> QED
  BY <1>1, <1>2

LEMMA SigWakeSafe ==
    ASSUME CoreType, SInv, NEW t \in Thread, SigWake(t)
    PROVE  SInv'
<1> USE DEF CoreType
<1>0. /\ tpc[t] = "sigwait"
      /\ UNCHANGED <<tctx, ctx_queue, wakeup_list, cthread, asleep, wakeup,
                     need_free, ctx_list, refs, kctx, mpc, mtodo>>
  BY DEF SigWake, queues, sched, life, posters, main
<1>1. CASE /\ tctx[t] = None /\ tpc' = [tpc EXCEPT ![t] = "loop"]
           /\ sleep_threads' = Unlink(sleep_threads, t)
  <2>1. \A u \in Thread : Serving(u)' <=> Serving(u)
    BY <1>0, <1>1 DEF Serving
  <2>2. Elems(sleep_threads') = Elems(sleep_threads) \ {t} /\ SleepOnce'
    BY <1>1, UnlinkFacts DEF SInv, ListInv, SleepOnce
  <2>3. PcInv'
    BY <1>0, <1>1 DEF SInv, WorkerInv, PcInv, Executing
  <2>4. ServeInv'
    BY <1>0, <1>1, <2>1 DEF SInv, WorkerInv, ServeInv
  <2>5. FreeInv'
    BY <1>0, <1>1, <2>1 DEF SInv, WorkerInv, FreeInv, Executing, Serving
  <2>6. OneDrop'
    BY <1>0, <1>1 DEF SInv, WorkerInv, OneDrop
  <2>7. SleepInv'
    BY <1>0, <1>1, <2>2 DEF SInv, ListInv, SleepInv, Idle
  <2>8. QueueInv'
    BY <1>0, <1>1, QueueFrame DEF SInv, ListInv, QueueInv
  <2>9. WakeInv'
    BY <1>0, <1>1, <2>1, QueueFrame DEF SInv, ListInv, WakeInv
  <2>10. CtxInv'
    BY <1>0, <1>1 DEF SInv, CtxInv, Executing
  <2>11. (SleepOnce /\ QueueOnce /\ WakeOnce)'
    BY <1>0, <2>2, QueueFrame
  <2>12. (HolderInv /\ MainInv)'
    BY <1>0, <1>1 DEF SInv, HolderInv, MainInv
  <2>13. RefInv'
    <3>1. \A d \in Ctx : Owed(d)' <=> Owed(d)
      BY <1>0, <1>1 DEF Owed, Doomed, Executing
    <3> QED
      BY <1>0, <1>1, <3>1, RefFrame DEF SInv
  <2> QED
    BY <2>3, <2>4, <2>5, <2>6, <2>7, <2>8, <2>9, <2>10, <2>11, <2>12, <2>13
       DEF SInv, WorkerInv, ListInv
<1>2. CASE /\ tctx[t] # None /\ tpc' = [tpc EXCEPT ![t] = "ctx"]
           /\ UNCHANGED sleep_threads
  <2>1. /\ \A u \in Thread : Serving(u)' <=> Serving(u)
        /\ Serving(t) /\ ~need_free[tctx[t]]
    BY <1>0, <1>2 DEF Serving, SInv, WorkerInv, FreeInv, Executing
  <2>2. PcInv'
    BY <1>0, <1>2 DEF SInv, WorkerInv, PcInv, Executing
  <2>3. ServeInv'
    BY <1>0, <1>2, <2>1 DEF SInv, WorkerInv, ServeInv
  <2>4. FreeInv'
    BY <1>0, <1>2, <2>1 DEF SInv, WorkerInv, FreeInv, Executing
  <2>5. OneDrop'
    BY <1>0, <1>2 DEF SInv, WorkerInv, OneDrop
  <2>6. SleepInv'
    BY <1>0, <1>2, SleepFrame DEF SInv, ListInv, SleepInv, Idle
  <2>7. QueueInv'
    BY <1>0, <1>2, QueueFrame DEF SInv, ListInv, QueueInv
  <2>8. WakeInv'
    BY <1>0, <1>2, <2>1, QueueFrame DEF SInv, ListInv, WakeInv
  <2>9. CtxInv'
    BY <1>0, <1>2 DEF SInv, CtxInv, Executing
  <2>10. (SleepOnce /\ QueueOnce /\ WakeOnce)'
    BY <1>0, <1>2, SleepFrame, QueueFrame
  <2>11. (HolderInv /\ MainInv)'
    BY <1>0, <1>2 DEF SInv, HolderInv, MainInv
  <2>12. RefInv'
    <3>1. \A d \in Ctx : Owed(d)' <=> Owed(d)
      BY <1>0, <1>2, <2>1 DEF Owed, Doomed, Executing
    <3> QED
      BY <1>0, <1>2, <3>1, RefFrame DEF SInv
  <2> QED
    BY <2>2, <2>3, <2>4, <2>5, <2>6, <2>7, <2>8, <2>9, <2>10, <2>11, <2>12
       DEF SInv, WorkerInv, ListInv
<1> QED
  BY <1>1, <1>2 DEF SigWake, Goto

LEMMA PrependFacts ==
    ASSUME NEW s \in Seq(Thread), NEW t \in Thread, Distinct(s),
           t \notin Elems(s)
    PROVE  Elems(<<t>> \o s) = Elems(s) \cup {t} /\ Distinct(<<t>> \o s)
<1> DEFINE u == <<t>> \o s
<1>1. /\ Len(u) = Len(s) + 1
      /\ DOMAIN u = 1 .. Len(u) /\ DOMAIN s = 1 .. Len(s)
      /\ u[1] = t /\ 1 \in DOMAIN u
      /\ \A i \in DOMAIN u : i # 1 => i - 1 \in DOMAIN s /\ u[i] = s[i - 1]
      /\ \A i \in DOMAIN s : i + 1 \in DOMAIN u /\ u[i + 1] = s[i]
  OBVIOUS
<1> HIDE DEF u
<1>2. \A x : x \in Elems(u) <=> x \in Elems(s) \cup {t}
  <2>1. ASSUME NEW x \in Elems(u)
        PROVE  x \in Elems(s) \cup {t}
    <3>1. PICK i \in DOMAIN u : x = u[i]
      BY DEF Elems
    <3> QED
      BY <1>1, <3>1 DEF Elems
  <2>2. ASSUME NEW x \in Elems(s)
        PROVE  x \in Elems(u)
    <3>1. PICK i \in DOMAIN s : x = s[i]
      BY DEF Elems
    <3>2. i + 1 \in DOMAIN u /\ u[i + 1] = x
      BY <1>1, <3>1
    <3> QED
      BY <3>2 DEF Elems
  <2>3. t \in Elems(u)
    BY <1>1 DEF Elems
  <2> QED
    BY <2>1, <2>2, <2>3
<1>3. ASSUME NEW i \in 1 .. Len(u), NEW j \in 1 .. Len(u), u[i] = u[j]
      PROVE  i = j
  <2>1. \A m \in DOMAIN u : m # 1 => u[m] # t
    BY <1>1 DEF Elems
  <2>2. CASE i = 1 \/ j = 1
    BY <1>1, <1>3, <2>1, <2>2
  <2>3. CASE i # 1 /\ j # 1
    <3>1. i - 1 \in 1 .. Len(s) /\ j - 1 \in 1 .. Len(s) /\ s[i - 1] = s[j - 1]
      BY <1>1, <1>3, <2>3
    <3>2. i - 1 = j - 1
      BY <3>1 DEF Distinct
    <3> QED
      BY <3>2
  <2> QED
    BY <2>2, <2>3
<1> QED
  BY <1>2, <1>3 DEF Distinct, u

LEMMA GoToSleepSafe ==
    ASSUME CoreType, SInv, NEW t \in Thread, GoToSleep(t)
    PROVE  SInv'
<1> USE DEF CoreType
<1>1. PICK pc \in {"reload", "slept"} :
        /\ tpc[t] = "loop" /\ tctx[t] = None
        /\ tpc' = [tpc EXCEPT ![t] = pc]
        /\ UNCHANGED <<tctx, ctx_queue, wakeup_list, cthread, asleep, wakeup,
                       need_free, ctx_list, refs, kctx, mpc, mtodo>>
  BY DEF GoToSleep, Goto, queues, sched, life, posters, main, SInv, WorkerInv,
         PcInv
<1>2. \A u \in Thread : Serving(u)' <=> Serving(u)
  BY <1>1 DEF Serving
<1>3. /\ Elems(sleep_threads') \subseteq Elems(sleep_threads) \cup {t}
      /\ SleepOnce'
  <2>1. t \notin Elems(sleep_threads)
    BY <1>1 DEF SInv, ListInv, SleepInv, Idle
  <2>2. CASE sleep_threads' = sleep_threads
    BY <2>2 DEF SInv, ListInv, SleepOnce
  <2>3. CASE sleep_threads' = <<t>> \o sleep_threads
    BY <2>1, <2>3, PrependFacts DEF SInv, ListInv, SleepOnce
  <2> QED
    BY <2>2, <2>3 DEF GoToSleep, SleepList
<1>4. PcInv'
  BY <1>1 DEF SInv, WorkerInv, PcInv, Executing
<1>5. ServeInv'
  BY <1>1, <1>2 DEF SInv, WorkerInv, ServeInv
<1>6. FreeInv'
  BY <1>1, <1>2 DEF SInv, WorkerInv, FreeInv, Executing, Serving
<1>7. OneDrop'
  BY <1>1 DEF SInv, WorkerInv, OneDrop
<1>8. SleepInv'
  BY <1>1, <1>3 DEF SInv, ListInv, SleepInv, Idle
<1>9. QueueInv'
  BY <1>1, QueueFrame DEF SInv, ListInv, QueueInv
<1>10. WakeInv'
  BY <1>1, <1>2, QueueFrame DEF SInv, ListInv, WakeInv
<1>11. CtxInv'
  BY <1>1 DEF SInv, CtxInv, Executing
<1>12. (SleepOnce /\ QueueOnce /\ WakeOnce)'
  BY <1>1, <1>3, QueueFrame
<1>13. (HolderInv /\ MainInv)'
  BY <1>1 DEF SInv, HolderInv, MainInv
<1>14. RefInv'
  <2>1. \A d \in Ctx : Owed(d)' <=> Owed(d)
    BY <1>1 DEF Owed, Doomed, Executing
  <2> QED
    BY <1>1, <2>1, RefFrame DEF SInv
<1> QED
  BY <1>4, <1>5, <1>6, <1>7, <1>8, <1>9, <1>10, <1>11, <1>12, <1>13, <1>14
     DEF SInv, WorkerInv, ListInv

\* No two workers serve one context.
LEMMA OneServer ==
    ASSUME SInv, NEW t \in Thread, NEW u \in Thread, Serving(t), Serving(u),
           tctx[t] = tctx[u]
    PROVE  t = u
  BY DEF SInv, WorkerInv, ServeInv

\* What a worker inside triton_thread knows of its context.
LEMMA Runner ==
    ASSUME CoreType, SInv, NEW t \in Thread, tpc[t] \in Executing
    PROVE  /\ tctx[t] \in Ctx /\ Serving(t) /\ cthread[tctx[t]] = t
           /\ asleep[tctx[t]] <=> tpc[t] = "resume"
<1>1. tctx[t] \in Ctx /\ Serving(t)
  BY DEF CoreType, SInv, WorkerInv, PcInv, Executing, Serving
<1> QED
  BY <1>1 DEF SInv, WorkerInv, ServeInv

LEMMA LeaveSafe ==
    ASSUME CoreType, SInv, NEW t \in Thread, Leave(t)
    PROVE  SInv'
<1> USE DEF CoreType
<1>0. PICK c \in Ctx :
        /\ tpc[t] = "leave" /\ c = tctx[t] /\ Serving(t)
        /\ UNCHANGED <<tctx, sleep_threads, ctx_queue, wakeup_list, asleep,
                       wakeup, need_free, ctx_list, refs, kctx, mpc, mtodo>>
  BY DEF Leave, pool, queues, life, posters, main, SInv, WorkerInv, PcInv,
         Executing, Serving
<1>1. CASE tpc' = [tpc EXCEPT ![t] = "ctx"] /\ UNCHANGED cthread
  BY <1>0, <1>1, Walk DEF Mid, Executing
<1>2. CASE /\ tpc' = [tpc EXCEPT ![t] = IF need_free[c] THEN "dropfree"
                                                       ELSE "drop"]
           /\ cthread' = [cthread EXCEPT ![c] = None]
  <2>1. /\ \A u \in Thread : Serving(u)' <=> Serving(u) /\ u # t
        /\ \A u \in Thread : Serving(u) /\ u # t => tctx[u] # c
        /\ cthread[c] = t /\ ~asleep[c]
        /\ need_free[c] => c \notin ctx_list
    BY <1>0, <1>2, OneServer
       DEF Serving, SInv, WorkerInv, ServeInv, FreeInv, Executing
  <2>2. PcInv'
    BY <1>0, <1>2 DEF SInv, WorkerInv, PcInv, Executing
  <2>3. ServeInv'
    BY <1>0, <1>2, <2>1 DEF SInv, WorkerInv, ServeInv
  <2>4. FreeInv'
    BY <1>0, <1>2, <2>1 DEF SInv, WorkerInv, FreeInv, Executing
  <2>5. OneDrop'
    BY <1>0, <1>2, <2>1, NoneIsNeither DEF SInv, WorkerInv, OneDrop, FreeInv
  <2>6. SleepInv'
    BY <1>0, <1>2, SleepFrame DEF SInv, ListInv, SleepInv, Idle
  <2>7. QueueInv'
    BY <1>0, <1>2, QueueFrame DEF SInv, ListInv, QueueInv
  <2>8. WakeInv'
    BY <1>0, <1>2, <2>1, QueueFrame DEF SInv, ListInv, WakeInv
  <2>9. CtxInv'
    BY <1>0, <1>2, <2>1 DEF SInv, CtxInv, Executing
  <2>10. (SleepOnce /\ QueueOnce /\ WakeOnce)'
    BY <1>0, <1>2, SleepFrame, QueueFrame
  <2>11. (HolderInv /\ MainInv)'
    BY <1>0, <1>2 DEF SInv, HolderInv, MainInv
  <2>12. RefInv'
    <3>1. \A d \in Ctx : Owed(d)' <=> Owed(d)
      BY <1>0, <1>2 DEF Owed, Doomed, Executing
    <3> QED
      BY <1>0, <1>2, <3>1, RefFrame DEF SInv
  <2> QED
    BY <2>2, <2>3, <2>4, <2>5, <2>6, <2>7, <2>8, <2>9, <2>10, <2>11, <2>12
       DEF SInv, WorkerInv, ListInv
<1> QED
  BY <1>0, <1>1, <1>2 DEF Leave, Goto

LEMMA HoldersFinite ==
    \A c : IsFiniteSet(Holders(c)) /\ Cardinality(Holders(c)) \in Nat
  BY ConstantAssumption, FS_Subset, FS_CardinalityType DEF Holders

LEMMA DropSafe ==
    ASSUME CoreType, SInv, NEW t \in Thread, Drop(t)
    PROVE  SInv'
<1> USE DEF CoreType
<1>1. PICK c \in Ctx :
        /\ tpc[t] \in {"drop", "dropfree"} /\ c = tctx[t]
        /\ tpc' = [tpc EXCEPT ![t] = "loop"]
        /\ tctx' = [tctx EXCEPT ![t] = None]
        /\ UNCHANGED <<sleep_threads, ctx_queue, wakeup_list, cthread, asleep,
                       wakeup, need_free, ctx_list, kctx, mpc, mtodo>>
  BY DEF Drop, Goto, pool, queues, sched, posters, main, SInv, WorkerInv,
         PcInv
<1>2. \A u \in Thread : Serving(u)' <=> Serving(u)
  BY <1>1 DEF Serving
<1>3. \A d \in Ctx : d # c \/ tpc[t] = "drop" => (Owed(d)' <=> Owed(d))
  BY <1>1, NoneIsNeither DEF Owed, Doomed, Executing
<1>4. PcInv'
  BY <1>1 DEF SInv, WorkerInv, PcInv, Executing
<1>5. ServeInv'
  BY <1>1, <1>2 DEF SInv, WorkerInv, ServeInv, Serving
<1>6. FreeInv'
  BY <1>1, <1>2 DEF SInv, WorkerInv, FreeInv, Executing, Serving
<1>7. OneDrop'
  BY <1>1 DEF SInv, WorkerInv, OneDrop
<1>8. SleepInv'
  BY <1>1, SleepFrame DEF SInv, ListInv, SleepInv, Idle
<1>9. QueueInv'
  BY <1>1, QueueFrame DEF SInv, ListInv, QueueInv
<1>10. WakeInv'
  BY <1>1, <1>2, QueueFrame DEF SInv, ListInv, WakeInv, Serving
<1>11. CtxInv'
  BY <1>1 DEF SInv, CtxInv, Executing
<1>12. (SleepOnce /\ QueueOnce /\ WakeOnce)'
  BY <1>1, SleepFrame, QueueFrame
<1>13. (HolderInv /\ MainInv)'
  BY <1>1 DEF SInv, HolderInv, MainInv
<1>14. RefInv'
  <2>1. CASE tpc[t] = "drop"
    BY <1>1, <1>3, <2>1, RefFrame DEF SInv, Drop
  <2>2. CASE tpc[t] = "dropfree"
    <3>1. Owed(c)
      BY <1>1, <2>2 DEF Owed, Doomed
    <3>2. ~Owed(c)'
      <4>1. cthread[c] = None /\ c \notin ctx_list
        BY <1>1, <2>2 DEF SInv, WorkerInv, FreeInv
      <4>2. ASSUME NEW u \in Thread, tctx'[u] = c, tpc'[u] \in Executing
            PROVE  FALSE
        <5>1. u # t /\ tctx[u] = c /\ tpc[u] \in Executing
          BY <1>1, <4>2, NoneIsNeither DEF Executing
        <5>2. Serving(u)
          BY <1>1, <5>1, NoneIsNeither DEF Serving, Executing
        <5> QED
          BY <4>1, <5>1, <5>2, NoneIsNeither DEF SInv, WorkerInv, ServeInv
      <4>3. ASSUME NEW u \in Thread, tctx'[u] = c, tpc'[u] = "dropfree"
            PROVE  FALSE
        <5>1. u # t /\ tctx[u] = c /\ tpc[u] = "dropfree"
          BY <1>1, <4>3, NoneIsNeither
        <5> QED
          BY <1>1, <2>2, <5>1 DEF SInv, WorkerInv, OneDrop
      <4> QED
        BY <1>1, <4>1, <4>2, <4>3 DEF Owed, Doomed
    <3>3. refs' = [refs EXCEPT ![c] = refs[c] - 1]
      BY <1>1, <2>2 DEF Drop
    <3>4. \A d : Holders(d)' = Holders(d)
      BY <1>1 DEF Holders
    <3>5. ASSUME NEW d \in Ctx
          PROVE  refs'[d] = Cardinality(Holders(d)')
                                + (IF Owed(d)' THEN 1 ELSE 0)
      <4>1. refs[d] = Cardinality(Holders(d)) + (IF Owed(d) THEN 1 ELSE 0)
        BY DEF SInv, RefInv
      <4>2. CASE d = c
        BY <3>1, <3>2, <3>3, <3>4, <4>1, <4>2, HoldersFinite
      <4>3. CASE d # c
        BY <1>3, <3>3, <3>4, <4>1, <4>3
      <4> QED
        BY <4>2, <4>3
    <3> QED
      BY <3>5 DEF RefInv
  <2> QED
    BY <1>1, <2>1, <2>2
<1> QED
  BY <1>4, <1>5, <1>6, <1>7, <1>8, <1>9, <1>10, <1>11, <1>12, <1>13, <1>14
     DEF SInv, WorkerInv, ListInv

\* triton_context_schedule: consume the wakeup, or go to sleep.
LEMMA ScheduleSafe ==
    ASSUME CoreType, SInv, NEW t \in Thread, Schedule(t)
    PROVE  SInv'
<1> USE DEF CoreType
<1>0. PICK c \in Ctx :
        /\ tpc[t] = "handler" /\ c = tctx[t] /\ Serving(t) /\ ~need_free[c]
        /\ cthread[c] = t /\ ~asleep[c]
        /\ UNCHANGED <<sleep_threads, ctx_queue, wakeup_list, cthread,
                       need_free, ctx_list, refs, kctx, mpc, mtodo>>
  BY Runner DEF Schedule, pool, queues, life, posters, main, Executing
<1>1. CASE /\ asleep' = [asleep EXCEPT ![c] = FALSE]
           /\ wakeup' = [wakeup EXCEPT ![c] = FALSE]
           /\ UNCHANGED <<tpc, tctx>>
  <2>1. \A u \in Thread : Serving(u)' <=> Serving(u)
    BY <1>0, <1>1 DEF Serving
  <2>2. PcInv'
    BY <1>0, <1>1 DEF SInv, WorkerInv, PcInv, Executing
  <2>3. ServeInv'
    BY <1>0, <1>1, <2>1 DEF SInv, WorkerInv, ServeInv
  <2>4. FreeInv'
    BY <1>0, <1>1, <2>1 DEF SInv, WorkerInv, FreeInv, Executing
  <2>5. OneDrop'
    BY <1>0, <1>1 DEF SInv, WorkerInv, OneDrop
  <2>6. SleepInv'
    BY <1>0, <1>1, SleepFrame DEF SInv, ListInv, SleepInv, Idle
  <2>7. QueueInv'
    BY <1>0, <1>1, QueueFrame DEF SInv, ListInv, QueueInv
  <2>8. WakeInv'
    BY <1>0, <1>1, <2>1, QueueFrame DEF SInv, ListInv, WakeInv
  <2>9. CtxInv'
    BY <1>0, <1>1 DEF SInv, CtxInv, Executing
  <2>10. (SleepOnce /\ QueueOnce /\ WakeOnce)'
    BY <1>0, <1>1, SleepFrame, QueueFrame
  <2>11. (HolderInv /\ MainInv)'
    BY <1>0, <1>1 DEF SInv, HolderInv, MainInv
  <2>12. RefInv'
    <3>1. \A d \in Ctx : Owed(d)' <=> Owed(d)
      BY <1>0, <1>1 DEF Owed, Doomed, Executing
    <3> QED
      BY <1>0, <1>1, <3>1, RefFrame DEF SInv
  <2> QED
    BY <2>2, <2>3, <2>4, <2>5, <2>6, <2>7, <2>8, <2>9, <2>10, <2>11, <2>12
       DEF SInv, WorkerInv, ListInv
<1>2. CASE /\ ~wakeup[c]
           /\ asleep' = [asleep EXCEPT ![c] = TRUE]
           /\ tpc' = [tpc EXCEPT ![t] = "loop"]
           /\ tctx' = [tctx EXCEPT ![t] = None]
           /\ UNCHANGED wakeup
  <2>1. /\ \A u \in Thread : Serving(u)' <=> Serving(u) /\ u # t
        /\ \A u \in Thread : Serving(u) /\ u # t => tctx[u] # c
        /\ c \in ctx_list
    BY <1>0, <1>2, OneServer, NoneIsNeither DEF Serving, SInv, CtxInv
  <2>2. PcInv'
    BY <1>0, <1>2 DEF SInv, WorkerInv, PcInv, Executing
  <2>3. ServeInv'
    BY <1>0, <1>2, <2>1 DEF SInv, WorkerInv, ServeInv
  <2>4. FreeInv'
    BY <1>0, <1>2, <2>1 DEF SInv, WorkerInv, FreeInv, Executing, Serving
  <2>5. OneDrop'
    BY <1>0, <1>2 DEF SInv, WorkerInv, OneDrop
  <2>6. SleepInv'
    BY <1>0, <1>2, SleepFrame DEF SInv, ListInv, SleepInv, Idle
  <2>7. QueueInv'
    BY <1>0, <1>2, QueueFrame DEF SInv, ListInv, QueueInv
  <2>8. WakeInv'
    BY <1>0, <1>2, <2>1, QueueFrame DEF SInv, ListInv, WakeInv
  <2>9. CtxInv'
    BY <1>0, <1>2, <2>1, NoneIsNeither DEF SInv, CtxInv, Executing
  <2>10. (SleepOnce /\ QueueOnce /\ WakeOnce)'
    BY <1>0, <1>2, SleepFrame, QueueFrame
  <2>11. (HolderInv /\ MainInv)'
    BY <1>0, <1>2 DEF SInv, HolderInv, MainInv
  <2>12. RefInv'
    <3>1. \A d \in Ctx : Owed(d)' <=> Owed(d)
      BY <1>0, <1>2, <2>1, NoneIsNeither DEF Owed, Doomed, Executing
    <3> QED
      BY <1>0, <1>2, <3>1, RefFrame DEF SInv
  <2> QED
    BY <2>2, <2>3, <2>4, <2>5, <2>6, <2>7, <2>8, <2>9, <2>10, <2>11, <2>12
       DEF SInv, WorkerInv, ListInv
<1> QED
  BY <1>0, <1>1, <1>2 DEF Schedule, Goto

LEMMA ResumeSafe ==
    ASSUME CoreType, SInv, NEW t \in Thread, Resume(t)
    PROVE  SInv'
<1> USE DEF CoreType
<1>1. PICK c \in Ctx :
        /\ tpc[t] = "resume" /\ c = tctx[t] /\ Serving(t)
        /\ cthread[c] = t /\ ~need_free[c]
        /\ tpc' = [tpc EXCEPT ![t] = "handler"]
        /\ asleep' = [asleep EXCEPT ![c] = FALSE]
        /\ wakeup' = [wakeup EXCEPT ![c] = FALSE]
        /\ UNCHANGED <<tctx, sleep_threads, ctx_queue, wakeup_list, cthread,
                       need_free, ctx_list, refs, kctx, mpc, mtodo>>
  BY Runner DEF Resume, Goto, pool, queues, life, posters, main, SInv, CtxInv,
     Executing
<1>2. /\ \A u \in Thread : Serving(u)' <=> Serving(u)
      /\ \A u \in Thread : Serving(u) /\ u # t => tctx[u] # c
  BY <1>1, OneServer DEF Serving
<1>3. PcInv'
  BY <1>1 DEF SInv, WorkerInv, PcInv, Executing
<1>4. ServeInv'
  BY <1>1, <1>2 DEF SInv, WorkerInv, ServeInv
<1>5. FreeInv'
  BY <1>1, <1>2 DEF SInv, WorkerInv, FreeInv, Executing
<1>6. OneDrop'
  BY <1>1 DEF SInv, WorkerInv, OneDrop
<1>7. SleepInv'
  BY <1>1, SleepFrame DEF SInv, ListInv, SleepInv, Idle
<1>8. QueueInv'
  BY <1>1, QueueFrame DEF SInv, ListInv, QueueInv
<1>9. WakeInv'
  BY <1>1, <1>2, QueueFrame DEF SInv, ListInv, WakeInv
<1>10. CtxInv'
  BY <1>1 DEF SInv, CtxInv, Executing
<1>11. (SleepOnce /\ QueueOnce /\ WakeOnce)'
  BY <1>1, SleepFrame, QueueFrame
<1>12. (HolderInv /\ MainInv)'
  BY <1>1 DEF SInv, HolderInv, MainInv
<1>13. RefInv'
  <2>1. \A d \in Ctx : Owed(d)' <=> Owed(d)
    BY <1>1 DEF Owed, Doomed, Executing
  <2> QED
    BY <1>1, <2>1, RefFrame DEF SInv
<1> QED
  BY <1>3, <1>4, <1>5, <1>6, <1>7, <1>8, <1>9, <1>10, <1>11, <1>12, <1>13
     DEF SInv, WorkerInv, ListInv

\* The unregistration: pending_calls is emptied, then need_free is set.
LEMMA DrainSafe ==
    ASSUME CoreType, SInv, NEW t \in Thread, UnregisterDrain(t)
    PROVE  SInv'
<1> USE DEF CoreType
<1>0. PICK c \in Ctx :
        /\ tpc[t] = "drain" /\ c = tctx[t] /\ Serving(t)
        /\ cthread[c] = t /\ ~asleep[c] /\ ~need_free[c]
        /\ UNCHANGED <<tctx, sleep_threads, ctx_queue, wakeup_list, cthread,
                       asleep, wakeup, ctx_list, refs, kctx, mpc, mtodo>>
  BY DEF UnregisterDrain, pool, queues, sched, posters, main, SInv,
         WorkerInv, PcInv, ServeInv, FreeInv, Executing, Serving
<1>1. CASE UNCHANGED <<tpc, need_free>>
  <2>1. MainInv'
    BY <1>0 DEF SInv, MainInv
  <2> QED
    BY <1>0, <1>1, <2>1, Frame
<1>2. CASE /\ need_free' = [need_free EXCEPT ![c] = TRUE]
           /\ tpc' = [tpc EXCEPT ![t] = "unlink"]
  <2>1. /\ \A u \in Thread : Serving(u)' <=> Serving(u)
        /\ \A u \in Thread : Serving(u) /\ u # t => tctx[u] # c
        /\ c \in ctx_list
    BY <1>0, <1>2, OneServer, NoneIsNeither DEF Serving, SInv, CtxInv
  <2>2. PcInv'
    BY <1>0, <1>2 DEF SInv, WorkerInv, PcInv, Executing
  <2>3. ServeInv'
    BY <1>0, <1>2, <2>1 DEF SInv, WorkerInv, ServeInv
  <2>4. FreeInv'
    BY <1>0, <1>2, <2>1, NoneIsNeither DEF SInv, WorkerInv, FreeInv,
       Executing, Serving, PcInv
  <2>5. OneDrop'
    BY <1>0, <1>2 DEF SInv, WorkerInv, OneDrop
  <2>6. SleepInv'
    BY <1>0, <1>2, SleepFrame DEF SInv, ListInv, SleepInv, Idle
  <2>7. QueueInv'
    BY <1>0, <1>2, QueueFrame, NoneIsNeither DEF SInv, ListInv, QueueInv
  <2>8. WakeInv'
    BY <1>0, <1>2, <2>1, QueueFrame DEF SInv, ListInv, WakeInv
  <2>9. CtxInv'
    BY <1>0, <1>2, <2>1 DEF SInv, CtxInv, Executing
  <2>10. (SleepOnce /\ QueueOnce /\ WakeOnce)'
    BY <1>0, <1>2, SleepFrame, QueueFrame
  <2>11. (HolderInv /\ MainInv)'
    BY <1>0, <1>2 DEF SInv, HolderInv, MainInv
  <2>12. RefInv'
    <3>1. \A d \in Ctx : Owed(d)' <=> Owed(d)
      BY <1>0, <1>2, <2>1 DEF Owed, Doomed, Executing
    <3> QED
      BY <1>0, <1>2, <3>1, RefFrame DEF SInv
  <2> QED
    BY <2>2, <2>3, <2>4, <2>5, <2>6, <2>7, <2>8, <2>9, <2>10, <2>11, <2>12
       DEF SInv, WorkerInv, ListInv
<1> QED
  BY <1>0, <1>1, <1>2 DEF UnregisterDrain, Goto

LEMMA UnlinkSafe ==
    ASSUME CoreType, SInv, NEW t \in Thread, UnregisterUnlink(t)
    PROVE  SInv'
<1> USE DEF CoreType
<1>1. PICK c \in Ctx :
        /\ tpc[t] = "unlink" /\ c = tctx[t] /\ Serving(t)
        /\ cthread[c] = t /\ need_free[c] /\ mpc # "closing"
        /\ tpc' = [tpc EXCEPT ![t] = "unregsig"]
        /\ ctx_list' = ctx_list \ {c}
        /\ UNCHANGED <<tctx, sleep_threads, ctx_queue, wakeup_list, cthread,
                       asleep, wakeup, need_free, refs, kctx, mpc, mtodo>>
  BY DEF UnregisterUnlink, Goto, pool, queues, sched, posters, main, SInv,
         WorkerInv, PcInv, ServeInv, FreeInv, Executing, Serving
<1>2. /\ \A u \in Thread : Serving(u)' <=> Serving(u)
      /\ \A u \in Thread : Serving(u) /\ u # t => tctx[u] # c
  BY <1>1, OneServer DEF Serving
<1>3. PcInv'
  BY <1>1 DEF SInv, WorkerInv, PcInv, Executing
<1>4. ServeInv'
  BY <1>1, <1>2 DEF SInv, WorkerInv, ServeInv
<1>5. FreeInv'
  BY <1>1, <1>2 DEF SInv, WorkerInv, FreeInv, Executing, Serving, PcInv
<1>6. OneDrop'
  BY <1>1 DEF SInv, WorkerInv, OneDrop
<1>7. SleepInv'
  BY <1>1, SleepFrame DEF SInv, ListInv, SleepInv, Idle
<1>8. QueueInv'
  BY <1>1, QueueFrame DEF SInv, ListInv, QueueInv
<1>9. WakeInv'
  BY <1>1, <1>2, QueueFrame DEF SInv, ListInv, WakeInv
<1>10. CtxInv'
  BY <1>1 DEF SInv, CtxInv, Executing
<1>11. (SleepOnce /\ QueueOnce /\ WakeOnce)'
  BY <1>1, SleepFrame, QueueFrame
<1>12. (HolderInv /\ MainInv)'
  BY <1>1 DEF SInv, HolderInv, MainInv
<1>13. RefInv'
  <2>1. \A d \in Ctx : Owed(d)' <=> Owed(d)
    BY <1>1 DEF Owed, Doomed, Executing
  <2> QED
    BY <1>1, <2>1, RefFrame DEF SInv
<1> QED
  BY <1>3, <1>4, <1>5, <1>6, <1>7, <1>8, <1>9, <1>10, <1>11, <1>12, <1>13
     DEF SInv, WorkerInv, ListInv

-----------------------------------------------------------------------------
(***************************************************************************)
(* The queues.                                                             *)
(***************************************************************************)
LEMMA PopFacts ==
    ASSUME NEW f \in [Prio -> Seq(Ctx)], OnceIn(f), NEW p \in Prio,
           f[p] # << >>, NEW g, g = [f EXCEPT ![p] = Tail(f[p])]
    PROVE  /\ Head(f[p]) \in Ctx /\ InSome(f, Head(f[p]))
           /\ OnceIn(g)
           /\ \A d : InSome(g, d) => InSome(f, d) /\ d # Head(f[p])
<1>1. /\ f[p] \in Seq(Ctx) /\ Head(f[p]) = f[p][1] /\ 1 \in 1 .. Len(f[p])
      /\ DOMAIN f[p] = 1 .. Len(f[p]) /\ Head(f[p]) \in Ctx
      /\ Len(Tail(f[p])) = Len(f[p]) - 1
      /\ DOMAIN Tail(f[p]) = 1 .. Len(Tail(f[p]))
      /\ \A i \in 1 .. Len(Tail(f[p])) :
            i + 1 \in 1 .. Len(f[p]) /\ Tail(f[p])[i] = f[p][i + 1]
  OBVIOUS
<1>2. \A q \in Prio : f[q] \in Seq(Ctx) /\ DOMAIN f[q] = 1 .. Len(f[q])
  OBVIOUS
<1>3. /\ g[p] = Tail(f[p])
      /\ \A q \in Prio : q # p => g[q] = f[q]
  OBVIOUS
<1>4. InSome(f, Head(f[p]))
  BY <1>1 DEF InSome, Elems
\* An element of g sits in f at another place than the head of f[p].
<1>5. ASSUME NEW q \in Prio, NEW i \in 1 .. Len(g[q])
      PROVE  LET k == IF q = p THEN i + 1 ELSE i
             IN  /\ k \in 1 .. Len(f[q]) /\ g[q][i] = f[q][k]
                 /\ ~(q = p /\ k = 1)
  <2>1. CASE q = p
    BY <1>1, <1>3, <2>1
  <2>2. CASE q # p
    BY <1>3, <2>2
  <2> QED
    BY <2>1, <2>2
<1>6. OnceIn(g)
  <2> SUFFICES ASSUME NEW q \in Prio, NEW r \in Prio,
                      NEW i \in 1 .. Len(g[q]), NEW j \in 1 .. Len(g[r]),
                      g[q][i] = g[r][j]
               PROVE  q = r /\ i = j
    BY DEF OnceIn
  <2> DEFINE k == IF q = p THEN i + 1 ELSE i
             m == IF r = p THEN j + 1 ELSE j
  <2>1. k \in 1 .. Len(f[q]) /\ m \in 1 .. Len(f[r]) /\ f[q][k] = f[r][m]
    BY <1>5
  <2>2. q = r /\ k = m
    BY <2>1 DEF OnceIn
  <2> QED
    BY <2>2
<1>7. ASSUME NEW d, InSome(g, d)
      PROVE  InSome(f, d) /\ d # Head(f[p])
  <2>1. PICK q \in Prio : d \in Elems(g[q])
    BY <1>7 DEF InSome
  <2>2. DOMAIN g[q] = 1 .. Len(g[q])
    BY <1>1, <1>2, <1>3
  <2>3. PICK i \in 1 .. Len(g[q]) : d = g[q][i]
    BY <2>1, <2>2 DEF Elems
  <2>4. PICK k \in 1 .. Len(f[q]) : d = f[q][k] /\ ~(q = p /\ k = 1)
    BY <1>5, <2>3
  <2>5. InSome(f, d)
    BY <1>2, <2>4 DEF InSome, Elems
  <2>6. d # f[p][1]
    BY <1>1, <2>4 DEF OnceIn
  <2> QED
    BY <1>1, <2>5, <2>6
<1> QED
  BY <1>1, <1>4, <1>6, <1>7

Pushed(f, p, c) == [f EXCEPT ![p] = Append(f[p], c)]

LEMMA PushFacts ==
    ASSUME NEW f \in [Prio -> Seq(Ctx)], OnceIn(f), NEW p \in Prio,
           NEW c \in Ctx, ~InSome(f, c)
    PROVE  /\ OnceIn(Pushed(f, p, c))
           /\ \A d : InSome(Pushed(f, p, c), d) => InSome(f, d) \/ d = c
<1> DEFINE g == Pushed(f, p, c)
<1>1. /\ f[p] \in Seq(Ctx) /\ DOMAIN f[p] = 1 .. Len(f[p])
      /\ Len(f[p]) \in Nat
      /\ Len(Append(f[p], c)) = Len(f[p]) + 1
      /\ DOMAIN Append(f[p], c) = 1 .. Len(f[p]) + 1
      /\ Append(f[p], c)[Len(f[p]) + 1] = c
      /\ \A i \in 1 .. Len(f[p]) : Append(f[p], c)[i] = f[p][i]
  OBVIOUS
<1>2. \A q \in Prio : f[q] \in Seq(Ctx) /\ DOMAIN f[q] = 1 .. Len(f[q])
  OBVIOUS
<1>3. /\ g[p] = Append(f[p], c)
      /\ \A q \in Prio : q # p => g[q] = f[q]
  BY DEF Pushed
<1> HIDE DEF g
\* An element of g is the new one or has its place in f.
<1>4. ASSUME NEW q \in Prio, NEW i \in 1 .. Len(g[q])
      PROVE  \/ i \in 1 .. Len(f[q]) /\ g[q][i] = f[q][i] /\ f[q][i] # c
             \/ q = p /\ i = Len(f[p]) + 1 /\ g[q][i] = c
  <2>1. \A j \in 1 .. Len(f[q]) : f[q][j] # c
    BY <1>2 DEF InSome, Elems
  <2>2. CASE q = p
    BY <1>1, <1>3, <2>1, <2>2
  <2>3. CASE q # p
    BY <1>3, <2>1, <2>3
  <2> QED
    BY <2>2, <2>3
<1>5. OnceIn(g)
  <2> SUFFICES ASSUME NEW q \in Prio, NEW r \in Prio,
                      NEW i \in 1 .. Len(g[q]), NEW j \in 1 .. Len(g[r]),
                      g[q][i] = g[r][j]
               PROVE  q = r /\ i = j
    BY DEF OnceIn
  <2>1. CASE g[q][i] = c
    BY <1>4, <2>1
  <2>2. CASE g[q][i] # c
    <3>1. /\ i \in 1 .. Len(f[q]) /\ j \in 1 .. Len(f[r])
          /\ f[q][i] = f[r][j]
      BY <1>4, <2>2
    <3> QED
      BY <3>1 DEF OnceIn
  <2> QED
    BY <2>1, <2>2
<1>6. ASSUME NEW d, InSome(g, d)
      PROVE  InSome(f, d) \/ d = c
  <2>1. PICK q \in Prio : d \in Elems(g[q])
    BY <1>6 DEF InSome
  <2>2. DOMAIN g[q] = 1 .. Len(g[q])
    BY <1>1, <1>2, <1>3
  <2>3. PICK i \in 1 .. Len(g[q]) : d = g[q][i]
    BY <2>1, <2>2 DEF Elems
  <2> QED
    BY <1>2, <1>4, <2>3 DEF InSome, Elems
<1> QED
  BY <1>5, <1>6 DEF g

\* A worker takes a context from its wakeup list and continues it.
LEMMA TakeWoken ==
    ASSUME CoreType, SInv, NEW t \in Thread, NEW p \in Prio,
           tpc[t] = "loop", wakeup_list[t][p] # << >>,
           Take(t, Head(wakeup_list[t][p])),
           wakeup_list' = [wakeup_list EXCEPT ![t][p] = Tail(@)],
           UNCHANGED <<sleep_threads, ctx_queue, asleep, wakeup, need_free,
                       ctx_list, refs, kctx, mpc, mtodo>>
    PROVE  SInv'
<1> USE DEF CoreType
<1>0. /\ wakeup_list'[t] =
            [wakeup_list[t] EXCEPT ![p] = Tail(wakeup_list[t][p])]
      /\ \A u \in Thread : u # t => wakeup_list'[u] = wakeup_list[u]
      /\ wakeup_list[t] \in [Prio -> Seq(Ctx)] /\ OnceIn(wakeup_list[t])
  BY DEF SInv, ListInv, WakeOnce
<1>1. PICK c : c = Head(wakeup_list[t][p])
  OBVIOUS
<1>2. /\ c \in Ctx /\ OnWake(t, c)
      /\ OnceIn(wakeup_list'[t])
      /\ \A d : InSome(wakeup_list'[t], d) => OnWake(t, d) /\ d # c
  <2> HIDE DEF CoreType
  <2>1. PICK f : f = wakeup_list[t]
    OBVIOUS
  <2>2. PICK g : g = wakeup_list'[t]
    OBVIOUS
  <2>3. /\ f \in [Prio -> Seq(Ctx)] /\ OnceIn(f) /\ f[p] # << >>
        /\ g = [f EXCEPT ![p] = Tail(f[p])] /\ c = Head(f[p])
    BY <1>0, <1>1, <2>1, <2>2
  <2>4. /\ Head(f[p]) \in Ctx /\ InSome(f, Head(f[p])) /\ OnceIn(g)
        /\ \A d : InSome(g, d) => InSome(f, d) /\ d # Head(f[p])
    BY <2>3, PopFacts, Zenon
  <2> QED
    BY <2>1, <2>2, <2>3, <2>4 DEF OnWake
<1>3. /\ \A u \in Thread : \A d :
            OnWake(u, d)' => OnWake(u, d) /\ ~(u = t /\ d = c)
      /\ WakeOnce'
  BY <1>0, <1>2 DEF OnWake, WakeOnce, SInv, ListInv
<1>4. /\ \A d : OnQueue(d)' <=> OnQueue(d)
      /\ QueueOnce'
  BY DEF OnQueue, QueueOnce, SInv, ListInv
<1>5. /\ cthread[c] = t /\ asleep[c] /\ wakeup[c] /\ ~need_free[c]
      /\ tctx[t] = None
  BY <1>2 DEF SInv, ListInv, WakeInv, CtxInv, WorkerInv, PcInv
<1>6. /\ tpc' = [tpc EXCEPT ![t] = "resume"]
      /\ tctx' = [tctx EXCEPT ![t] = c]
      /\ UNCHANGED cthread
  BY <1>1, <1>5 DEF Take, Goto
<1>7. \A u \in Thread : Serving(u)' <=> Serving(u) \/ u = t
  BY <1>2, <1>6, NoneIsNeither DEF Serving
<1>8. PcInv'
  BY <1>2, <1>5, <1>6, NoneIsNeither DEF SInv, WorkerInv, PcInv, Executing
<1>9. ServeInv'
  BY <1>2, <1>5, <1>6, <1>7 DEF SInv, WorkerInv, ServeInv
<1>10. FreeInv'
  BY <1>2, <1>5, <1>6, <1>7 DEF SInv, WorkerInv, FreeInv, Executing
<1>11. OneDrop'
  BY <1>2, <1>5, <1>6 DEF SInv, WorkerInv, OneDrop
<1>12. SleepInv'
  BY <1>2, <1>5, <1>6, SleepFrame DEF SInv, ListInv, SleepInv, Idle
<1>13. QueueInv'
  BY <1>4, <1>6 DEF SInv, ListInv, QueueInv
<1>14. WakeInv'
  BY <1>2, <1>3, <1>5, <1>6, <1>7 DEF SInv, ListInv, WakeInv
<1>15. CtxInv'
  <2>1. ASSUME NEW d \in Ctx
        PROVE  /\ asleep[d]' => cthread[d]' # None /\ ~need_free[d]'
               /\ cthread[d]' # None /\ d \notin ctx_list' =>
                     /\ need_free[d]' /\ tctx'[cthread'[d]] = d
                     /\ tpc'[cthread'[d]] \in Executing
    <3>1. /\ asleep[d] => cthread[d] # None /\ ~need_free[d]
          /\ cthread[d] # None /\ d \notin ctx_list =>
                /\ need_free[d] /\ tctx[cthread[d]] = d
                /\ tpc[cthread[d]] \in Executing
      BY DEF SInv, CtxInv
    <3>2. CASE cthread[d] = t
      BY <1>2, <1>5, <1>6, <3>1, <3>2, NoneIsNeither DEF Executing
    <3>3. CASE cthread[d] # t
      BY <1>6, <3>1, <3>3
    <3> QED BY <3>2, <3>3
  <2> QED BY <2>1 DEF CtxInv
<1>16. (SleepOnce /\ QueueOnce /\ WakeOnce)'
  BY <1>3, <1>4, SleepFrame
<1>17. (HolderInv /\ MainInv)'
  BY <1>2, <1>5, <1>6 DEF SInv, HolderInv, MainInv
<1>18. RefInv'
  <2>1. \A d \in Ctx : Owed(d)' <=> Owed(d)
    BY <1>2, <1>5, <1>6 DEF Owed, Doomed, Executing
  <2> QED
    BY <1>2, <1>5, <1>6, <2>1, RefFrame DEF SInv
<1> QED
  BY <1>8, <1>9, <1>10, <1>11, <1>12, <1>13, <1>14, <1>15, <1>16, <1>17,
     <1>18
     DEF SInv, WorkerInv, ListInv

\* A worker takes a context from a run queue and adopts it.
LEMMA TakeQueued ==
    ASSUME CoreType, SInv, NEW t \in Thread, NEW p \in Prio,
           tpc[t] = "loop", ctx_queue[p] # << >>,
           Take(t, Head(ctx_queue[p])),
           ctx_queue' = [ctx_queue EXCEPT ![p] = Tail(@)],
           UNCHANGED <<sleep_threads, wakeup_list, asleep, wakeup, need_free,
                       ctx_list, refs, kctx, mpc, mtodo>>
    PROVE  SInv'
<1> USE DEF CoreType
<1>1. PICK c : c = Head(ctx_queue[p])
  OBVIOUS
<1>2. /\ c \in Ctx /\ OnQueue(c) /\ QueueOnce'
      /\ \A d : OnQueue(d)' => OnQueue(d) /\ d # c
  <2>1. /\ OnceIn(ctx_queue) /\ ctx_queue \in [Prio -> Seq(Ctx)]
        /\ ctx_queue' = [ctx_queue EXCEPT ![p] = Tail(ctx_queue[p])]
    BY DEF SInv, ListInv, QueueOnce
  <2> HIDE DEF CoreType
  <2>2. /\ c \in Ctx /\ InSome(ctx_queue, c) /\ OnceIn(ctx_queue')
        /\ \A d : InSome(ctx_queue', d) => InSome(ctx_queue, d) /\ d # c
    BY <1>1, <2>1, PopFacts
  <2> QED
    BY <2>2 DEF OnQueue, QueueOnce
<1>3. /\ \A u, d : OnWake(u, d)' <=> OnWake(u, d)
      /\ WakeOnce'
  BY DEF OnWake, WakeOnce, SInv, ListInv
<1>4. /\ c \in Ctx /\ cthread[c] = None /\ ~asleep[c] /\ ~need_free[c]
      /\ c \in ctx_list /\ tctx[t] = None
  BY <1>2 DEF SInv, ListInv, QueueInv, CtxInv, WorkerInv, PcInv
<1>5. /\ tpc' = [tpc EXCEPT ![t] = "ctx"]
      /\ tctx' = [tctx EXCEPT ![t] = c]
      /\ cthread' = [cthread EXCEPT ![c] = t]
  BY <1>1, <1>4 DEF Take, Goto
<1>6. /\ \A u \in Thread : Serving(u)' <=> Serving(u) \/ u = t
      /\ \A u \in Thread : Serving(u) => tctx[u] # c
  BY <1>2, <1>4, <1>5, NoneIsNeither DEF Serving, SInv, WorkerInv, ServeInv
<1>7. PcInv'
  BY <1>4, <1>5, NoneIsNeither DEF SInv, WorkerInv, PcInv, Executing
<1>8. ServeInv'
  <2> SUFFICES ASSUME NEW u \in Thread, Serving(u)'
               PROVE  /\ cthread'[tctx'[u]] = u
                      /\ asleep'[tctx'[u]] <=> tpc'[u] = "resume"
                      /\ tpc'[u] = "resume" => wakeup'[tctx'[u]]
    BY DEF ServeInv
  <2>1. CASE u = t
    BY <1>4, <1>5, <2>1
  <2>2. CASE u # t
    <3>1. Serving(u) /\ tctx[u] \in Ctx /\ tctx[u] # c
      BY <1>6, <2>2 DEF Serving
    <3> QED
      BY <1>5, <2>2, <3>1 DEF SInv, WorkerInv, ServeInv
  <2> QED
    BY <2>1, <2>2
<1>9. FreeInv'
  <2>1. \A u \in Thread : tpc[u] = "dropfree" => tctx[u] \in Ctx /\ tctx[u] # c
    BY <1>4 DEF SInv, WorkerInv, PcInv, FreeInv
  <2> QED
    BY <1>4, <1>5, <1>6, <2>1, SMTT(30) DEF SInv, WorkerInv, FreeInv, Executing
<1>10. OneDrop'
  BY <1>4, <1>5 DEF SInv, WorkerInv, OneDrop
<1>11. SleepInv'
  BY <1>4, <1>5, SleepFrame DEF SInv, ListInv, SleepInv, Idle
<1>12. QueueInv'
  BY <1>2, <1>5 DEF SInv, ListInv, QueueInv
<1>13. WakeInv'
  <2>1. \A u \in Thread : ~OnWake(u, c)
    BY <1>4, NoneIsNeither DEF SInv, ListInv, WakeInv
  <2> QED
    <3> SUFFICES ASSUME NEW u \in Thread, NEW d \in Ctx, OnWake(u, d)'
                 PROVE  /\ cthread'[d] = u /\ asleep'[d] /\ wakeup'[d]
                        /\ Serving(u)' => tctx'[u] # d
      BY DEF WakeInv
    <3>1. OnWake(u, d) /\ d # c
      BY <1>3, <2>1
    <3>2. /\ cthread[d] = u /\ asleep[d] /\ wakeup[d]
          /\ Serving(u) => tctx[u] # d
      BY <3>1 DEF SInv, ListInv, WakeInv
    <3> QED
      BY <1>4, <1>5, <1>6, <3>1, <3>2
<1>14. CtxInv'
  BY <1>4, <1>5, NoneIsNeither DEF SInv, CtxInv, Executing
<1>15. (SleepOnce /\ QueueOnce /\ WakeOnce)'
  BY <1>2, <1>3, SleepFrame
<1>16. (HolderInv /\ MainInv)'
  BY <1>4, <1>5 DEF SInv, HolderInv, MainInv
<1>17. RefInv'
  <2>1. \A d \in Ctx : Owed(d)' <=> Owed(d)
    BY <1>4, <1>5 DEF Owed, Doomed, Executing
  <2> QED
    BY <1>4, <1>5, <2>1, RefFrame DEF SInv
<1> QED
  BY <1>7, <1>8, <1>9, <1>10, <1>11, <1>12, <1>13, <1>14, <1>15, <1>16, <1>17
     DEF SInv, WorkerInv, ListInv

LEMMA DequeueSafe ==
    ASSUME CoreType, SInv, NEW t \in Thread, Dequeue(t)
    PROVE  SInv'
<1>1. /\ tpc[t] = "loop"
      /\ UNCHANGED <<sleep_threads, asleep, wakeup, need_free, ctx_list, refs,
                     kctx, mpc, mtodo>>
  BY DEF Dequeue, pool, life, posters, main
<1>2. PICK p \in Prio :
        \/ /\ wakeup_list[t][p] # << >>
           /\ Take(t, Head(wakeup_list[t][p]))
           /\ wakeup_list' = [wakeup_list EXCEPT ![t][p] = Tail(@)]
           /\ UNCHANGED ctx_queue
        \/ /\ ctx_queue[p] # << >>
           /\ Take(t, Head(ctx_queue[p]))
           /\ ctx_queue' = [ctx_queue EXCEPT ![p] = Tail(@)]
           /\ UNCHANGED wakeup_list
  BY DEF Dequeue, TopPrio, HasWork
<1> QED
  BY <1>1, <1>2, TakeWoken, TakeQueued

LEMMA HeadFacts ==
    ASSUME NEW s \in Seq(Thread), s # << >>, Distinct(s)
    PROVE  /\ Head(s) \in Thread /\ Head(s) \in Elems(s)
           /\ Elems(Tail(s)) \subseteq Elems(s) \ {Head(s)}
           /\ Distinct(Tail(s))
<1>1. /\ Head(s) = s[1] /\ 1 \in 1 .. Len(s) /\ s[1] \in Thread
      /\ DOMAIN s = 1 .. Len(s) /\ DOMAIN Tail(s) = 1 .. Len(Tail(s))
      /\ \A i \in 1 .. Len(Tail(s)) :
            i + 1 \in 1 .. Len(s) /\ Tail(s)[i] = s[i + 1] /\ i + 1 # 1
  OBVIOUS
<1>2. Distinct(Tail(s))
  <2> SUFFICES ASSUME NEW i \in 1 .. Len(Tail(s)), NEW j \in 1 .. Len(Tail(s)),
                      Tail(s)[i] = Tail(s)[j]
               PROVE  i = j
    BY DEF Distinct
  <2>1. i + 1 = j + 1
    BY <1>1 DEF Distinct
  <2> QED
    BY <2>1
<1>3. ASSUME NEW x \in Elems(Tail(s))
      PROVE  x \in Elems(s) /\ x # Head(s)
  <2>1. PICK i \in 1 .. Len(Tail(s)) : x = Tail(s)[i]
    BY <1>1 DEF Elems
  <2>2. i + 1 \in 1 .. Len(s) /\ x = s[i + 1] /\ i + 1 # 1
    BY <1>1, <2>1
  <2> QED
    BY <1>1, <2>2 DEF Elems, Distinct
<1> QED
  BY <1>1, <1>2, <1>3 DEF Elems

\* triton_queue_ctx: nothing to do, the run queue, or an idle worker.
LEMMA QueueCtxSafe ==
    ASSUME CoreType, SInv, NEW c \in Ctx, NEW ini, QueueCtx(c, ini),
           ~need_free[c] => c \in ctx_list, MainInv',
           UNCHANGED <<tpc, wakeup_list, asleep, wakeup, need_free, ctx_list,
                       refs, kctx>>
    PROVE  SInv'
<1> USE DEF CoreType
<1>1. CASE Settled(c, ini)
  BY <1>1, Frame DEF QueueCtx
<1>2. CASE ~Settled(c, ini) /\ NoIdleWorker
  <2>1. /\ ctx_queue' = [ctx_queue EXCEPT ![priority[c]] = Append(@, c)]
        /\ UNCHANGED <<cthread, tctx, sleep_threads>>
    BY <1>2 DEF QueueCtx
  <2>2. /\ cthread[c] = None /\ ~need_free[c] /\ c \in ctx_list
        /\ ~OnQueue(c)
    BY <1>2 DEF Settled, Linked, OnQueue, InSome
  <2>3. QueueOnce' /\ \A d : OnQueue(d)' => OnQueue(d) \/ d = c
    <3>1. PICK p \in Prio :
            ctx_queue' = Pushed(ctx_queue, p, c)
      BY <2>1 DEF Pushed
    <3>2. /\ OnceIn(ctx_queue) /\ ~InSome(ctx_queue, c)
          /\ ctx_queue \in [Prio -> Seq(Ctx)]
      BY <2>2 DEF SInv, ListInv, QueueOnce, OnQueue
    <3> HIDE DEF CoreType
    <3>3. /\ OnceIn(ctx_queue')
          /\ \A d : InSome(ctx_queue', d) => InSome(ctx_queue, d) \/ d = c
      BY <3>1, <3>2, PushFacts
    <3> QED
      BY <3>3 DEF OnQueue, QueueOnce
  <2>4. WakeOnce' /\ \A u, d : OnWake(u, d)' <=> OnWake(u, d)
    BY DEF OnWake, WakeOnce, SInv, ListInv
  <2>5. \A u \in Thread : Serving(u)' <=> Serving(u)
    BY <2>1 DEF Serving
  <2>6. PcInv'
    BY <2>1 DEF SInv, WorkerInv, PcInv, Executing
  <2>7. ServeInv'
    BY <2>1, <2>5 DEF SInv, WorkerInv, ServeInv
  <2>8. FreeInv'
    BY <2>1, <2>5 DEF SInv, WorkerInv, FreeInv, Executing
  <2>9. OneDrop'
    BY <2>1 DEF SInv, WorkerInv, OneDrop
  <2>10. SleepInv'
    BY <2>1, SleepFrame DEF SInv, ListInv, SleepInv, Idle
  <2>11. QueueInv'
    BY <2>1, <2>2, <2>3 DEF SInv, ListInv, QueueInv
  <2>12. WakeInv'
    BY <2>1, <2>4, <2>5 DEF SInv, ListInv, WakeInv
  <2>13. CtxInv'
    BY <2>1 DEF SInv, CtxInv, Executing
  <2>14. (SleepOnce /\ QueueOnce /\ WakeOnce)'
    BY <2>1, <2>3, <2>4, SleepFrame
  <2>15. (HolderInv /\ MainInv)'
    BY DEF SInv, HolderInv
  <2>16. RefInv'
    <3>1. \A d \in Ctx : Owed(d)' <=> Owed(d)
      BY <2>1 DEF Owed, Doomed, Executing
    <3> QED
      BY <2>1, <3>1, RefFrame DEF SInv
  <2> QED
    BY <2>6, <2>7, <2>8, <2>9, <2>10, <2>11, <2>12, <2>13, <2>14, <2>15,
       <2>16
       DEF SInv, WorkerInv, ListInv
<1>3. CASE ~Settled(c, ini) /\ ~NoIdleWorker
  <2>1. PICK t : t = Head(sleep_threads)
    OBVIOUS
  <2>2. /\ cthread' = [cthread EXCEPT ![c] = t]
        /\ tctx' = [tctx EXCEPT ![t] = c]
        /\ sleep_threads' = Tail(sleep_threads)
        /\ UNCHANGED ctx_queue
        /\ cthread[c] = None /\ ~need_free[c] /\ c \in ctx_list
        /\ ~OnQueue(c) /\ ~asleep[c]
    BY <1>3, <2>1 DEF QueueCtx, Settled, Linked, OnQueue, InSome, SInv, CtxInv
  <2>3. /\ t \in Thread /\ t \in Elems(sleep_threads) /\ SleepOnce'
        /\ Elems(sleep_threads') \subseteq Elems(sleep_threads) \ {t}
    BY <1>3, <2>1, <2>2, HeadFacts
       DEF NoIdleWorker, SleepOnce, SInv, ListInv
  <2>4. tpc[t] \in Idle /\ tctx[t] = None
    BY <2>3 DEF SInv, ListInv, SleepInv
  <2>5. /\ \A u \in Thread : Serving(u)' <=> Serving(u) \/ u = t
        /\ \A u \in Thread : Serving(u) => tctx[u] # c
    BY <2>2, <2>3, <2>4, NoneIsNeither
       DEF Serving, Idle, SInv, WorkerInv, ServeInv
  <2>6. PcInv'
    BY <2>2, <2>3, <2>4 DEF SInv, WorkerInv, PcInv, Executing, Idle
  <2>7. ServeInv'
    BY <2>2, <2>3, <2>4, <2>5 DEF SInv, WorkerInv, ServeInv, Idle
  <2>8. FreeInv'
    BY <2>2, <2>3, <2>4, <2>5 DEF SInv, WorkerInv, FreeInv, Executing, Idle
  <2>9. OneDrop'
    BY <2>2, <2>3, <2>4 DEF SInv, WorkerInv, OneDrop, Idle
  <2>10. SleepInv'
    BY <2>2, <2>3, <2>4 DEF SInv, ListInv, SleepInv
  <2>11. QueueInv'
    BY <2>2, <2>3, <2>4, QueueFrame DEF SInv, ListInv, QueueInv
  <2>12. WakeInv'
    <3>1. \A u \in Thread : ~OnWake(u, c)
      BY <2>2, NoneIsNeither DEF SInv, ListInv, WakeInv
    <3> QED
      BY <2>2, <2>3, <2>4, <2>5, <3>1, QueueFrame
         DEF SInv, ListInv, WakeInv
  <2>13. CtxInv'
    BY <2>2, <2>3, <2>4, NoneIsNeither DEF SInv, CtxInv, Executing, Idle
  <2>14. (SleepOnce /\ QueueOnce /\ WakeOnce)'
    BY <2>2, <2>3, QueueFrame
  <2>15. (HolderInv /\ MainInv)'
    BY DEF SInv, HolderInv
  <2>16. RefInv'
    <3>1. \A d \in Ctx : Owed(d)' <=> Owed(d)
      BY <2>2, <2>3, <2>4 DEF Owed, Doomed, Executing, Idle
    <3> QED
      BY <2>2, <2>3, <2>4, <3>1, RefFrame DEF SInv
  <2> QED
    BY <2>6, <2>7, <2>8, <2>9, <2>10, <2>11, <2>12, <2>13, <2>14, <2>15,
       <2>16
       DEF SInv, WorkerInv, ListInv
<1> QED
  BY <1>1, <1>2, <1>3

-----------------------------------------------------------------------------
(***************************************************************************)
(* Posting, registration and the main thread.                              *)
(***************************************************************************)
\* A wakeup links a sleeping context once, to the list of its own worker.
LEMMA WakeupAsleepSafe ==
    ASSUME CoreType, SInv, PosterInv, NEW k \in Poster, WakeupAsleep(k)
    PROVE  SInv'
<1> USE DEF CoreType
<1>0. PICK c \in Ctx :
        /\ c = kctx[k]
        /\ wakeup' = [wakeup EXCEPT ![c] = TRUE]
        /\ UNCHANGED <<tpc, tctx, sleep_threads, ctx_queue, cthread, asleep,
                       need_free, ctx_list, refs, kctx, mpc, mtodo>>
  BY DEF WakeupAsleep, PosterInv, pool, flags, life, main
<1>1. \A u \in Thread : Serving(u)' <=> Serving(u)
  BY <1>0 DEF Serving
<1>2. CASE UNCHANGED wakeup_list
  <2>1. PcInv'
    BY <1>0, <1>2 DEF SInv, WorkerInv, PcInv, Executing
  <2>2. ServeInv'
    BY <1>0, <1>2, <1>1 DEF SInv, WorkerInv, ServeInv
  <2>3. FreeInv'
    BY <1>0, <1>2, <1>1 DEF SInv, WorkerInv, FreeInv, Executing
  <2>4. OneDrop'
    BY <1>0, <1>2 DEF SInv, WorkerInv, OneDrop
  <2>5. SleepInv'
    BY <1>0, <1>2, SleepFrame DEF SInv, ListInv, SleepInv, Idle
  <2>6. QueueInv'
    BY <1>0, <1>2, QueueFrame DEF SInv, ListInv, QueueInv
  <2>7. WakeInv'
    BY <1>0, <1>2, <1>1, QueueFrame DEF SInv, ListInv, WakeInv
  <2>8. CtxInv'
    BY <1>0, <1>2 DEF SInv, CtxInv, Executing
  <2>9. (SleepOnce /\ QueueOnce /\ WakeOnce)'
    BY <1>0, <1>2, SleepFrame, QueueFrame
  <2>10. (HolderInv /\ MainInv)'
    BY <1>0, <1>2 DEF SInv, HolderInv, MainInv
  <2>11. RefInv'
    <3>1. \A d \in Ctx : Owed(d)' <=> Owed(d)
      BY <1>0, <1>2 DEF Owed, Doomed, Executing
    <3> QED
      BY <1>0, <1>2, <3>1, RefFrame DEF SInv
  <2> QED
    BY <2>1, <2>2, <2>3, <2>4, <2>5, <2>6, <2>7, <2>8, <2>9, <2>10, <2>11
       DEF SInv, WorkerInv, ListInv
<1>3. CASE /\ ~wakeup[c] /\ asleep[c] /\ cthread[c] # None
           /\ wakeup_list' = [wakeup_list EXCEPT
                                ![cthread[c]][priority[c]] = Append(@, c)]
  <2>1. PICK t \in Thread, p \in Prio :
          /\ cthread[c] = t
          /\ wakeup_list' = [wakeup_list EXCEPT ![t][p] = Append(@, c)]
    BY <1>3
  <2>2. /\ ~InSome(wakeup_list[t], c)
        /\ Serving(t) => tctx[t] # c
    BY <1>3, <2>1 DEF SInv, ListInv, WakeInv, OnWake, WorkerInv, ServeInv
  <2>3. /\ wakeup_list'[t] = Pushed(wakeup_list[t], p, c)
        /\ \A u \in Thread : u # t => wakeup_list'[u] = wakeup_list[u]
        /\ wakeup_list[t] \in [Prio -> Seq(Ctx)] /\ OnceIn(wakeup_list[t])
    BY <2>1 DEF SInv, ListInv, WakeOnce, Pushed
  <2>4. /\ OnceIn(wakeup_list'[t])
        /\ \A d : InSome(wakeup_list'[t], d) => OnWake(t, d) \/ d = c
    <3> HIDE DEF CoreType
    <3>1. /\ OnceIn(Pushed(wakeup_list[t], p, c))
          /\ \A d : InSome(Pushed(wakeup_list[t], p, c), d) =>
                        InSome(wakeup_list[t], d) \/ d = c
      BY <2>2, <2>3, PushFacts
    <3> QED
      BY <2>3, <3>1 DEF OnWake
  <2>5. /\ \A u \in Thread : \A d :
              OnWake(u, d)' => OnWake(u, d) \/ (u = t /\ d = c)
        /\ WakeOnce'
    BY <2>3, <2>4 DEF OnWake, WakeOnce, SInv, ListInv
  <2>6. /\ \A d : OnQueue(d)' <=> OnQueue(d)
        /\ QueueOnce'
    BY <1>0 DEF OnQueue, QueueOnce, SInv, ListInv
  <2>7. PcInv'
    BY <1>0 DEF SInv, WorkerInv, PcInv, Executing
  <2>8. ServeInv'
    BY <1>0, <1>1 DEF SInv, WorkerInv, ServeInv
  <2>9. FreeInv'
    BY <1>0, <1>1 DEF SInv, WorkerInv, FreeInv, Executing
  <2>10. OneDrop'
    BY <1>0 DEF SInv, WorkerInv, OneDrop
  <2>11. SleepInv'
    BY <1>0, SleepFrame DEF SInv, ListInv, SleepInv, Idle
  <2>12. QueueInv'
    BY <1>0, <2>6 DEF SInv, ListInv, QueueInv
  <2>13. WakeInv'
    BY <1>0, <1>1, <1>3, <2>1, <2>2, <2>5 DEF SInv, ListInv, WakeInv
  <2>14. CtxInv'
    BY <1>0 DEF SInv, CtxInv, Executing
  <2>15. (SleepOnce /\ QueueOnce /\ WakeOnce)'
    BY <1>0, <2>5, <2>6, SleepFrame
  <2>16. (HolderInv /\ MainInv)'
    BY <1>0 DEF SInv, HolderInv, MainInv
  <2>17. RefInv'
    <3>1. \A d \in Ctx : Owed(d)' <=> Owed(d)
      BY <1>0 DEF Owed, Doomed, Executing
    <3> QED
      BY <1>0, <3>1, RefFrame DEF SInv
  <2> QED
    BY <2>7, <2>8, <2>9, <2>10, <2>11, <2>12, <2>13, <2>14, <2>15, <2>16,
       <2>17
       DEF SInv, WorkerInv, ListInv
<1> QED
  BY <1>0, <1>2, <1>3 DEF WakeupAsleep

\* A poster takes or returns a reference.
LEMMA HolderSafe ==
    ASSUME CoreType, SInv, HolderInv', RefInv',
           UNCHANGED <<tpc, tctx, sleep_threads, ctx_queue, wakeup_list,
                       cthread, asleep, wakeup, need_free, ctx_list, mpc,
                       mtodo>>
    PROVE  SInv'
<1>1. \A u \in Thread : Serving(u)' <=> Serving(u)
  BY DEF Serving
<1>2. PcInv'
  BY DEF SInv, WorkerInv, PcInv, Executing
<1>3. ServeInv'
  BY <1>1 DEF SInv, WorkerInv, ServeInv
<1>4. FreeInv'
  BY <1>1 DEF SInv, WorkerInv, FreeInv, Executing
<1>5. OneDrop'
  BY DEF SInv, WorkerInv, OneDrop
<1>6. SleepInv'
  BY SleepFrame DEF SInv, ListInv, SleepInv, Idle
<1>7. QueueInv'
  BY QueueFrame DEF SInv, ListInv, QueueInv
<1>8. WakeInv'
  BY <1>1, QueueFrame DEF SInv, ListInv, WakeInv
<1>9. CtxInv'
  BY DEF SInv, CtxInv, Executing
<1>10. (SleepOnce /\ QueueOnce /\ WakeOnce)'
  BY SleepFrame, QueueFrame
<1>11. (HolderInv /\ MainInv)'
  BY DEF SInv, MainInv
<1>12. RefInv'
  OBVIOUS
<1> QED
  BY <1>2, <1>3, <1>4, <1>5, <1>6, <1>7, <1>8, <1>9, <1>10, <1>11, <1>12
     DEF SInv, WorkerInv, ListInv

LEMMA GetLiveSafe ==
    ASSUME CoreType, SInv, PosterInv, NEW k \in Poster, NEW c \in Ctx,
           GetLive(k, c)
    PROVE  SInv'
<1> USE DEF CoreType
<1>1. /\ kctx[k] = None /\ c \in ctx_list
      /\ kctx' = [kctx EXCEPT ![k] = c]
      /\ refs' = [refs EXCEPT ![c] = refs[c] + 1]
      /\ UNCHANGED <<tpc, tctx, sleep_threads, ctx_queue, wakeup_list,
                     cthread, asleep, wakeup, need_free, ctx_list, mpc,
                     mtodo>>
  BY DEF GetLive, TakeRef, PosterInv, pool, queues, sched, main
<1>2. \A d \in Ctx : Owed(d)' <=> Owed(d)
  BY <1>1 DEF Owed, Doomed
<1>3. k \notin Holders(c) /\ Holders(c)' = Holders(c) \cup {k}
  BY <1>1, NoneIsNeither DEF Holders
<1>4. \A d \in Ctx : d # c => Holders(d)' = Holders(d)
  BY <1>1, NoneIsNeither DEF Holders
<1>5. Cardinality(Holders(c)') = Cardinality(Holders(c)) + 1
  BY <1>3, HoldersFinite, FS_AddElement
<1>6. ASSUME NEW d \in Ctx
      PROVE  refs'[d] = Cardinality(Holders(d)') + (IF Owed(d)' THEN 1 ELSE 0)
  <2>1. refs[d] = Cardinality(Holders(d)) + (IF Owed(d) THEN 1 ELSE 0)
    BY DEF SInv, RefInv
  <2>2. CASE d = c
    BY <1>1, <1>2, <1>5, <2>1, <2>2, HoldersFinite
  <2>3. CASE d # c
    BY <1>1, <1>2, <1>4, <2>1, <2>3
  <2> QED
    BY <2>2, <2>3
<1>7. RefInv'
  BY <1>6 DEF RefInv
<1>8. HolderInv'
  BY <1>1 DEF SInv, HolderInv
<1> QED
  BY <1>1, <1>7, <1>8, HolderSafe

LEMMA ReleaseSafe ==
    ASSUME CoreType, SInv, PosterInv, NEW k \in Poster, Release(k)
    PROVE  SInv'
<1> USE DEF CoreType
<1>1. PICK c \in Ctx :
        /\ kctx[k] = c
        /\ kctx' = [kctx EXCEPT ![k] = None]
        /\ refs' = [refs EXCEPT ![c] = refs[c] - 1]
        /\ UNCHANGED <<tpc, tctx, sleep_threads, ctx_queue, wakeup_list,
                       cthread, asleep, wakeup, need_free, ctx_list, mpc,
                       mtodo>>
  BY DEF Release, PosterInv, pool, queues, sched, main
<1>2. \A d \in Ctx : Owed(d)' <=> Owed(d)
  BY <1>1 DEF Owed, Doomed
<1>3. k \in Holders(c) /\ Holders(c)' = Holders(c) \ {k}
  BY <1>1, NoneIsNeither DEF Holders
<1>4. \A d \in Ctx : d # c => Holders(d)' = Holders(d)
  BY <1>1, NoneIsNeither DEF Holders
<1>5. Cardinality(Holders(c)') = Cardinality(Holders(c)) - 1
  BY <1>3, HoldersFinite, FS_RemoveElement
<1>6. ASSUME NEW d \in Ctx
      PROVE  refs'[d] = Cardinality(Holders(d)') + (IF Owed(d)' THEN 1 ELSE 0)
  <2>1. refs[d] = Cardinality(Holders(d)) + (IF Owed(d) THEN 1 ELSE 0)
    BY DEF SInv, RefInv
  <2>2. CASE d = c
    BY <1>1, <1>2, <1>5, <2>1, <2>2, HoldersFinite
  <2>3. CASE d # c
    BY <1>1, <1>2, <1>4, <2>1, <2>3
  <2> QED
    BY <2>2, <2>3
<1>7. RefInv'
  BY <1>6 DEF RefInv
<1>8. HolderInv'
  BY <1>1 DEF SInv, HolderInv
<1> QED
  BY <1>1, <1>7, <1>8, HolderSafe

\* Memory that nobody references is in nobody's hands.
LEMMA Unreferenced ==
    ASSUME CoreType, SInv, NEW c \in Ctx, refs[c] = 0
    PROVE  /\ Holders(c) = {} /\ ~Owed(c) /\ cthread[c] = None
           /\ ~OnQueue(c)
           /\ \A t \in Thread : /\ ~OnWake(t, c)
                                /\ Serving(t) => tctx[t] # c
                                /\ tpc[t] = "dropfree" => tctx[t] # c
<1> USE DEF CoreType
<1>1. Cardinality(Holders(c)) = 0 /\ ~Owed(c)
  BY HoldersFinite DEF SInv, RefInv
<1>2. Holders(c) = {}
  BY <1>1, HoldersFinite, FS_EmptySet
<1>3. c \notin ctx_list /\ ~Doomed(c)
  BY <1>1 DEF Owed
<1>4. cthread[c] = None
  BY <1>3 DEF SInv, CtxInv, Doomed
<1>5. ~OnQueue(c)
  BY <1>3 DEF SInv, ListInv, QueueInv
<1>6. \A t \in Thread : ~OnWake(t, c) /\ (Serving(t) => tctx[t] # c)
  BY <1>4, NoneIsNeither DEF SInv, ListInv, WakeInv, WorkerInv, ServeInv
<1>7. \A t \in Thread : tpc[t] = "dropfree" => tctx[t] # c
  BY <1>3 DEF Doomed
<1> QED
  BY <1>1, <1>2, <1>4, <1>5, <1>6, <1>7

LEMMA RegisterSafe ==
    ASSUME CoreType, SInv, NEW c \in Ctx, Register(c)
    PROVE  SInv'
<1> USE DEF CoreType
<1>1. /\ refs[c] = 0 /\ mpc # "closing"
      /\ ctx_list' = ctx_list \cup {c}
      /\ refs' = [refs EXCEPT ![c] = 1]
      /\ need_free' = [need_free EXCEPT ![c] = FALSE]
      /\ cthread' = [cthread EXCEPT ![c] = None]
      /\ asleep' = [asleep EXCEPT ![c] = FALSE]
      /\ wakeup' = [wakeup EXCEPT ![c] = FALSE]
      /\ UNCHANGED <<tpc, tctx, sleep_threads, ctx_queue, wakeup_list, kctx,
                     mpc, mtodo>>
  BY DEF Register, pool, queues, posters, main
<1>2. /\ Holders(c) = {} /\ ~Owed(c) /\ cthread[c] = None /\ ~OnQueue(c)
      /\ \A t \in Thread : /\ ~OnWake(t, c)
                           /\ Serving(t) => tctx[t] # c
                           /\ tpc[t] = "dropfree" => tctx[t] # c
  BY <1>1, Unreferenced
<1>3. \A u \in Thread : Serving(u)' <=> Serving(u)
  BY <1>1 DEF Serving
<1>4. \A t \in Thread : tpc[t] \in Executing => Serving(t)
  BY DEF Executing, Serving, SInv, WorkerInv, PcInv
<1>5. PcInv'
  BY <1>1, <1>2 DEF SInv, WorkerInv, PcInv, Executing
<1>6. ServeInv'
  BY <1>1, <1>2, <1>3 DEF SInv, WorkerInv, ServeInv, Serving
<1>7. FreeInv'
  <2>1. \A t \in Thread :
            tpc[t] \in Executing \cup {"dropfree"} \/ Serving(t) =>
                tctx[t] \in Ctx /\ tctx[t] # c
    BY <1>2, <1>4 DEF Serving, SInv, WorkerInv, PcInv
  <2> QED
    BY <1>1, <1>3, <2>1 DEF SInv, WorkerInv, FreeInv, Executing
<1>8. OneDrop'
  BY <1>1, <1>2 DEF SInv, WorkerInv, OneDrop
<1>9. SleepInv'
  BY <1>1, <1>2, SleepFrame DEF SInv, ListInv, SleepInv, Idle
<1>10. QueueInv'
  BY <1>1, <1>2, QueueFrame DEF SInv, ListInv, QueueInv
<1>11. WakeInv'
  BY <1>1, <1>2, <1>3, QueueFrame DEF SInv, ListInv, WakeInv
<1>12. CtxInv'
  BY <1>1, <1>2 DEF SInv, CtxInv, Executing
<1>13. (SleepOnce /\ QueueOnce /\ WakeOnce)'
  BY <1>1, <1>2, SleepFrame, QueueFrame
<1>14. (HolderInv /\ MainInv)'
  BY <1>1, <1>2 DEF SInv, HolderInv, MainInv
<1>15. RefInv'
  <2>1. \A d : Holders(d)' = Holders(d)
    BY <1>1 DEF Holders
  <2>2. Owed(c)'
    BY <1>1 DEF Owed
  <2>3. \A d \in Ctx : d # c => (Owed(d)' <=> Owed(d))
    BY <1>1 DEF Owed, Doomed
  <2>4. Cardinality(Holders(c)) = 0
    BY <1>2, FS_EmptySet
  <2>5. ASSUME NEW d \in Ctx
        PROVE  refs'[d] = Cardinality(Holders(d)')
                              + (IF Owed(d)' THEN 1 ELSE 0)
    <3>1. CASE d = c
      BY <1>1, <2>1, <2>2, <2>4, <3>1
    <3>2. CASE d # c
      BY <1>1, <2>1, <2>3, <3>2 DEF SInv, RefInv
    <3> QED
      BY <3>1, <3>2
  <2> QED
    BY <2>5 DEF RefInv
<1> QED
  BY <1>5, <1>6, <1>7, <1>8, <1>9, <1>10, <1>11, <1>12, <1>13, <1>14, <1>15
     DEF SInv, WorkerInv, ListInv

-----------------------------------------------------------------------------
(***************************************************************************)
(* The induction.                                                          *)
(***************************************************************************)
LEMMA WorkerSafe ==
    ASSUME CoreType, SInv, NEW t \in Thread, WorkerStep(t)
    PROVE  SInv'
<1>1. CASE ReloadDone(t)
  BY <1>1, IdleMove DEF ReloadDone, Goto, Idle, queues, sched, life, posters,
     main
<1>2. CASE CheckTerminate(t)
  <2>1. PICK pc \in Idle : tpc' = [tpc EXCEPT ![t] = pc]
    BY <1>2 DEF CheckTerminate, Goto, Idle
  <2> QED
    BY <1>2, <2>1, IdleMove DEF CheckTerminate, Idle, queues, sched, life,
       posters, main
<1>3. CASE RunCall(t)
  BY <1>3, Walk DEF RunCall, Goto, Mid, Executing, pool, queues, sched, life,
     posters, main
<1>4. CASE WorkDone(t)
  BY <1>4, Walk DEF WorkDone, Goto, Mid, Executing, pool, queues, sched, life,
     posters, main
<1>5. CASE CheckClose(t)
  <2>1. PICK pc \in {"handler", "leave"} : tpc' = [tpc EXCEPT ![t] = pc]
    BY <1>5 DEF CheckClose, Goto
  <2> QED
    BY <1>5, <2>1, Walk DEF CheckClose, Mid, Executing, pool, queues, sched,
       life, posters, main
<1>6. CASE UnregisterSignal(t)
  BY <1>6, Walk DEF UnregisterSignal, Goto, Mid, Executing, queues, sched,
     life, posters, main
<1> QED
  BY <1>1, <1>2, <1>3, <1>4, <1>5, <1>6, DequeueSafe, GoToSleepSafe,
     SigWakeSafe, LeaveSafe, DropSafe, ResumeSafe, DrainSafe, UnlinkSafe
     DEF WorkerStep

LEMMA CallbackSafe ==
    ASSUME CoreType, SInv, NEW t \in Thread, CallbackStep(t)
    PROVE  SInv'
<1>1. CASE HandlerReturn(t)
  <2>1. PICK pc \in {"ctx", "leave"} : tpc' = [tpc EXCEPT ![t] = pc]
    BY <1>1 DEF HandlerReturn, Goto
  <2> QED
    BY <1>1, <2>1, Walk DEF HandlerReturn, Mid, Executing, pool, queues,
       sched, life, posters, main
<1>2. CASE UnregisterBegin(t)
  BY <1>2, Walk DEF UnregisterBegin, Goto, Mid, Executing, pool, queues,
     sched, life, posters, main
<1>3. CASE SetPriority(t) \/ ConfReload(t)
  <2>1. MainInv'
    BY <1>3 DEF SetPriority, ConfReload, SInv, MainInv, main, life
  <2> QED
    BY <1>3, <2>1, Frame DEF SetPriority, ConfReload, pool, queues, sched,
       life, posters
<1> QED
  BY <1>1, <1>2, <1>3, ScheduleSafe DEF CallbackStep

LEMMA PosterSafe ==
    ASSUME CoreType, SInv, PosterInv, NEW k \in Poster, PosterStep(k)
    PROVE  SInv'
<1>1. CASE ContextCall(k)
  <2>1. kctx[k] \in Ctx /\ (~need_free[kctx[k]] => kctx[k] \in ctx_list)
    BY <1>1, NoneIsNeither
       DEF ContextCall, PosterInv, CoreType, SInv, HolderInv
  <2>2. MainInv'
    BY <1>1 DEF ContextCall, SInv, MainInv, main, life
  <2> QED
    BY <1>1, <2>1, <2>2, QueueCtxSafe DEF ContextCall, life
<1>2. CASE WakeupStart(k)
  <2>1. kctx[k] \in Ctx /\ (~need_free[kctx[k]] => kctx[k] \in ctx_list)
    BY <1>2, NoneIsNeither
       DEF WakeupStart, PosterInv, CoreType, SInv, HolderInv
  <2>2. MainInv'
    BY <1>2 DEF WakeupStart, SInv, MainInv, main
  <2>3. UNCHANGED <<tpc, wakeup_list, asleep, wakeup, need_free, ctx_list,
                    refs, kctx>>
    BY <1>2 DEF WakeupStart
  <2>4. CASE QueueCtx(kctx[k], FALSE)
    BY <2>1, <2>2, <2>3, <2>4, QueueCtxSafe
  <2>5. CASE UNCHANGED <<ctx_queue, cthread, tctx, sleep_threads>>
    BY <2>2, <2>3, <2>5, Frame
  <2> QED
    BY <1>2, <2>4, <2>5 DEF WakeupStart
<1>3. CASE WakeupReadInit(k) \/ CancelCall(k) \/ Kick(k)
  <2>1. MainInv'
    BY <1>3 DEF WakeupReadInit, CancelCall, Kick, SInv, MainInv, main, life
  <2> QED
    BY <1>3, <2>1, Frame DEF WakeupReadInit, CancelCall, Kick, pool, queues,
       sched, life
<1> QED
  BY <1>1, <1>2, <1>3, WakeupAsleepSafe, ReleaseSafe DEF PosterStep

LEMMA MainSafe ==
    ASSUME CoreType, SInv, MainReload \/ Terminate \/ MainStep
    PROVE  SInv'
<1>1. ASSUME NEW c \in Ctx, TerminateClose(c)
      PROVE  SInv'
  <2>1. c \in ctx_list
    BY <1>1 DEF TerminateClose, SInv, MainInv
  <2>2. MainInv'
    BY <1>1 DEF TerminateClose, SInv, MainInv, life
  <2> QED
    BY <1>1, <2>1, <2>2, QueueCtxSafe DEF TerminateClose, life, posters
<1>2. CASE MainReload \/ MainReloadDone \/ Terminate \/ TerminateKick
           \/ TerminateWait
  <2>1. MainInv'
    BY <1>2 DEF MainReload, MainReloadDone, Terminate, TerminateKick,
       TerminateWait, SInv, MainInv, life
  <2> QED
    BY <1>2, <2>1, Frame DEF MainReload, MainReloadDone, Terminate,
       TerminateKick, TerminateWait, pool, queues, sched, life, posters
<1> QED
  BY <1>1, <1>2 DEF MainStep

LEMMA SafeInit ==
    ASSUME Init
    PROVE  SInv
<1>1. WorkerInv
  BY DEF Init, WorkerInv, PcInv, ServeInv, FreeInv, OneDrop, Serving,
         Executing
<1>2. /\ Elems(sleep_threads) = {} /\ \A c : ~OnQueue(c)
      /\ \A t \in Thread : \A c : ~OnWake(t, c)
  BY DEF Init, OnQueue, OnWake, InSome, Elems
<1>3. SleepInv /\ QueueInv /\ WakeInv
  BY <1>2 DEF SleepInv, QueueInv, WakeInv
<1>4. SleepOnce /\ QueueOnce /\ WakeOnce
  BY DEF Init, SleepOnce, QueueOnce, WakeOnce, OnceIn, Distinct
<1>5. CtxInv /\ HolderInv /\ MainInv
  BY DEF Init, CtxInv, HolderInv, MainInv
<1>6. RefInv
  <2>1. \A c \in Ctx : Holders(c) = {}
    BY NoneIsNeither DEF Init, Holders
  <2>2. \A c \in Ctx : Owed(c) <=> c \in Static
    BY DEF Init, Owed, Doomed, Executing
  <2>3. ASSUME NEW c \in Ctx
        PROVE  refs[c] = Cardinality(Holders(c)) + (IF Owed(c) THEN 1 ELSE 0)
    <3>1. Cardinality(Holders(c)) = 0
      BY <2>1, FS_EmptySet
    <3>2. refs[c] = IF c \in Static THEN 1 ELSE 0
      BY DEF Init
    <3> QED
      BY <2>2, <3>1, <3>2
  <2> QED
    BY <2>3 DEF RefInv
<1> QED
  BY <1>1, <1>3, <1>4, <1>5, <1>6 DEF SInv, ListInv

\* The invariant of the scheduler is inductive.
THEOREM SchedulerInvariant == Spec => []IInv
<1>1. Init => IInv
  BY TypeInit, SafeInit DEF IInv
<1>2. IInv /\ [Next]_vars => IInv'
  <2> SUFFICES ASSUME IInv, [Next]_vars
               PROVE  IInv'
    OBVIOUS
  <2>1. CASE Next
    <3>1. CoreType /\ SInv /\ PosterInv
      BY CoreTyped DEF IInv
    <3>2. SInv'
      BY <2>1, <3>1, WorkerSafe, CallbackSafe, PosterSafe, GetLiveSafe,
         RegisterSafe, MainSafe DEF Next
    <3> QED
      BY <2>1, <3>2, TypeNext DEF IInv
  <2>2. CASE UNCHANGED vars
    <3>1. TypeOK' /\ PosterInv'
      BY <2>2 DEF IInv, TypeOK, PosterInv, vars, pool, queues, flags, sched,
         life, work, posters, main, bounds
    <3>2. MainInv'
      BY <2>2 DEF IInv, SInv, MainInv, vars, life, main
    <3>3. SInv'
      BY <2>2, <3>2, Frame DEF IInv, vars, pool, queues, sched, life, posters
    <3> QED
      BY <3>1, <3>3 DEF IInv
  <2> QED
    BY <2>1, <2>2
<1> QED
  BY <1>1, <1>2, PTL DEF Spec

(* Callbacks of one context never overlap: the workers inside triton_thread *)
(* for a context are at most one, the one ctx->thread names.                *)
THEOREM OneWorker == Spec => []OneWorkerPerContext
<1>1. IInv => OneWorkerPerContext
  BY Runner, CoreTyped DEF IInv, OneWorkerPerContext
<1> QED
  BY <1>1, SchedulerInvariant, PTL

(* The list_add_tail and list_del calls on ctx->entry2 keep the run queues  *)
(* and the wakeup lists well formed: no context is ever linked twice.       *)
THEOREM ListsWellFormed == Spec => []LinkedOnce
<1>1. ASSUME IInv
      PROVE  LinkedOnce
  <2> SUFFICES ASSUME NEW t \in Thread \cup {None},
                      NEW u \in Thread \cup {None},
                      NEW p \in Prio, NEW q \in Prio,
                      NEW i \in DOMAIN Queue(t, p),
                      NEW j \in DOMAIN Queue(u, q),
                      Queue(t, p)[i] = Queue(u, q)[j]
               PROVE  t = u /\ p = q /\ i = j
    BY DEF LinkedOnce
  <2>0. CoreType /\ SInv
    BY <1>1, CoreTyped DEF IInv
  <2>1. \A v \in Thread \cup {None}, r \in Prio :
            /\ Queue(v, r) \in Seq(Ctx)
            /\ DOMAIN Queue(v, r) = 1 .. Len(Queue(v, r))
    BY <2>0 DEF CoreType, Queue
  <2>2. PICK c \in Ctx : c = Queue(t, p)[i] /\ c = Queue(u, q)[j]
    BY <2>1
  <2>3. \A v \in Thread \cup {None}, r \in Prio :
            c \in Elems(Queue(v, r)) => cthread[c] = v
    BY <2>0, NoneIsNeither
       DEF Queue, SInv, ListInv, QueueInv, WakeInv, OnQueue, OnWake, InSome
  <2>4. c \in Elems(Queue(t, p)) /\ c \in Elems(Queue(u, q))
    BY <2>2 DEF Elems
  <2>5. t = u
    BY <2>3, <2>4
  <2>6. i \in 1 .. Len(Queue(t, p)) /\ j \in 1 .. Len(Queue(t, q))
    BY <2>1, <2>5
  <2>7. CASE t = None
    BY <2>0, <2>2, <2>5, <2>6, <2>7
       DEF Queue, SInv, ListInv, QueueOnce, OnceIn
  <2>8. CASE t # None
    <3>1. OnceIn(wakeup_list[t])
      BY <2>0, <2>8 DEF SInv, ListInv, WakeOnce
    <3> QED
      BY <2>2, <2>5, <2>6, <2>8, <3>1 DEF Queue, OnceIn
  <2> QED
    BY <2>5, <2>7, <2>8
<1> QED
  BY <1>1, SchedulerInvariant, PTL

(* The reference counts protect the contexts: as long as a worker, a poster, *)
(* ctx_list or a queue can reach a context, it has not been freed.           *)
THEOREM ContextsNotFreedEarly == Spec => []NoUseAfterFree
<1>1. ASSUME IInv
      PROVE  NoUseAfterFree
  <2> SUFFICES ASSUME NEW c \in Ctx, ~(refs[c] > 0)
               PROVE  /\ \A t \in Thread : ~(tctx[t] = c /\ tpc[t] # "drop")
                      /\ \A k \in Poster : kctx[k] # c
                      /\ c \notin ctx_list
                      /\ ~Linked(c)
    BY DEF NoUseAfterFree
  <2>1. CoreType /\ SInv
    BY <1>1, CoreTyped DEF IInv
  <2>2. refs[c] = 0
    <3>1. refs[c] = Cardinality(Holders(c)) + (IF Owed(c) THEN 1 ELSE 0)
      BY <2>1 DEF SInv, RefInv
    <3>2. Cardinality(Holders(c)) \in Nat
      BY HoldersFinite
    <3> QED
      BY <3>1, <3>2
  <2>3. /\ Holders(c) = {} /\ ~Owed(c) /\ ~OnQueue(c)
        /\ \A t \in Thread : /\ ~OnWake(t, c)
                             /\ Serving(t) => tctx[t] # c
                             /\ tpc[t] = "dropfree" => tctx[t] # c
    BY <2>1, <2>2, Unreferenced
  <2>4. \A t \in Thread : ~(tctx[t] = c /\ tpc[t] # "drop")
    BY <2>3, NoneIsNeither DEF Serving
  <2>5. ~Linked(c)
    BY <2>3 DEF Linked, OnQueue, OnWake, InSome
  <2> QED
    BY <2>3, <2>4, <2>5 DEF Holders, Owed
<1> QED
  BY <1>1, SchedulerInvariant, PTL

-----------------------------------------------------------------------------
(***************************************************************************)
(* Nothing that is asked of the pool is lost, and no worker idles while a  *)
(* context waits: the second inductive invariant of the scheduler, on top  *)
(* of the first.                                                           *)
(***************************************************************************)
-----------------------------------------------------------------------------
\* Workers, signals and sleep_threads.
Waiting == {"slept", "sigwait"}

\* What a worker finds when it looks for work.
Woken(t) == \E p \in Prio : wakeup_list[t][p] # << >>

Queued == \E p \in Prio : ctx_queue[p] # << >>

\* The target of a signal is forgotten only when the signal was sent.
KickInv == \A k \in Poster : kick[k] # None => kpc[k] = "kick"

\* An idle worker without a context can be found by triton_queue_ctx; one
\* that is about to exit may not be on the list.
ListedInv ==
    \A t \in Thread :
        /\ tpc[t] \in Waiting \cup {"reload"}
        /\ tctx[t] = None
        /\ tpc[t] = "sigwait" \/ ~terminate
        => t \in Elems(sleep_threads)

SignalInv == KickInv /\ ListedInv /\ NoLostSignal /\ WorkConserving

-----------------------------------------------------------------------------
\* Contexts and their work.
HasJob(c) == calls[c] # {} \/ need_close[c]

\* A context that was not started is nowhere, and its first wakeup will see
\* what was posted meanwhile.
NotStartedInv ==
    \A c \in Ctx :
        init[c] => /\ cthread[c] = None /\ ~OnQueue(c)
                   /\ HasJob(c) => pending[c]

\* A started context with something to do is queued or has a worker.
JobInv ==
    \A c \in Ctx :
        ~init[c] /\ ~need_free[c] /\ HasJob(c) => OnQueue(c) \/ cthread[c] # None

\* A worker that is past its look at need_close sees a later one in pending.
LateCloseInv ==
    \A t \in Thread :
        /\ tpc[t] = "leave" /\ need_close[tctx[t]] /\ ~need_free[tctx[t]]
        => pending[tctx[t]]

\* A callback runs in a worker or sleeps.
CallbackInv ==
    \A c \in Ctx :
        callback[c] # "none" =>
            \/ asleep[c]
            \/ \E t \in Thread :
                  tctx[t] = c /\ tpc[t] \in {"handler", "drain", "unlink", "unregsig"}

\* The work loop of the context is over for this round.
Closing(c) ==
    \/ callback[c] = "close"
    \/ \E t \in Thread : tctx[t] = c /\ tpc[t] \in {"preclose", "leave"}

LateCallInv == \A c \in Ctx : Closing(c) /\ calls[c] # {} => pending[c]

WorkInv == NotStartedInv /\ JobInv /\ LateCloseInv /\ CallbackInv /\ LateCallInv

WInv == SignalInv /\ WorkInv

-----------------------------------------------------------------------------
(***************************************************************************)
(* Signals.                                                                *)
(***************************************************************************)
\* The part of TypeOK that speaks of signals.
SigType ==
    /\ tpc \in [Thread -> WorkerPC] /\ tctx \in [Thread -> Ctx \cup {None}]
    /\ sig \subseteq Thread /\ mkick \in Thread \cup {None}
    /\ kick \in [Poster -> Thread \cup {None}]
    /\ kpc \in [Poster -> {"idle", "call", "wakeup", "start", "awaken",
                           "cancel", "kick", "release"}]

LEMMA SigTyped == ASSUME TypeOK PROVE SigType
  BY DEF TypeOK, SigType

\* A step that takes nothing from the waiting workers: they keep their
\* signals, their contexts and their places on sleep_threads, and find no
\* more work than before.
Quiet ==
    /\ need_config_reload => need_config_reload'
    /\ terminate => terminate'
    /\ Queued' => Queued
    /\ \A u \in Thread :
          tpc'[u] \in Waiting \cup {"reload"} =>
             /\ tpc[u] \in Waiting \cup {"reload"}
             /\ tpc'[u] \in Waiting => tpc[u] \in Waiting
             /\ tpc'[u] = "sigwait" => tpc[u] = "sigwait" \/ ~terminate
             /\ tctx'[u] = tctx[u]
             /\ Woken(u)' => Woken(u)
             /\ u \in Elems(sleep_threads) => u \in Elems(sleep_threads')
             /\ Kicked(u) => Kicked(u)'

LEMMA QuietStep ==
    ASSUME SignalInv, Quiet, KickInv'
    PROVE  SignalInv'
<1>1. ListedInv'
  BY DEF SignalInv, ListedInv, Quiet, Waiting
<1>2. NoLostSignal'
  <2> SUFFICES ASSUME NEW t \in Thread, tpc'[t] \in {"slept", "sigwait"}
               PROVE  /\ tctx'[t] # None => Kicked(t)'
                      /\ Woken(t)' => Kicked(t)' \/ need_config_reload' \/ terminate'
    BY DEF NoLostSignal, Woken
  <2> QED
    BY DEF SignalInv, NoLostSignal, Quiet, Waiting, Woken
<1>3. WorkConserving'
  <2> SUFFICES ASSUME Queued', ~need_config_reload', ~terminate',
                      NEW t \in Thread, tpc'[t] \in {"slept", "sigwait"}
               PROVE  Kicked(t)'
    BY DEF WorkConserving, Queued
  <2> QED
    BY DEF SignalInv, WorkConserving, Quiet, Waiting, Queued
<1> QED
  BY <1>1, <1>2, <1>3 DEF SignalInv

\* A poster that sends no signal has no target to forget.
LEMMA KickFrame ==
    ASSUME KickInv, UNCHANGED <<kick, mkick>>, sig \subseteq sig',
           \/ UNCHANGED kpc
           \/ \E k \in Poster : \E x : kpc[k] # "kick" /\ kpc' = [kpc EXCEPT ![k] = x],
           SigType
    PROVE  KickInv' /\ \A u : Kicked(u) => Kicked(u)'
  BY DEF KickInv, Kicked, SigType

LEMMA SameLists ==
    ASSUME UNCHANGED <<ctx_queue, wakeup_list, sleep_threads>>
    PROVE  /\ Queued' <=> Queued
           /\ \A u : Woken(u)' <=> Woken(u)
           /\ Elems(sleep_threads') = Elems(sleep_threads)
  BY DEF Queued, Woken, Elems

\* A worker outside the idle part moves inside it.
LEMMA BusyMove ==
    ASSUME SigType, SignalInv, NEW t \in Thread, NEW pc,
           pc \notin Waiting \cup {"reload"}, tpc' = [tpc EXCEPT ![t] = pc],
           \/ UNCHANGED tctx
           \/ \E c : tctx' = [tctx EXCEPT ![t] = c],
           need_config_reload => need_config_reload', terminate => terminate',
           Queued' => Queued, \A u \in Thread : u # t => (Woken(u)' => Woken(u)),
           UNCHANGED <<kick, kpc, mkick, sleep_threads>>, sig \subseteq sig'
    PROVE  SignalInv'
<1>1. KickInv' /\ \A u : Kicked(u) => Kicked(u)'
  BY KickFrame DEF SignalInv
<1>2. Quiet
  BY <1>1 DEF Quiet, SigType, Elems
<1> QED
  BY <1>1, <1>2, QuietStep

\* A step of no worker that sends nothing.
LEMMA StillStep ==
    ASSUME SigType, SignalInv,
           need_config_reload => need_config_reload', terminate => terminate',
           UNCHANGED <<tpc, tctx, ctx_queue, wakeup_list, sleep_threads, kick,
                       mkick>>,
           sig \subseteq sig',
           \/ UNCHANGED kpc
           \/ \E k \in Poster : \E x : kpc[k] # "kick" /\ kpc' = [kpc EXCEPT ![k] = x]
    PROVE  SignalInv'
<1>1. KickInv' /\ \A u : Kicked(u) => Kicked(u)'
  BY KickFrame DEF SignalInv
<1>2. Quiet
  BY <1>1, SameLists DEF Quiet, SigType
<1> QED
  BY <1>1, <1>2, QuietStep


\* After a reload everyone was signalled.
LEMMA AllSignalled ==
    ASSUME SigType, SignalInv, UNCHANGED <<sleep_threads, tctx, kick, kpc, terminate>>,
           sig' = sig \cup AllThreads,
           \/ UNCHANGED tpc
           \/ \E t \in Thread : tpc[t] = "reload" /\ tpc' = [tpc EXCEPT ![t] = "slept"]
    PROVE  SignalInv'
<1>1. \A u \in Thread : tpc'[u] \in Waiting => Kicked(u)'
  BY DEF AllThreads, Kicked, Waiting, SigType
<1>2. KickInv'
  BY DEF SignalInv, KickInv
<1>3. ListedInv'
  BY DEF SignalInv, ListedInv, Waiting, SigType, Elems
<1>4. NoLostSignal'
  BY <1>1 DEF NoLostSignal, Waiting
<1>5. WorkConserving'
  BY <1>1 DEF WorkConserving, Waiting
<1> QED
  BY <1>2, <1>3, <1>4, <1>5 DEF SignalInv

LEMMA ElemsPrepend ==
    ASSUME NEW s \in Seq(Thread), NEW t \in Thread
    PROVE  t \in Elems(<<t>> \o s) /\ Elems(s) \subseteq Elems(<<t>> \o s)
<1> DEFINE u == <<t>> \o s
<1>1. /\ DOMAIN u = 1 .. Len(s) + 1 /\ u[1] = t /\ Len(s) \in Nat
      /\ \A i \in 1 .. Len(s) : u[i + 1] = s[i] /\ i + 1 \in 1 .. Len(s) + 1
      /\ DOMAIN s = 1 .. Len(s)
  OBVIOUS
<1> HIDE DEF u
<1>2. t \in Elems(u)
  BY <1>1 DEF Elems
<1>3. ASSUME NEW x \in Elems(s)
      PROVE  x \in Elems(u)
  <2>1. PICK i \in 1 .. Len(s) : x = s[i]
    BY <1>1 DEF Elems
  <2> QED
    BY <1>1, <2>1 DEF Elems
<1> QED
  BY <1>2, <1>3 DEF u

LEMMA ElemsTail ==
    ASSUME NEW s \in Seq(Thread), s # << >>, NEW x \in Elems(s), x # Head(s)
    PROVE  x \in Elems(Tail(s))
<1>1. PICK i \in 1 .. Len(s) : x = s[i]
  BY DEF Elems
<1>2. /\ i # 1 /\ i - 1 \in 1 .. Len(Tail(s)) /\ Tail(s)[i - 1] = s[i]
      /\ DOMAIN Tail(s) = 1 .. Len(Tail(s))
  BY <1>1
<1> QED
  BY <1>1, <1>2 DEF Elems

\* A worker goes to sleep: it has looked at the queues, or a reload is on.
LEMMA GoToSleepSignals ==
    ASSUME CoreType, SigType, SInv, SignalInv, NEW t \in Thread, GoToSleep(t)
    PROVE  SignalInv'
<1>1. /\ tpc[t] = "loop" /\ tctx[t] = None
      /\ need_config_reload \/ (~Woken(t) /\ ~Queued)
      /\ sleep_threads' = SleepList(t)
      /\ UNCHANGED <<tctx, sig, ctx_queue, wakeup_list, need_config_reload,
                     terminate, kick, kpc, mkick>>
  BY DEF GoToSleep, SInv, WorkerInv, PcInv, Woken, Queued, HasWork, queues, flags,
     posters, main
<1>2. PICK pc \in {"reload", "slept"} : tpc' = [tpc EXCEPT ![t] = pc]
  BY DEF GoToSleep, Goto
<1>3. /\ KickInv' /\ \A u : Kicked(u)' <=> Kicked(u)
      /\ Queued' <=> Queued
      /\ \A u : Woken(u)' <=> Woken(u)
  BY <1>1 DEF SignalInv, KickInv, Kicked, Queued, Woken
<1>4. /\ Elems(sleep_threads) \subseteq Elems(sleep_threads')
      /\ ~terminate => t \in Elems(sleep_threads')
  BY <1>1, ElemsPrepend DEF SleepList, CoreType
<1>5. ListedInv'
  BY <1>1, <1>2, <1>4 DEF SignalInv, ListedInv, Waiting, SigType
<1>6. NoLostSignal'
  <2> SUFFICES ASSUME NEW u \in Thread, tpc'[u] \in {"slept", "sigwait"}
               PROVE  /\ tctx'[u] # None => Kicked(u)'
                      /\ Woken(u)' => Kicked(u)' \/ need_config_reload' \/ terminate'
    BY DEF NoLostSignal, Woken
  <2> QED
    BY <1>1, <1>2, <1>3 DEF SignalInv, NoLostSignal, Woken, SigType
<1>7. WorkConserving'
  <2> SUFFICES ASSUME Queued', ~need_config_reload', ~terminate',
                      NEW u \in Thread, tpc'[u] \in {"slept", "sigwait"}
               PROVE  Kicked(u)'
    BY DEF WorkConserving, Queued
  <2> QED
    BY <1>1, <1>2, <1>3 DEF SignalInv, WorkConserving, Queued, SigType
<1> QED
  BY <1>3, <1>5, <1>6, <1>7 DEF SignalInv

LEMMA SigWakeSignals ==
    ASSUME CoreType, SigType, SInv, SignalInv, NEW t \in Thread, SigWake(t)
    PROVE  SignalInv'
<1>1. /\ sig' = sig \ {t}
      /\ UNCHANGED <<tctx, ctx_queue, wakeup_list, need_config_reload, terminate,
                     kick, kpc, mkick>>
      /\ sleep_threads' = Unlink(sleep_threads, t) \/ UNCHANGED sleep_threads
  BY DEF SigWake, queues, flags, posters, main
<1>2. PICK pc \in {"loop", "ctx"} : tpc' = [tpc EXCEPT ![t] = pc]
  BY DEF SigWake, Goto
<1>3. /\ KickInv' /\ \A u : Kicked(u) /\ u # t => Kicked(u)'
      /\ Queued' <=> Queued
      /\ \A u : Woken(u)' <=> Woken(u)
  BY <1>1 DEF SignalInv, KickInv, Kicked, Queued, Woken
<1>4. Elems(sleep_threads) \subseteq Elems(sleep_threads') \cup {t}
  BY <1>1, UnlinkFacts DEF SInv, ListInv, SleepOnce, CoreType
<1>5. Quiet
  BY <1>1, <1>2, <1>3, <1>4 DEF Quiet, SigType, Waiting
<1> QED
  BY <1>3, <1>5, QuietStep

LEMMA CheckTerminateSignals ==
    ASSUME SigType, SignalInv, NEW t \in Thread, CheckTerminate(t)
    PROVE  SignalInv'
<1>1. /\ tpc[t] = "slept"
      /\ UNCHANGED <<tctx, ctx_queue, wakeup_list, need_config_reload, terminate,
                     kick, kpc, mkick, sleep_threads>>
      /\ \/ terminate /\ tpc' = [tpc EXCEPT ![t] = "exited"] /\ sig' = sig \ {t}
         \/ ~terminate /\ tpc' = [tpc EXCEPT ![t] = "sigwait"] /\ sig' = sig
  BY DEF CheckTerminate, Goto, queues, flags, posters, main
<1>2. /\ KickInv'
      /\ \A u \in Thread : tpc'[u] \in Waiting \cup {"reload"} /\ Kicked(u) => Kicked(u)'
  BY <1>1 DEF SignalInv, KickInv, Kicked, SigType, Waiting
<1>3. Quiet
  BY <1>1, <1>2, SameLists DEF Quiet, SigType, Waiting
<1> QED
  BY <1>2, <1>3, QuietStep

\* A signal that is sent arrives at its worker, unless that one has exited.
LEMMA SentSignals ==
    ASSUME SigType, SignalInv,
           UNCHANGED <<tpc, tctx, ctx_queue, wakeup_list, sleep_threads,
                       need_config_reload, terminate>>,
           \/ /\ \E k \in Poster :
                    /\ sig' = sig \cup ({kick[k]} \cap AllThreads)
                    /\ kick' = [kick EXCEPT ![k] = None]
                    /\ kpc' = [kpc EXCEPT ![k] = "release"]
              /\ UNCHANGED mkick
           \/ /\ sig' = sig \cup ({mkick} \cap AllThreads) /\ mkick' = None
              /\ UNCHANGED <<kick, kpc>>
    PROVE  SignalInv'
<1>1. KickInv'
  BY DEF SignalInv, KickInv, SigType
<1>2. \A u \in Thread : tpc[u] \in Waiting \cup {"reload"} /\ Kicked(u) => Kicked(u)'
  BY DEF Kicked, AllThreads, Waiting, SigType
<1>3. Quiet
  BY <1>2, SameLists DEF Quiet, SigType
<1> QED
  BY <1>1, <1>3, QuietStep


\* triton_queue_ctx: the run queue grows only when nobody waits on
\* sleep_threads, and a worker taken from there is signalled.
LEMMA QueueCtxSignals ==
    ASSUME CoreType, SigType, SInv, SignalInv, NEW c \in Ctx, NEW ini,
           QueueCtx(c, ini), NEW target, target = QueuedTo(c, ini),
           UNCHANGED <<tpc, wakeup_list, need_config_reload, terminate>>,
           KickInv', \A u \in Thread : Kicked(u) => Kicked(u)',
           target # None => Kicked(target)'
    PROVE  SignalInv'
<1>1. \A u : Woken(u)' <=> Woken(u)
  BY DEF Woken
<1>2. CASE Settled(c, ini)
  <2>1. UNCHANGED <<ctx_queue, tctx, sleep_threads>>
    BY <1>2 DEF QueueCtx
  <2>2. Quiet
    BY <2>1, SameLists DEF Quiet
  <2> QED
    BY <2>2, QuietStep
<1>3. CASE ~Settled(c, ini) /\ NoIdleWorker
  <2>1. UNCHANGED <<tctx, sleep_threads>>
    BY <1>3 DEF QueueCtx
  <2>2. ListedInv'
    BY <2>1 DEF SignalInv, ListedInv, Elems
  <2>3. NoLostSignal'
    <3> SUFFICES ASSUME NEW u \in Thread, tpc'[u] \in {"slept", "sigwait"}
                 PROVE  /\ tctx'[u] # None => Kicked(u)'
                        /\ Woken(u)' => Kicked(u)' \/ need_config_reload' \/ terminate'
      BY DEF NoLostSignal, Woken
    <3> QED
      BY <1>1, <2>1 DEF SignalInv, NoLostSignal, Woken
  <2>4. WorkConserving'
    <3> SUFFICES ASSUME ~need_config_reload', ~terminate',
                        NEW u \in Thread, tpc'[u] \in {"slept", "sigwait"}
                 PROVE  Kicked(u)'
      BY DEF WorkConserving
    <3>1. Elems(sleep_threads) = {}
      BY <1>3 DEF NoIdleWorker, Elems
    <3>2. tctx[u] # None
      BY <3>1 DEF SignalInv, ListedInv, Waiting
    <3> QED
      BY <3>2 DEF SignalInv, NoLostSignal
  <2> QED
    BY <2>2, <2>3, <2>4 DEF SignalInv
<1>4. CASE ~Settled(c, ini) /\ ~NoIdleWorker
  <2>1. PICK w : w = Head(sleep_threads)
    OBVIOUS
  <2>2. /\ tctx' = [tctx EXCEPT ![w] = c] /\ sleep_threads' = Tail(sleep_threads)
        /\ UNCHANGED ctx_queue
        /\ target = w /\ sleep_threads # << >>
    BY <1>4, <2>1 DEF QueueCtx, QueuedTo, NoIdleWorker
  <2>3. w \in Thread /\ Kicked(w)'
    BY <2>1, <2>2, HeadFacts, NoneIsNeither DEF CoreType, SInv, ListInv, SleepOnce
  <2>4. \A u \in Thread : u # w /\ u \in Elems(sleep_threads) => u \in Elems(sleep_threads')
    BY <2>1, <2>2, ElemsTail DEF CoreType
  <2>5. ListedInv'
    BY <2>2, <2>3, <2>4, NoneIsNeither DEF SignalInv, ListedInv, SigType
  <2>6. NoLostSignal'
    <3> SUFFICES ASSUME NEW u \in Thread, tpc'[u] \in {"slept", "sigwait"}
                 PROVE  /\ tctx'[u] # None => Kicked(u)'
                        /\ Woken(u)' => Kicked(u)' \/ need_config_reload' \/ terminate'
      BY DEF NoLostSignal, Woken
    <3> QED
      BY <1>1, <2>2, <2>3 DEF SignalInv, NoLostSignal, Woken, SigType
  <2>7. WorkConserving'
    <3> SUFFICES ASSUME Queued', ~need_config_reload', ~terminate',
                        NEW u \in Thread, tpc'[u] \in {"slept", "sigwait"}
                 PROVE  Kicked(u)'
      BY DEF WorkConserving, Queued
    <3> QED
      BY <2>2 DEF SignalInv, WorkConserving, Queued
  <2> QED
    BY <2>5, <2>6, <2>7 DEF SignalInv
<1> QED
  BY <1>2, <1>3, <1>4

\* A poster's new target replaces none.
LEMMA NewTarget ==
    ASSUME SigType, KickInv, NEW k \in Poster, kpc[k] # "kick",
           NEW target \in Thread \cup {None},
           kick' = [kick EXCEPT ![k] = target], kpc' = [kpc EXCEPT ![k] = "kick"],
           UNCHANGED <<sig, mkick>>
    PROVE  /\ KickInv' /\ \A u \in Thread : Kicked(u) => Kicked(u)'
           /\ target # None => Kicked(target)'
  BY NoneIsNeither DEF KickInv, Kicked, SigType


\* A wakeup puts the context on the list of its worker, which is signalled if
\* it has no context; a worker that was handed one is signalled already.
LEMMA WakeupAsleepSignals ==
    ASSUME CoreType, SigType, SInv, PosterInv, SignalInv, NEW k \in Poster,
           WakeupAsleep(k)
    PROVE  SignalInv'
<1>1. /\ kpc[k] = "awaken" /\ kpc' = [kpc EXCEPT ![k] = "kick"]
      /\ UNCHANGED <<tpc, tctx, sig, sleep_threads, ctx_queue, need_config_reload,
                     terminate, mkick>>
  BY DEF WakeupAsleep, pool, flags, main
<1>2. CASE UNCHANGED <<wakeup_list, kick>>
  <2>1. KickInv'
    BY <1>1, <1>2 DEF SignalInv, KickInv, SigType
  <2>2. Quiet
    BY <1>1, <1>2, SameLists DEF Quiet, Kicked
  <2> QED
    BY <2>1, <2>2, QuietStep
<1>3. CASE ~UNCHANGED <<wakeup_list, kick>>
  <2>1. PICK t : t = cthread[kctx[k]]
    OBVIOUS
  <2>2. /\ t # None /\ kick' = [kick EXCEPT ![k] = WakeTarget(t)]
        /\ wakeup_list' = [wakeup_list EXCEPT
                              ![t][priority[kctx[k]]] = Append(@, kctx[k])]
    BY <1>3, <2>1 DEF WakeupAsleep
  <2>3. kctx[k] \in Ctx
    BY DEF WakeupAsleep, PosterInv, CoreType
  <2>4. t \in Thread
    BY <2>1, <2>2, <2>3 DEF CoreType
  <2>5. \A u \in Thread : u # t => (Woken(u)' <=> Woken(u))
    BY <2>2, <2>4 DEF Woken, CoreType
  <2>6. PICK target \in {t, None} : target = WakeTarget(t)
    BY DEF WakeTarget
  <2>7. /\ KickInv' /\ \A u \in Thread : Kicked(u) => Kicked(u)'
        /\ target # None => Kicked(target)'
    BY <1>1, <2>2, <2>4, <2>6, NewTarget DEF SignalInv
  <2>8. ListedInv'
    BY <1>1 DEF SignalInv, ListedInv, Elems
  <2>9. NoLostSignal'
    <3> SUFFICES ASSUME NEW u \in Thread, tpc'[u] \in {"slept", "sigwait"}
                 PROVE  /\ tctx'[u] # None => Kicked(u)'
                        /\ Woken(u)' => Kicked(u)' \/ need_config_reload' \/ terminate'
      BY DEF NoLostSignal, Woken
    <3>1. tctx'[u] # None => Kicked(u)'
      BY <1>1, <2>7 DEF SignalInv, NoLostSignal
    <3>2. CASE u = t
      BY <1>1, <2>4, <2>6, <2>7, <3>1, <3>2, NoneIsNeither DEF WakeTarget
    <3>3. CASE u # t
      BY <1>1, <2>5, <2>7, <3>1, <3>3 DEF SignalInv, NoLostSignal, Woken
    <3> QED
      BY <3>2, <3>3
  <2>10. WorkConserving'
    BY <1>1, <2>7 DEF SignalInv, WorkConserving
  <2> QED
    BY <2>7, <2>8, <2>9, <2>10 DEF SignalInv
<1> QED
  BY <1>2, <1>3

\* A worker takes the head of a list.
LEMMA DequeueSignals ==
    ASSUME CoreType, SigType, SignalInv, NEW t \in Thread, Dequeue(t)
    PROVE  SignalInv'
<1>1. /\ UNCHANGED <<kick, kpc, mkick, sig, sleep_threads, need_config_reload, terminate>>
      /\ \E c : tctx' = [tctx EXCEPT ![t] = c]
  BY DEF Dequeue, Take, pool, flags, posters, main
<1>2. PICK pc \in {"resume", "ctx"} : tpc' = [tpc EXCEPT ![t] = pc]
  BY DEF Dequeue, Take, Goto
<1>3. PICK p \in Prio :
        \/ /\ wakeup_list' = [wakeup_list EXCEPT ![t][p] = Tail(@)]
           /\ UNCHANGED ctx_queue
        \/ /\ ctx_queue[p] # << >>
           /\ UNCHANGED wakeup_list
  BY DEF Dequeue, TopPrio, HasWork
<1>4. (Queued' => Queued) /\ \A u \in Thread : u # t => (Woken(u)' => Woken(u))
  BY <1>3 DEF Queued, Woken, CoreType
<1> QED
  BY <1>1, <1>2, <1>4, BusyMove DEF Waiting

LEMMA WorkerSignals ==
    ASSUME CoreType, SigType, SInv, SignalInv, NEW t \in Thread,
           WorkerStep(t) \/ CallbackStep(t)
    PROVE  SignalInv'
<1>1. ASSUME NEW pc, pc \notin Waiting \cup {"reload"}, tpc' = [tpc EXCEPT ![t] = pc],
             \/ UNCHANGED tctx
             \/ \E c : tctx' = [tctx EXCEPT ![t] = c],
             need_config_reload => need_config_reload', terminate => terminate',
             UNCHANGED <<ctx_queue, wakeup_list, kick, kpc, mkick, sleep_threads>>,
             sig \subseteq sig'
      PROVE  SignalInv'
  BY <1>1, BusyMove, SameLists
<1> USE DEF Goto, Waiting, pool, queues, flags, posters, main
<1>2. CASE ReloadDone(t)
  BY <1>2, AllSignalled DEF ReloadDone
<1>3. CASE Leave(t)
  <2>1. PICK pc \in {"ctx", "drop", "dropfree"} : tpc' = [tpc EXCEPT ![t] = pc]
    BY <1>3 DEF Leave
  <2> QED
    BY <1>1, <1>3, <2>1 DEF Leave
<1>4. CASE Drop(t) \/ RunCall(t) \/ WorkDone(t) \/ Resume(t) \/ UnregisterBegin(t)
  BY <1>1, <1>4 DEF Drop, RunCall, WorkDone, Resume, UnregisterBegin
<1>5. CASE CheckClose(t) \/ HandlerReturn(t)
  <2>1. PICK pc \in {"handler", "leave", "ctx"} : tpc' = [tpc EXCEPT ![t] = pc]
    BY <1>5 DEF CheckClose, HandlerReturn
  <2>2. UNCHANGED <<tctx, pool, queues, flags, kick, kpc, mkick>>
    BY <1>5 DEF CheckClose, HandlerReturn
  <2> QED
    BY <1>1, <2>1, <2>2
<1>6. CASE UnregisterUnlink(t) \/ UnregisterSignal(t)
  <2>1. PICK pc \in {"unregsig", "handler"} : tpc' = [tpc EXCEPT ![t] = pc]
    BY <1>6 DEF UnregisterUnlink, UnregisterSignal
  <2>2. sig \subseteq sig'
    BY <1>6 DEF UnregisterUnlink, UnregisterSignal
  <2>3. UNCHANGED <<tctx, queues, kick, kpc, mkick, sleep_threads, need_config_reload>>
    BY <1>6 DEF UnregisterUnlink, UnregisterSignal
  <2>4. terminate => terminate'
    BY <1>6 DEF UnregisterUnlink, UnregisterSignal
  <2> QED
    BY <1>1, <2>1, <2>2, <2>3, <2>4
<1>7. CASE UnregisterDrain(t)
  <2>1. CASE tpc' = tpc
    BY <1>7, <2>1, StillStep DEF UnregisterDrain
  <2>2. CASE tpc' = [tpc EXCEPT ![t] = "unlink"]
    BY <1>1, <1>7, <2>2 DEF UnregisterDrain
  <2> QED
    BY <1>7, <2>1, <2>2 DEF UnregisterDrain
<1>8. CASE Schedule(t)
  <2>1. CASE UNCHANGED <<tpc, tctx>>
    BY <1>8, <2>1, StillStep DEF Schedule
  <2>2. CASE tpc' = [tpc EXCEPT ![t] = "loop"] /\ tctx' = [tctx EXCEPT ![t] = None]
    BY <1>1, <1>8, <2>2 DEF Schedule
  <2> QED
    BY <1>8, <2>1, <2>2 DEF Schedule
<1>9. CASE SetPriority(t) \/ ConfReload(t)
  BY <1>9, StillStep DEF SetPriority, ConfReload
<1> QED
  BY <1>2, <1>3, <1>4, <1>5, <1>6, <1>7, <1>8, <1>9, DequeueSignals,
     GoToSleepSignals, CheckTerminateSignals, SigWakeSignals
     DEF WorkerStep, CallbackStep


LEMMA PosterSignals ==
    ASSUME CoreType, SigType, SInv, PosterInv, SignalInv, NEW k \in Poster,
           PosterStep(k) \/ \E c \in Ctx : GetLive(k, c)
    PROVE  SignalInv'
<1> USE DEF pool, queues, flags, main
\* triton_queue_ctx with the target as the signal to send.
<1>1. ASSUME NEW c \in Ctx, NEW ini, QueueCtx(c, ini), kpc[k] # "kick",
             kick' = [kick EXCEPT ![k] = QueuedTo(c, ini)],
             kpc' = [kpc EXCEPT ![k] = "kick"],
             UNCHANGED <<tpc, wakeup_list, need_config_reload, terminate, sig, mkick>>
      PROVE  SignalInv'
  <2>1. PICK target : target = QueuedTo(c, ini)
    OBVIOUS
  <2>2. target \in Thread \cup {None}
    BY <2>1, HeadFacts DEF QueuedTo, NoIdleWorker, CoreType, SInv, ListInv, SleepOnce
  <2>3. /\ KickInv' /\ \A u \in Thread : Kicked(u) => Kicked(u)'
        /\ target # None => Kicked(target)'
    BY <1>1, <2>1, <2>2, NewTarget DEF SignalInv
  <2> QED
    BY <1>1, <2>1, <2>3, QueueCtxSignals
<1>2. CASE ContextCall(k)
  <2>1. kctx[k] \in Ctx
    BY <1>2 DEF ContextCall, PosterInv, CoreType
  <2> QED
    BY <1>1, <1>2, <2>1 DEF ContextCall
<1>3. CASE WakeupStart(k)
  <2>1. kctx[k] \in Ctx
    BY <1>3 DEF WakeupStart, PosterInv, CoreType
  <2>2. CASE pending[kctx[k]]
    BY <1>1, <1>3, <2>1, <2>2 DEF WakeupStart
  <2>3. CASE ~pending[kctx[k]]
    <3>1. /\ kpc[k] = "start" /\ kpc' = [kpc EXCEPT ![k] = "kick"]
          /\ UNCHANGED <<tpc, tctx, ctx_queue, wakeup_list, sleep_threads, kick,
                         mkick, sig, need_config_reload, terminate>>
      BY <1>3, <2>3 DEF WakeupStart
    <3> QED
      BY <3>1, StillStep
  <2> QED
    BY <2>2, <2>3
<1>4. CASE WakeupReadInit(k) \/ CancelCall(k) \/ Release(k)
  <2>1. \E x : kpc[k] # "kick" /\ kpc' = [kpc EXCEPT ![k] = x]
    BY <1>4 DEF WakeupReadInit, CancelCall, Release
  <2>2. UNCHANGED <<tpc, tctx, pool, queues, flags, kick, mkick>>
    BY <1>4 DEF WakeupReadInit, CancelCall, Release
  <2> QED
    BY <2>1, <2>2, StillStep
<1>5. CASE Kick(k)
  BY <1>5, SentSignals DEF Kick
<1>6. CASE \E c \in Ctx : GetLive(k, c)
  <2>1. \E x : kpc[k] # "kick" /\ kpc' = [kpc EXCEPT ![k] = x]
    BY <1>6 DEF GetLive
  <2>2. UNCHANGED <<tpc, tctx, pool, queues, flags, kick, mkick>>
    BY <1>6 DEF GetLive
  <2> QED
    BY <2>1, <2>2, StillStep
<1> QED
  BY <1>2, <1>3, <1>4, <1>5, <1>6, WakeupAsleepSignals DEF PosterStep

LEMMA MainSignals ==
    ASSUME CoreType, SigType, SInv, SignalInv,
           MainReload \/ Terminate \/ MainStep \/ \E c \in Ctx : Register(c)
    PROVE  SignalInv'
<1> USE DEF pool, queues, flags, posters
<1>1. ASSUME NEW c \in Ctx, TerminateClose(c)
      PROVE  SignalInv'
  <2>1. PICK target : target = QueuedTo(c, init[c])
    OBVIOUS
  <2>2. /\ KickInv' /\ \A u \in Thread : Kicked(u) => Kicked(u)'
        /\ target # None => Kicked(target)'
    BY <1>1, <2>1, NoneIsNeither DEF TerminateClose, SignalInv, KickInv, Kicked
  <2>3. QueueCtx(c, init[c]) /\ UNCHANGED <<tpc, wakeup_list, need_config_reload, terminate>>
    BY <1>1 DEF TerminateClose
  <2> QED
    BY <2>1, <2>2, <2>3, QueueCtxSignals
<1>2. CASE MainReload \/ Terminate \/ TerminateWait
  BY <1>2, StillStep DEF MainReload, Terminate, TerminateWait, main
<1>3. CASE MainReloadDone
  BY <1>3, AllSignalled DEF MainReloadDone
<1>4. CASE TerminateKick
  BY <1>4, SentSignals DEF TerminateKick
<1>5. CASE \E c \in Ctx : Register(c)
  BY <1>5, StillStep DEF Register, main
<1> QED
  BY <1>1, <1>2, <1>3, <1>4, <1>5 DEF MainStep


-----------------------------------------------------------------------------
(***************************************************************************)
(* Work.                                                                   *)
(***************************************************************************)
\* The part of TypeOK that speaks of work.
WorkType ==
    /\ tpc \in [Thread -> WorkerPC] /\ tctx \in [Thread -> Ctx \cup {None}]
    /\ cthread \in [Ctx -> Thread \cup {None}]
    /\ init \in [Ctx -> BOOLEAN] /\ need_free \in [Ctx -> BOOLEAN]
    /\ need_close \in [Ctx -> BOOLEAN] /\ pending \in [Ctx -> BOOLEAN]
    /\ asleep \in [Ctx -> BOOLEAN]
    /\ calls \in [Ctx -> SUBSET (Nat \X Func)]
    /\ callback \in [Ctx -> {"none", "call", "close"}]

LEMMA WorkTyped == ASSUME TypeOK PROVE WorkType
  BY DEF TypeOK, WorkType

\* The places that the invariant names.
InCallback == {"handler", "drain", "unlink", "unregsig"}

Named == InCallback \cup {"preclose", "leave"}

\* Nothing is taken from the queues, and the rest is unchanged.
Calm ==
    /\ UNCHANGED <<cthread, init, need_free, need_close, calls, pending,
                   callback, asleep>>
    /\ \A c \in Ctx : OnQueue(c)' <=> OnQueue(c)

\* A worker moves where the invariant says nothing.
LEMMA CalmMove ==
    ASSUME WorkType, WorkInv, Calm, NEW t,
           \/ UNCHANGED <<tpc, tctx>>
           \/ /\ tpc[t] \notin Named
              /\ \E pc : pc \notin Named /\ tpc' = [tpc EXCEPT ![t] = pc]
              /\ UNCHANGED tctx \/ \E c : tctx' = [tctx EXCEPT ![t] = c]
           \/ /\ tpc[t] \in InCallback
              /\ \E pc \in InCallback : tpc' = [tpc EXCEPT ![t] = pc]
              /\ UNCHANGED tctx
    PROVE  WorkInv'
<1> USE DEF Calm, WorkType
<1>1. NotStartedInv' /\ JobInv'
  BY DEF WorkInv, NotStartedInv, JobInv, HasJob
<1>2. LateCloseInv'
  BY DEF WorkInv, LateCloseInv, Named, InCallback
<1>3. CallbackInv'
  <2> SUFFICES ASSUME NEW c \in Ctx, callback'[c] # "none", ~asleep'[c]
               PROVE  \E u \in Thread : tctx'[u] = c /\ tpc'[u] \in InCallback
    BY DEF CallbackInv, InCallback
  <2>1. PICK u \in Thread : tctx[u] = c /\ tpc[u] \in InCallback
    BY DEF WorkInv, CallbackInv, InCallback
  <2>2. tctx'[u] = c /\ tpc'[u] \in InCallback
    BY <2>1 DEF Named, InCallback
  <2> QED
    BY <2>2
<1>4. LateCallInv'
  <2>1. \A c \in Ctx : Closing(c)' => Closing(c)
    BY DEF Closing, Named, InCallback
  <2> QED
    BY <2>1 DEF WorkInv, LateCallInv
<1> QED
  BY <1>1, <1>2, <1>3, <1>4 DEF WorkInv

\* Who is in a callback of c, or past its work loop, is its worker.
LEMMA OnlyRunner ==
    ASSUME CoreType, SInv, NEW t \in Thread, tpc[t] \in Executing,
           NEW u \in Thread, tctx[u] = tctx[t], tpc[u] \in Executing
    PROVE  u = t
  BY Runner, OneServer

\* The callback of a context whose worker is in none has returned.
LEMMA NoCallback ==
    ASSUME CoreType, SInv, WorkType, WorkInv, NEW t \in Thread,
           tpc[t] \in Executing \ (InCallback \cup {"resume"})
    PROVE  callback[tctx[t]] = "none"
<1>1. tctx[t] \in Ctx /\ ~asleep[tctx[t]]
  BY Runner
<1>2. \A u \in Thread : tctx[u] = tctx[t] /\ tpc[u] \in InCallback => u = t
  BY OnlyRunner DEF InCallback, Executing
<1> QED
  BY <1>1, <1>2 DEF WorkInv, CallbackInv, InCallback

LEMMA RunCallWork ==
    ASSUME CoreType, SInv, WorkType, WorkInv, NEW t \in Thread, RunCall(t)
    PROVE  WorkInv'
<1>1. PICK c : c = tctx[t]
  OBVIOUS
<1>2. /\ tpc[t] = "ctx" /\ tpc' = [tpc EXCEPT ![t] = "handler"]
      /\ calls' = [calls EXCEPT ![c] = @ \ {First(@)}]
      /\ callback' = [callback EXCEPT ![c] = "call"]
      /\ UNCHANGED <<tctx, ctx_queue, cthread, asleep, init, need_free, need_close, pending>>
  BY <1>1 DEF RunCall, Goto, queues, sched, life
<1>3. /\ c \in Ctx /\ cthread[c] = t /\ cthread[c] # None
      /\ \A u \in Thread : tctx[u] = c /\ tpc[u] \in Executing => u = t
  BY <1>1, <1>2, Runner, OnlyRunner, NoneIsNeither DEF Executing
<1>4. /\ \A d \in Ctx : OnQueue(d)' <=> OnQueue(d)
      /\ \A d \in Ctx : calls'[d] # {} => calls[d] # {}
  BY <1>2, <1>3 DEF OnQueue, WorkType
<1> USE DEF WorkType
<1>5. NotStartedInv'
  BY <1>2, <1>3, <1>4 DEF WorkInv, NotStartedInv, HasJob
<1>6. JobInv'
  BY <1>2, <1>3, <1>4 DEF WorkInv, JobInv, HasJob
<1>7. LateCloseInv'
  BY <1>2 DEF WorkInv, LateCloseInv
<1>8. CallbackInv'
  BY <1>1, <1>2, <1>3 DEF WorkInv, CallbackInv
<1>9. LateCallInv'
  <2>1. ~Closing(c)'
    BY <1>1, <1>2, <1>3 DEF Closing, Executing
  <2>2. \A d \in Ctx : d # c /\ Closing(d)' => Closing(d)
    BY <1>1, <1>2 DEF Closing
  <2> QED
    BY <1>2, <1>3, <1>4, <2>1, <2>2 DEF WorkInv, LateCallInv
<1> QED
  BY <1>5, <1>6, <1>7, <1>8, <1>9 DEF WorkInv

LEMMA WorkDoneWork ==
    ASSUME CoreType, SInv, WorkType, WorkInv, NEW t \in Thread, WorkDone(t)
    PROVE  WorkInv'
<1>1. PICK c : c = tctx[t]
  OBVIOUS
<1>2. /\ tpc[t] = "ctx" /\ tpc' = [tpc EXCEPT ![t] = "preclose"]
      /\ calls[c] = {} /\ pending' = [pending EXCEPT ![c] = FALSE]
      /\ UNCHANGED <<tctx, ctx_queue, cthread, asleep, init, need_free, need_close,
                     calls, callback>>
  BY <1>1 DEF WorkDone, Goto, queues, sched, life
<1>3. /\ c \in Ctx /\ cthread[c] = t /\ cthread[c] # None
      /\ \A u \in Thread : tctx[u] = c /\ tpc[u] \in Executing => u = t
  BY <1>1, <1>2, Runner, OnlyRunner, NoneIsNeither DEF Executing
<1>4. \A d \in Ctx : OnQueue(d)' <=> OnQueue(d)
  BY <1>2 DEF OnQueue
<1> USE DEF WorkType
<1>5. NotStartedInv'
  BY <1>2, <1>3, <1>4 DEF WorkInv, NotStartedInv, HasJob
<1>6. JobInv'
  BY <1>2, <1>3, <1>4 DEF WorkInv, JobInv, HasJob
<1>7. LateCloseInv'
  BY <1>2, <1>3 DEF WorkInv, LateCloseInv, Executing
<1>8. CallbackInv'
  BY <1>1, <1>2, <1>3 DEF WorkInv, CallbackInv
<1>9. LateCallInv'
  <2>2. \A d \in Ctx : d # c /\ Closing(d)' => Closing(d)
    BY <1>1, <1>2 DEF Closing
  <2> QED
    BY <1>2, <1>3, <2>2 DEF WorkInv, LateCallInv
<1> QED
  BY <1>5, <1>6, <1>7, <1>8, <1>9 DEF WorkInv


LEMMA CheckCloseWork ==
    ASSUME CoreType, SInv, WorkType, WorkInv, NEW t \in Thread, CheckClose(t)
    PROVE  WorkInv'
<1>1. PICK c : c = tctx[t]
  OBVIOUS
<1>2. /\ tpc[t] = "preclose"
      /\ \/ /\ callback' = [callback EXCEPT ![c] = "close"]
            /\ tpc' = [tpc EXCEPT ![t] = "handler"]
         \/ /\ ~need_close[c] \/ need_free[c]
            /\ tpc' = [tpc EXCEPT ![t] = "leave"] /\ UNCHANGED callback
      /\ UNCHANGED <<tctx, ctx_queue, cthread, asleep, init, need_free, need_close,
                     calls, pending>>
  BY <1>1 DEF CheckClose, Goto, queues, sched, life
<1>3. /\ c \in Ctx
      /\ \A u \in Thread : tctx[u] = c /\ tpc[u] \in Executing => u = t
  BY <1>1, <1>2, Runner, OnlyRunner DEF Executing
<1>4. \A d \in Ctx : OnQueue(d)' <=> OnQueue(d)
  BY <1>2 DEF OnQueue
<1> USE DEF WorkType
<1>5. NotStartedInv' /\ JobInv'
  BY <1>2, <1>4 DEF WorkInv, NotStartedInv, JobInv, HasJob
<1>6. LateCloseInv'
  BY <1>1, <1>2 DEF WorkInv, LateCloseInv
<1>7. CallbackInv'
  BY <1>1, <1>2, <1>3 DEF WorkInv, CallbackInv
<1>8. LateCallInv'
  <2>1. \A d \in Ctx : Closing(d)' => Closing(d)
    BY <1>1, <1>2 DEF Closing
  <2> QED
    BY <1>2, <2>1 DEF WorkInv, LateCallInv
<1> QED
  BY <1>5, <1>6, <1>7, <1>8 DEF WorkInv

LEMMA HandlerReturnWork ==
    ASSUME CoreType, SInv, WorkType, WorkInv, NEW t \in Thread, HandlerReturn(t)
    PROVE  WorkInv'
<1>1. PICK c : c = tctx[t]
  OBVIOUS
<1>2. /\ tpc[t] = "handler" /\ callback' = [callback EXCEPT ![c] = "none"]
      /\ \/ tpc' = [tpc EXCEPT ![t] = "ctx"] /\ UNCHANGED need_close
         \/ /\ callback[c] = "close"
            /\ need_close' = [need_close EXCEPT ![c] = FALSE]
            /\ tpc' = [tpc EXCEPT ![t] = "leave"]
      /\ UNCHANGED <<tctx, ctx_queue, cthread, asleep, init, need_free, calls, pending>>
  BY <1>1 DEF HandlerReturn, Goto, queues, sched, life
<1>3. /\ c \in Ctx
      /\ \A u \in Thread : tctx[u] = c /\ tpc[u] \in Executing => u = t
  BY <1>1, <1>2, Runner, OnlyRunner DEF Executing
<1>4. \A d \in Ctx : OnQueue(d)' <=> OnQueue(d)
  BY <1>2 DEF OnQueue
<1> USE DEF WorkType
<1>5. NotStartedInv' /\ JobInv'
  <2>1. \A d \in Ctx : HasJob(d)' => HasJob(d)
    BY <1>2, <1>3 DEF HasJob
  <2> QED
    BY <1>2, <1>4, <2>1 DEF WorkInv, NotStartedInv, JobInv
<1>6. LateCloseInv'
  <2> SUFFICES ASSUME NEW u \in Thread, tpc'[u] = "leave", need_close'[tctx'[u]],
                      ~need_free'[tctx'[u]]
               PROVE  pending'[tctx'[u]]
    BY DEF LateCloseInv
  <2>1. u # t
    BY <1>1, <1>2, <1>3
  <2>2. tpc[u] = "leave" /\ tctx[u] \in Ctx
    BY <1>2, <2>1, Runner DEF Executing
  <2> QED
    BY <1>2, <1>3, <2>2 DEF WorkInv, LateCloseInv
<1>7. CallbackInv'
  BY <1>1, <1>2, <1>3 DEF WorkInv, CallbackInv
<1>8. LateCallInv'
  <2>1. \A d \in Ctx : Closing(d)' => Closing(d)
    BY <1>1, <1>2, <1>3 DEF Closing
  <2> QED
    BY <1>2, <2>1 DEF WorkInv, LateCallInv
<1> QED
  BY <1>5, <1>6, <1>7, <1>8 DEF WorkInv

\* The worker lets the context go only when nothing came in meanwhile.
LEMMA LeaveWork ==
    ASSUME CoreType, SInv, WorkType, WorkInv, NEW t \in Thread, Leave(t)
    PROVE  WorkInv'
<1>1. PICK c : c = tctx[t]
  OBVIOUS
<1>2. /\ tpc[t] = "leave"
      /\ \/ tpc' = [tpc EXCEPT ![t] = "ctx"] /\ UNCHANGED cthread
         \/ /\ ~pending[c] \/ need_free[c]
            /\ \E pc \in {"drop", "dropfree"} : tpc' = [tpc EXCEPT ![t] = pc]
            /\ cthread' = [cthread EXCEPT ![c] = None]
      /\ UNCHANGED <<tctx, ctx_queue, asleep, init, need_free, need_close, calls,
                     pending, callback>>
  BY <1>1 DEF Leave, MustRerun, Goto, queues, life, work
<1>3. /\ c \in Ctx /\ ~asleep[c]
      /\ \A u \in Thread : tctx[u] = c /\ tpc[u] \in Executing => u = t
  BY <1>1, <1>2, Runner, OnlyRunner DEF Executing
<1>4. \A d \in Ctx : OnQueue(d)' <=> OnQueue(d)
  BY <1>2 DEF OnQueue
<1> USE DEF WorkType
<1>5. NotStartedInv'
  BY <1>2, <1>4 DEF WorkInv, NotStartedInv, HasJob
<1>6. JobInv'
  <2>1. Closing(c)
    BY <1>1, <1>2 DEF Closing
  <2>2. HasJob(c) /\ ~need_free[c] => pending[c]
    BY <1>1, <1>2, <1>3, <2>1 DEF HasJob, WorkInv, LateCloseInv, LateCallInv
  <2> QED
    BY <1>2, <1>3, <1>4, <2>2 DEF WorkInv, JobInv, HasJob
<1>7. LateCloseInv'
  BY <1>1, <1>2 DEF WorkInv, LateCloseInv
<1>8. CallbackInv'
  BY <1>1, <1>2, <1>3 DEF WorkInv, CallbackInv
<1>9. LateCallInv'
  <2>1. \A d \in Ctx : Closing(d)' => Closing(d)
    BY <1>1, <1>2 DEF Closing
  <2> QED
    BY <1>2, <2>1 DEF WorkInv, LateCallInv
<1> QED
  BY <1>5, <1>6, <1>7, <1>8, <1>9 DEF WorkInv

\* A callback sleeps or is resumed.
LEMMA SleepWork ==
    ASSUME CoreType, SInv, WorkType, WorkInv, NEW t \in Thread,
           Schedule(t) \/ Resume(t)
    PROVE  WorkInv'
<1>1. PICK c : c = tctx[t]
  OBVIOUS
<1>2. /\ \/ /\ tpc[t] = "handler" /\ UNCHANGED <<tpc, tctx>>
            /\ asleep' = [asleep EXCEPT ![c] = FALSE]
         \/ /\ tpc[t] = "handler" /\ tpc' = [tpc EXCEPT ![t] = "loop"]
            /\ tctx' = [tctx EXCEPT ![t] = None]
            /\ asleep' = [asleep EXCEPT ![c] = TRUE]
         \/ /\ tpc[t] = "resume" /\ tpc' = [tpc EXCEPT ![t] = "handler"]
            /\ asleep' = [asleep EXCEPT ![c] = FALSE] /\ UNCHANGED tctx
      /\ UNCHANGED <<ctx_queue, cthread, init, need_free, need_close, calls,
                     pending, callback>>
  BY <1>1 DEF Schedule, Resume, Goto, queues, life, work
<1>3. /\ c \in Ctx
      /\ \A u \in Thread : tctx[u] = c /\ tpc[u] \in Executing => u = t
  BY <1>1, <1>2, Runner, OnlyRunner DEF Executing
<1>4. \A d \in Ctx : OnQueue(d)' <=> OnQueue(d)
  BY <1>2 DEF OnQueue
<1> USE DEF WorkType
<1>5. NotStartedInv' /\ JobInv'
  BY <1>2, <1>4 DEF WorkInv, NotStartedInv, JobInv, HasJob
<1>6. LateCloseInv'
  BY <1>1, <1>2 DEF WorkInv, LateCloseInv
<1>7. CallbackInv'
  BY <1>1, <1>2, <1>3 DEF WorkInv, CallbackInv
<1>8. LateCallInv'
  <2>1. \A d \in Ctx : Closing(d)' => Closing(d)
    BY <1>1, <1>2 DEF Closing
  <2> QED
    BY <1>2, <2>1 DEF WorkInv, LateCallInv
<1> QED
  BY <1>5, <1>6, <1>7, <1>8 DEF WorkInv

\* Calls are dropped, by the unregistration or by triton_cancel_call.
LEMMA DropWork ==
    ASSUME CoreType, SInv, WorkType, WorkInv, NEW t,
           \A c \in Ctx : calls'[c] # {} => calls[c] # {},
           \A c \in Ctx : need_free[c] => need_free'[c],
           \/ UNCHANGED tpc
           \/ /\ tpc[t] = "drain" /\ tpc' = [tpc EXCEPT ![t] = "unlink"],
           UNCHANGED <<tctx, ctx_queue, cthread, asleep, init, need_close,
                       pending, callback>>
    PROVE  WorkInv'
<1>1. \A d \in Ctx : OnQueue(d)' <=> OnQueue(d)
  BY DEF OnQueue
<1> USE DEF WorkType
<1>2. NotStartedInv' /\ JobInv'
  BY <1>1 DEF WorkInv, NotStartedInv, JobInv, HasJob
<1>3. LateCloseInv'
  <2> SUFFICES ASSUME NEW u \in Thread, tpc'[u] = "leave", need_close'[tctx'[u]],
                      ~need_free'[tctx'[u]]
               PROVE  pending'[tctx'[u]]
    BY DEF LateCloseInv
  <2>1. tpc[u] = "leave" /\ tctx[u] \in Ctx
    BY Runner DEF Executing
  <2> QED
    BY <2>1 DEF WorkInv, LateCloseInv
<1>4. CallbackInv'
  BY DEF WorkInv, CallbackInv
<1>5. LateCallInv'
  <2>1. \A d \in Ctx : Closing(d)' => Closing(d)
    BY DEF Closing
  <2> QED
    BY <2>1 DEF WorkInv, LateCallInv
<1> QED
  BY <1>2, <1>3, <1>4, <1>5 DEF WorkInv


\* What stays in an array of queues when the head of one is taken, and when
\* an element is added.
LEMMA PopKeeps ==
    ASSUME NEW f \in [Prio -> Seq(Ctx)], NEW p \in Prio, f[p] # << >>, NEW g,
           g = [f EXCEPT ![p] = Tail(f[p])], NEW d, InSome(f, d), d # Head(f[p])
    PROVE  InSome(g, d)
<1>1. PICK q \in Prio : d \in Elems(f[q])
  BY DEF InSome
<1>2. CASE q = p
  <2>1. PICK i \in 1 .. Len(f[p]) : d = f[p][i]
    BY <1>1, <1>2 DEF Elems
  <2>2. f[p] \in Seq(Ctx) /\ f[p] # << >>
    OBVIOUS
  <2>3. /\ i # 1 /\ i - 1 \in 1 .. Len(Tail(f[p])) /\ Tail(f[p])[i - 1] = f[p][i]
        /\ DOMAIN Tail(f[p]) = 1 .. Len(Tail(f[p]))
    BY <2>1, <2>2
  <2> QED
    BY <2>1, <2>3 DEF InSome, Elems
<1>3. CASE q # p
  BY <1>1, <1>3 DEF InSome
<1> QED
  BY <1>2, <1>3

LEMMA PushKeeps ==
    ASSUME NEW f \in [Prio -> Seq(Ctx)], NEW p \in Prio, NEW c \in Ctx
    PROVE  /\ InSome(Pushed(f, p, c), c)
           /\ \A d : InSome(f, d) => InSome(Pushed(f, p, c), d)
<1> DEFINE g == Pushed(f, p, c)
<1>1. /\ f[p] \in Seq(Ctx) /\ Len(f[p]) \in Nat
      /\ DOMAIN f[p] = 1 .. Len(f[p])
      /\ DOMAIN Append(f[p], c) = 1 .. Len(f[p]) + 1
      /\ Append(f[p], c)[Len(f[p]) + 1] = c
      /\ \A i \in 1 .. Len(f[p]) : Append(f[p], c)[i] = f[p][i]
  OBVIOUS
<1>2. /\ g[p] = Append(f[p], c)
      /\ \A q \in Prio : q # p => g[q] = f[q]
  BY DEF Pushed
<1> HIDE DEF g
<1>3. Elems(f[p]) \subseteq Elems(g[p]) /\ c \in Elems(g[p])
  BY <1>1, <1>2 DEF Elems
<1>4. \A d : InSome(f, d) => InSome(g, d)
  BY <1>2, <1>3 DEF InSome
<1> QED
  BY <1>3, <1>4 DEF InSome, g

LEMMA DequeueWork ==
    ASSUME CoreType, SInv, WorkType, WorkInv, NEW t \in Thread, Dequeue(t)
    PROVE  WorkInv'
<1>1. /\ tpc[t] = "loop"
      /\ UNCHANGED <<asleep, init, need_free, need_close, calls, pending, callback>>
  BY DEF Dequeue, life, work
<1>2. PICK p \in Prio :
        \/ /\ wakeup_list[t][p] # << >> /\ Take(t, Head(wakeup_list[t][p]))
           /\ UNCHANGED ctx_queue
        \/ /\ ctx_queue[p] # << >> /\ Take(t, Head(ctx_queue[p]))
           /\ ctx_queue' = [ctx_queue EXCEPT ![p] = Tail(@)]
  BY DEF Dequeue, TopPrio, HasWork
<1>3. CASE wakeup_list[t][p] # << >> /\ Take(t, Head(wakeup_list[t][p])) /\ UNCHANGED ctx_queue
  <2>1. PICK c : c = Head(wakeup_list[t][p])
    OBVIOUS
  <2>2. OnWake(t, c) /\ c \in Ctx
    <3>1. wakeup_list[t] \in [Prio -> Seq(Ctx)] /\ OnceIn(wakeup_list[t])
      BY DEF CoreType, SInv, ListInv, WakeOnce
    <3> QED
      BY <1>3, <2>1, <3>1, PopFacts DEF OnWake
  <2>3. asleep[c] /\ wakeup[c]
    BY <2>2 DEF SInv, ListInv, WakeInv
  <2>4. /\ tpc' = [tpc EXCEPT ![t] = "resume"] /\ UNCHANGED cthread
        /\ tctx' = [tctx EXCEPT ![t] = c]
    BY <1>3, <2>1, <2>3 DEF Take, Goto
  <2>5. Calm
    BY <1>1, <1>3, <2>4 DEF Calm, OnQueue
  <2> QED
    BY <1>1, <2>4, <2>5, CalmMove DEF Named, InCallback
<1>4. CASE /\ ctx_queue[p] # << >> /\ Take(t, Head(ctx_queue[p]))
           /\ ctx_queue' = [ctx_queue EXCEPT ![p] = Tail(@)]
  <2>1. PICK c : c = Head(ctx_queue[p])
    OBVIOUS
  <2>2. /\ c \in Ctx /\ OnQueue(c)
        /\ \A d : OnQueue(d)' => OnQueue(d)
        /\ \A d : OnQueue(d) /\ d # c => OnQueue(d)'
    <3>1. /\ OnceIn(ctx_queue) /\ ctx_queue \in [Prio -> Seq(Ctx)]
          /\ ctx_queue' = [ctx_queue EXCEPT ![p] = Tail(ctx_queue[p])]
      BY <1>4 DEF CoreType, SInv, ListInv, QueueOnce
    <3>2. /\ c \in Ctx /\ InSome(ctx_queue, c)
          /\ \A d : InSome(ctx_queue', d) => InSome(ctx_queue, d)
      BY <1>4, <2>1, <3>1, PopFacts
    <3>3. \A d : InSome(ctx_queue, d) /\ d # c => InSome(ctx_queue', d)
      BY <1>4, <2>1, <3>1, PopKeeps
    <3> QED
      BY <3>2, <3>3 DEF OnQueue
  <2>3. ~asleep[c] /\ ~init[c]
    BY <2>2 DEF SInv, ListInv, QueueInv, CtxInv, WorkInv, NotStartedInv
  <2>4. /\ tpc' = [tpc EXCEPT ![t] = "ctx"] /\ tctx' = [tctx EXCEPT ![t] = c]
        /\ cthread' = [cthread EXCEPT ![c] = t]
    BY <1>4, <2>1, <2>3 DEF Take, Goto
  <2> USE DEF WorkType
  <2>5. NotStartedInv'
    BY <1>1, <2>2, <2>3, <2>4 DEF WorkInv, NotStartedInv, HasJob
  <2>6. JobInv'
    BY <1>1, <2>2, <2>4, NoneIsNeither DEF WorkInv, JobInv, HasJob
  <2>7. LateCloseInv'
    BY <1>1, <2>4 DEF WorkInv, LateCloseInv
  <2>8. CallbackInv'
    BY <1>1, <2>4 DEF WorkInv, CallbackInv
  <2>9. LateCallInv'
    <3>1. \A d \in Ctx : Closing(d)' => Closing(d)
      BY <1>1, <2>4 DEF Closing
    <3> QED
      BY <1>1, <3>1 DEF WorkInv, LateCallInv
  <2> QED
    BY <2>5, <2>6, <2>7, <2>8, <2>9 DEF WorkInv
<1> QED
  BY <1>2, <1>3, <1>4

\* triton_queue_ctx for work that was posted, or at the start of a context.
LEMMA QueueCtxWork ==
    ASSUME CoreType, SInv, WorkType, WorkInv, NEW c \in Ctx, NEW ini \in BOOLEAN,
           QueueCtx(c, ini), init' = [init EXCEPT ![c] = ini], ini => init[c],
           \A d \in Ctx : d # c => calls'[d] = calls[d] /\ need_close'[d] = need_close[d],
           UNCHANGED <<tpc, asleep, need_free, callback>>
    PROVE  WorkInv'
<1>1. pending' = [pending EXCEPT ![c] = TRUE]
  BY DEF QueueCtx
<1>2. /\ \A d \in Ctx : OnQueue(d) => OnQueue(d)'
      /\ \A d \in Ctx : d # c /\ OnQueue(d)' => OnQueue(d)
      /\ \A d \in Ctx : d # c => cthread'[d] = cthread[d]
      /\ ~ini /\ ~need_free[c] => OnQueue(c)' \/ cthread'[c] # None
      /\ ini => (OnQueue(c)' <=> OnQueue(c)) /\ cthread'[c] = cthread[c]
      /\ \A u \in Thread : tpc[u] \in Executing => tctx'[u] = tctx[u]
      /\ \A u \in Thread : tctx'[u] # tctx[u] => tpc[u] \in Idle
  <2>1. CASE Settled(c, ini)
    <3>1. UNCHANGED <<ctx_queue, cthread, tctx>>
      BY <2>1 DEF QueueCtx
    <3>2. \A d : OnQueue(d)' <=> OnQueue(d)
      BY <3>1 DEF OnQueue
    <3>3. Linked(c) => OnQueue(c) \/ cthread[c] # None
      <4>1. Linked(c) => OnQueue(c) \/ \E u \in Thread : OnWake(u, c)
        BY DEF Linked, OnQueue, OnWake, InSome
      <4> QED
        BY <4>1, NoneIsNeither DEF SInv, ListInv, WakeInv
    <3> QED
      BY <2>1, <3>1, <3>2, <3>3 DEF Settled
  <2>2. CASE ~Settled(c, ini) /\ NoIdleWorker
    <3>1. /\ ctx_queue' = [ctx_queue EXCEPT ![priority[c]] = Append(@, c)]
          /\ UNCHANGED <<cthread, tctx>> /\ ~ini
      BY <2>2 DEF QueueCtx, Settled
    <3>2. PICK p \in Prio : ctx_queue' = Pushed(ctx_queue, p, c)
      BY <3>1 DEF Pushed, CoreType
    <3>3. OnceIn(ctx_queue) /\ ctx_queue \in [Prio -> Seq(Ctx)] /\ ~InSome(ctx_queue, c)
      BY <2>2 DEF CoreType, SInv, ListInv, QueueOnce, Settled, Linked, InSome
    <3>4. /\ InSome(ctx_queue', c)
          /\ \A d : InSome(ctx_queue, d) => InSome(ctx_queue', d)
          /\ \A d : InSome(ctx_queue', d) => InSome(ctx_queue, d) \/ d = c
      BY <3>2, <3>3, PushKeeps, PushFacts
    <3> QED
      BY <3>1, <3>4 DEF OnQueue
  <2>3. CASE ~Settled(c, ini) /\ ~NoIdleWorker
    <3>1. PICK w : w = Head(sleep_threads)
      OBVIOUS
    <3>2. /\ cthread' = [cthread EXCEPT ![c] = w] /\ tctx' = [tctx EXCEPT ![w] = c]
          /\ UNCHANGED ctx_queue /\ sleep_threads # << >> /\ ~ini
      BY <2>3, <3>1 DEF QueueCtx, NoIdleWorker, Settled
    <3>3. w \in Thread /\ tpc[w] \in Idle
      BY <3>1, <3>2, HeadFacts DEF CoreType, SInv, ListInv, SleepOnce, SleepInv
    <3>4. \A d : OnQueue(d)' <=> OnQueue(d)
      BY <3>2 DEF OnQueue
    <3> QED
      BY <3>2, <3>3, <3>4, NoneIsNeither DEF CoreType, Idle, Executing
  <2> QED
    BY <2>1, <2>2, <2>3
<1> USE DEF WorkType
<1>3. NotStartedInv'
  BY <1>1, <1>2 DEF WorkInv, NotStartedInv, HasJob
<1>4. JobInv'
  BY <1>1, <1>2 DEF WorkInv, JobInv, HasJob
<1>5. LateCloseInv'
  <2> SUFFICES ASSUME NEW u \in Thread, tpc'[u] = "leave", need_close'[tctx'[u]],
                      ~need_free'[tctx'[u]]
               PROVE  pending'[tctx'[u]]
    BY DEF LateCloseInv
  <2>1. tpc[u] = "leave" /\ tctx[u] \in Ctx /\ tctx'[u] = tctx[u]
    BY <1>2, Runner DEF Executing
  <2> QED
    BY <1>1, <2>1 DEF WorkInv, LateCloseInv
<1>6. CallbackInv'
  <2> SUFFICES ASSUME NEW d \in Ctx, callback'[d] # "none", ~asleep'[d]
               PROVE  \E u \in Thread : tctx'[u] = d /\ tpc'[u] \in InCallback
    BY DEF CallbackInv, InCallback
  <2>1. PICK u \in Thread : tctx[u] = d /\ tpc[u] \in InCallback
    BY DEF WorkInv, CallbackInv, InCallback
  <2> QED
    BY <1>2, <2>1 DEF InCallback, Executing
<1>7. LateCallInv'
  <2>1. \A d \in Ctx : Closing(d)' => Closing(d)
    BY <1>2 DEF Closing, Executing
  <2> QED
    BY <1>1, <2>1 DEF WorkInv, LateCallInv
<1> QED
  BY <1>3, <1>4, <1>5, <1>6, <1>7 DEF WorkInv


LEMMA RegisterWork ==
    ASSUME CoreType, SInv, WorkType, WorkInv, NEW c \in Ctx, Register(c)
    PROVE  WorkInv'
<1>1. /\ refs[c] = 0
      /\ init' = [init EXCEPT ![c] = TRUE] /\ need_free' = [need_free EXCEPT ![c] = FALSE]
      /\ cthread' = [cthread EXCEPT ![c] = None] /\ asleep' = [asleep EXCEPT ![c] = FALSE]
      /\ pending' = [pending EXCEPT ![c] = FALSE]
      /\ need_close' = [need_close EXCEPT ![c] = FALSE]
      /\ calls' = [calls EXCEPT ![c] = {}]
      /\ callback' = [callback EXCEPT ![c] = "none"]
      /\ UNCHANGED <<tpc, tctx, ctx_queue>>
  BY DEF Register, queues
<1>2. ~OnQueue(c) /\ \A u \in Thread : tpc[u] \in Executing => tctx[u] # c /\ tctx[u] \in Ctx
  BY <1>1, Unreferenced, Runner
<1>3. \A d : OnQueue(d)' <=> OnQueue(d)
  BY <1>1 DEF OnQueue
<1> USE DEF WorkType
<1>4. NotStartedInv'
  BY <1>1, <1>2, <1>3 DEF WorkInv, NotStartedInv, HasJob
<1>5. JobInv'
  BY <1>1, <1>3 DEF WorkInv, JobInv, HasJob
<1>6. LateCloseInv'
  BY <1>1, <1>2 DEF WorkInv, LateCloseInv, Executing
<1>7. CallbackInv'
  BY <1>1, <1>2 DEF WorkInv, CallbackInv, Executing
<1>8. LateCallInv'
  <2>1. \A d \in Ctx : Closing(d)' => Closing(d)
    BY <1>1 DEF Closing
  <2> QED
    BY <1>1, <2>1 DEF WorkInv, LateCallInv
<1> QED
  BY <1>4, <1>5, <1>6, <1>7, <1>8 DEF WorkInv

LEMMA WorkerWork ==
    ASSUME CoreType, SInv, WorkType, WorkInv, NEW t \in Thread,
           WorkerStep(t) \/ CallbackStep(t)
    PROVE  WorkInv'
<1> USE DEF Goto, queues, sched, life, work
<1>1. ASSUME NEW pc, tpc' = [tpc EXCEPT ![t] = pc],
             tpc[t] \notin Named /\ pc \notin Named,
             UNCHANGED tctx \/ \E c : tctx' = [tctx EXCEPT ![t] = c],
             UNCHANGED <<ctx_queue, cthread, init, need_free, need_close, calls,
                         pending, callback, asleep>>
      PROVE  WorkInv'
  <2>1. Calm
    BY <1>1 DEF Calm, OnQueue
  <2> QED
    BY <1>1, <2>1, CalmMove
<1>2. CASE GoToSleep(t) \/ ReloadDone(t) \/ CheckTerminate(t) \/ SigWake(t)
  <2>1. PICK pc \in Idle \cup {"loop", "ctx"} : tpc' = [tpc EXCEPT ![t] = pc]
    BY <1>2 DEF GoToSleep, ReloadDone, CheckTerminate, SigWake, Idle
  <2>2. tpc[t] \in Idle \cup {"loop"}
    BY <1>2 DEF GoToSleep, ReloadDone, CheckTerminate, SigWake, Idle
  <2>3. UNCHANGED <<tctx, ctx_queue, cthread, init, need_free, need_close, calls,
                    pending, callback, asleep>>
    BY <1>2 DEF GoToSleep, ReloadDone, CheckTerminate, SigWake
  <2> QED
    BY <1>1, <2>1, <2>2, <2>3 DEF Named, InCallback, Idle
<1>3. CASE Drop(t)
  BY <1>1, <1>3 DEF Drop, Named, InCallback
<1>4. CASE UnregisterBegin(t) \/ UnregisterUnlink(t) \/ UnregisterSignal(t)
           \/ SetPriority(t) \/ ConfReload(t)
  <2>1. \/ UNCHANGED tpc
        \/ /\ tpc[t] \in InCallback
           /\ \E pc \in InCallback : tpc' = [tpc EXCEPT ![t] = pc]
    BY <1>4 DEF UnregisterBegin, UnregisterUnlink, UnregisterSignal, SetPriority,
       ConfReload, InCallback
  <2>2. UNCHANGED <<tctx, ctx_queue, cthread, init, need_free, need_close, calls,
                    pending, callback, asleep>>
    BY <1>4 DEF UnregisterBegin, UnregisterUnlink, UnregisterSignal, SetPriority,
       ConfReload
  <2>3. Calm
    BY <2>2 DEF Calm, OnQueue
  <2> QED
    BY <2>1, <2>2, <2>3, CalmMove
<1>5. CASE UnregisterDrain(t)
  <2>1. PICK c \in Ctx : c = tctx[t]
    BY <1>5, Runner DEF UnregisterDrain, Executing
  <2>2. /\ \A d \in Ctx : calls'[d] # {} => calls[d] # {}
        /\ \A d \in Ctx : need_free[d] => need_free'[d]
    BY <1>5, <2>1 DEF UnregisterDrain, WorkType
  <2>3. \/ UNCHANGED tpc
        \/ tpc[t] = "drain" /\ tpc' = [tpc EXCEPT ![t] = "unlink"]
    BY <1>5 DEF UnregisterDrain
  <2>4. UNCHANGED <<tctx, ctx_queue, cthread, asleep, init, need_close, pending, callback>>
    BY <1>5 DEF UnregisterDrain
  <2> QED
    BY <2>2, <2>3, <2>4, DropWork
<1> QED
  BY <1>2, <1>3, <1>4, <1>5, DequeueWork, LeaveWork, RunCallWork, WorkDoneWork,
     CheckCloseWork, HandlerReturnWork, SleepWork
     DEF WorkerStep, CallbackStep

\* The steps of the other threads change no place of a worker.
LEMMA OtherWork ==
    ASSUME CoreType, SInv, PosterInv, WorkType, WorkInv,
           \/ \E k \in Poster : PosterStep(k) \/ \E c \in Ctx : GetLive(k, c)
           \/ \E c \in Ctx : Register(c)
           \/ MainReload \/ Terminate \/ MainStep
    PROVE  WorkInv'
<1> USE DEF queues, sched, life, work
<1>1. ASSUME UNCHANGED <<tpc, tctx, ctx_queue, cthread, init, need_free, need_close,
                         calls, pending, callback, asleep>>
      PROVE  WorkInv'
  <2>1. Calm
    BY <1>1 DEF Calm, OnQueue
  <2> QED
    BY <1>1, <2>1, CalmMove
<1>2. ASSUME NEW k \in Poster, ContextCall(k)
      PROVE  WorkInv'
  <2>1. PICK c \in Ctx : c = kctx[k]
    BY <1>2 DEF ContextCall, PosterInv, CoreType
  <2>2. /\ QueueCtx(c, init[c]) /\ init[c] \in BOOLEAN
        /\ init' = [init EXCEPT ![c] = init[c]]
        /\ \A d \in Ctx : d # c => calls'[d] = calls[d] /\ need_close'[d] = need_close[d]
        /\ UNCHANGED <<tpc, asleep, need_free, callback>>
    BY <1>2, <2>1 DEF ContextCall, WorkType
  <2> QED
    BY <2>2, QueueCtxWork
<1>3. ASSUME NEW k \in Poster, WakeupStart(k)
      PROVE  WorkInv'
  <2>1. PICK c \in Ctx : c = kctx[k]
    BY <1>3 DEF WakeupStart, PosterInv, CoreType
  <2>2. /\ init' = [init EXCEPT ![c] = FALSE]
        /\ UNCHANGED <<tpc, asleep, need_free, callback, calls, need_close>>
    BY <1>3, <2>1 DEF WakeupStart
  <2>3. CASE QueueCtx(c, FALSE)
    BY <2>2, <2>3, QueueCtxWork
  <2>4. CASE ~pending[c] /\ UNCHANGED <<pending, ctx_queue, cthread, tctx>>
    <3>1. \A d : OnQueue(d)' <=> OnQueue(d)
      BY <2>4 DEF OnQueue
    <3>2. NotStartedInv' /\ JobInv'
      BY <2>2, <2>4, <3>1 DEF WorkType, WorkInv, NotStartedInv, JobInv, HasJob
    <3>3. LateCloseInv' /\ CallbackInv'
      BY <2>2, <2>4 DEF WorkInv, LateCloseInv, CallbackInv
    <3>4. LateCallInv'
      BY <2>2, <2>4 DEF WorkInv, LateCallInv, Closing
    <3> QED
      BY <3>2, <3>3, <3>4 DEF WorkInv
  <2> QED
    BY <1>3, <2>1, <2>3, <2>4 DEF WakeupStart
<1>4. ASSUME NEW k \in Poster, CancelCall(k)
      PROVE  WorkInv'
  <2>1. PICK c \in Ctx : c = kctx[k]
    BY <1>4 DEF CancelCall, PosterInv, CoreType
  <2>2. \A d \in Ctx : calls'[d] # {} => calls[d] # {}
    BY <1>4, <2>1 DEF CancelCall, WorkType
  <2> QED
    BY <1>4, <2>2, DropWork DEF CancelCall
<1>5. ASSUME NEW k \in Poster,
             \/ WakeupReadInit(k) \/ WakeupAsleep(k) \/ Kick(k) \/ Release(k)
             \/ \E c \in Ctx : GetLive(k, c)
      PROVE  WorkInv'
  <2>1. UNCHANGED <<tpc, tctx, ctx_queue, cthread, init, need_free, need_close,
                    calls, pending, callback, asleep>>
    BY <1>5 DEF WakeupReadInit, WakeupAsleep, Kick, Release, GetLive
  <2> QED
    BY <1>1, <2>1
<1>6. ASSUME NEW c \in Ctx, TerminateClose(c)
      PROVE  WorkInv'
  <2>1. /\ QueueCtx(c, init[c]) /\ init[c] \in BOOLEAN
        /\ init' = [init EXCEPT ![c] = init[c]]
        /\ \A d \in Ctx : d # c => calls'[d] = calls[d] /\ need_close'[d] = need_close[d]
        /\ UNCHANGED <<tpc, asleep, need_free, callback>>
    BY <1>6 DEF TerminateClose, WorkType
  <2> QED
    BY <2>1, QueueCtxWork
<1>7. CASE MainReload \/ Terminate \/ MainReloadDone \/ TerminateKick \/ TerminateWait
  <2>1. UNCHANGED <<tpc, tctx, ctx_queue, cthread, init, need_free, need_close,
                    calls, pending, callback, asleep>>
    BY <1>7 DEF MainReload, Terminate, MainReloadDone, TerminateKick, TerminateWait
  <2> QED
    BY <1>1, <2>1
<1> QED
  BY <1>2, <1>3, <1>4, <1>5, <1>6, <1>7, RegisterWork DEF PosterStep, MainStep


LEMMA WorkInit ==
    ASSUME Init
    PROVE  WInv
<1>1. /\ \A p \in Prio : ctx_queue[p] = << >>
      /\ \A t \in Thread, p \in Prio : wakeup_list[t][p] = << >>
  BY DEF Init
<1>2. SignalInv
  BY <1>1 DEF Init, SignalInv, KickInv, ListedInv, NoLostSignal, WorkConserving, Waiting
<1>3. \A c : ~OnQueue(c)
  BY <1>1 DEF OnQueue, InSome, Elems
<1>4. WorkInv
  BY <1>3 DEF Init, WorkInv, NotStartedInv, JobInv, LateCloseInv, CallbackInv,
     LateCallInv, Closing, HasJob
<1> QED
  BY <1>2, <1>4 DEF WInv

(***************************************************************************)
(* The inductive invariant of signals and work, on top of IInv.            *)
(***************************************************************************)
THEOREM WorkInvariant == Spec => []WInv
<1>1. Init => WInv
  BY WorkInit
<1>2. IInv /\ WInv /\ [Next]_vars => WInv'
  <2> SUFFICES ASSUME IInv, WInv, [Next]_vars
               PROVE  WInv'
    OBVIOUS
  <2>1. CoreType /\ SigType /\ WorkType /\ SInv /\ PosterInv /\ SignalInv /\ WorkInv
    BY CoreTyped, SigTyped, WorkTyped DEF IInv, WInv
  <2>2. CASE Next
    <3>1. SignalInv'
      BY <2>1, <2>2, WorkerSignals, PosterSignals, MainSignals DEF Next
    <3>2. WorkInv'
      BY <2>1, <2>2, WorkerWork, OtherWork DEF Next
    <3> QED
      BY <3>1, <3>2 DEF WInv
  <2>3. CASE UNCHANGED vars
    <3>1. SignalInv'
      BY <2>1, <2>3, StillStep DEF vars, pool, queues, flags, posters, main
    <3>2. Calm
      BY <2>3 DEF Calm, OnQueue, vars, queues, sched, life, work
    <3>3. WorkInv'
      BY <2>1, <2>3, <3>2, CalmMove DEF vars
    <3> QED
      BY <3>1, <3>3 DEF WInv
  <2> QED
    BY <2>2, <2>3
<1> QED
  BY <1>1, <1>2, SchedulerInvariant, PTL DEF Spec

(* Nothing asked of the pool is lost between its locks: posted calls and    *)
(* close requests have a queue or a worker that will look again, a context  *)
(* handed to an idle worker or woken on its list has a signal on its way,   *)
(* and a worker leaving sigwait is on the list it unlinks itself from       *)
(* (triton_queue_ctx, triton_context_call, triton_context_wakeup,           *)
(* triton_terminate, triton_thread).                                        *)
THEOREM WorkIsNotLost == Spec => []NoWorkLost
<1>1. ASSUME IInv, WInv
      PROVE  NoWorkLost
  <2>1. NoStrandedWork
    <3> SUFFICES ASSUME NEW c \in Ctx, ~init[c], ~need_free[c], calls[c] # {}
                 PROVE  /\ Linked(c) \/ cthread[c] # None
                        /\ \A t \in Thread :
                              tctx[t] = c /\ tpc[t] \in {"preclose", "leave"} => pending[c]
      BY DEF NoStrandedWork
    <3>1. OnQueue(c) => Linked(c)
      BY DEF OnQueue, InSome, Linked
    <3>2. Linked(c) \/ cthread[c] # None
      BY <1>1, <3>1 DEF WInv, WorkInv, JobInv, HasJob
    <3> QED
      BY <1>1, <3>2 DEF WInv, WorkInv, LateCallInv, Closing
  <2>2. CloseIsDelivered
    <3>1. \A c \in Ctx : OnQueue(c) => Linked(c)
      BY DEF OnQueue, InSome, Linked
    <3> QED
      BY <1>1, <3>1 DEF CloseIsDelivered, WInv, WorkInv, JobInv, HasJob
  <2>3. SleeperIsListed
    BY <1>1 DEF SleeperIsListed, WInv, SignalInv, ListedInv, Waiting
  <2> QED
    BY <1>1, <2>1, <2>2, <2>3 DEF NoWorkLost, WInv, SignalInv
<1> QED
  BY <1>1, SchedulerInvariant, WorkInvariant, PTL

(* No worker idles without a signal on its way while a context waits on a   *)
(* run queue, except during a reload or the shutdown (triton_queue_ctx and  *)
(* the main loop of triton_thread).                                         *)
THEOREM PoolConservesWork == Spec => []WorkConserving
<1>1. WInv => WorkConserving
  BY DEF WInv, SignalInv
<1> QED
  BY <1>1, WorkInvariant, PTL
=============================================================================
