------------------------------- MODULE Shaper -------------------------------
(***************************************************************************)
(* The rate limits of sessions: micro-bngd/shaper/shaper.c and limiter.c.  *)
(*                                                                         *)
(* A session's limits live in its shaper_pd_t: the speeds of every time    *)
(* range (tr_list), the current one (cur_tr), a temporary limit, the       *)
(* speeds believed to be installed and the index of its class on the ifb   *)
(* device.  Handlers of the session run in the session's own context; the  *)
(* commands "shaper change" and "shaper restore" and the timers of the     *)
(* time ranges run elsewhere, walk shaper_list under the read lock, take a *)
(* reference on every pd and post a call to the session's context.         *)
(***************************************************************************)
EXTENDS Integers, Sequences, FiniteSets

CONSTANTS Users,       \* sessions
          IfIndex,     \* [Users -> Nat], ses->ifindex
          Speeds,      \* pairs <<down, up>> used by commands and attributes
          Ranges,      \* identifiers of time ranges, 0 excluded
          Default,     \* <<dflt_down_speed, dflt_up_speed>>
          IntBits,     \* bits of an int; a word of idx_map has twice as many
          MaxIdx,      \* MAX_IDX
          MaxCommands  \* bound: commands, timers and CoA requests

VARIABLE shp

None == <<0, 0>>
NoRange == -1          \* cur_tr = NULL
Ids == {0} \cup Ranges
Word == 2 * IntBits
NoPd == [refs |-> 0, listed |-> FALSE, temp |-> None, speed |-> None,
         tr |-> [i \in {} |-> None], cur |-> NoRange, idx |-> 0]
Idle == [kind |-> "idle", todo |-> {}, val |-> None, at |-> {}]
Walkers == {"cli", "timer"}

ShaperInit ==
  shp = [ses |-> [u \in Users |-> "new"], pd |-> [u \in Users |-> NoPd],
         lim |-> [u \in Users |-> None],
         calls |-> [u \in Users |-> <<>>], temp |-> None, range |-> 0, armed |-> Ranges,
         map |-> ((0 .. (MaxIdx \div Word) - 1) \X (0 .. IntBits - 1)) \ {<<0, 0>>, <<0, 1>>},
         walk |-> [w \in Walkers |-> Idle], used |-> 0, crash |-> FALSE]

-----------------------------------------------------------------------------
(* The index of a session on the ifb device.  "1 << n" is a shift of an    *)
(* int and ffs() reads an int, so position n and n - IntBits of a word are *)
(* the same bit.                                                           *)

Bit(idx) == <<idx \div Word, (idx % Word) % IntBits>>

Lowest(map, i) == CHOOSE b \in map : b[1] = i /\ \A c \in map : c[1] = i => b[2] <= c[2]

alloc_idx(map, init) ==
  LET n == init % MaxIdx
      words == {b[1] : b \in map}
      up == {i \in words : i >= n \div Word}
      Least(S) == CHOOSE i \in S : \A j \in S : i <= j
      Found(i) == i * Word + Lowest(map, i)[2]
  IN IF Bit(n) \in map THEN n
     ELSE IF up # {} THEN Found(Least(up))
     ELSE IF words # {} THEN Found(Least(words))
     ELSE 0

free_idx(map, idx) == IF idx = 0 THEN map ELSE map \cup {Bit(idx)}

-----------------------------------------------------------------------------
(* Private data and time ranges of one session                             *)

\* find_pd with create: a new pd starts with one reference and is listed
find_pd(p) == IF p.refs > 0 THEN p ELSE [NoPd EXCEPT !.refs = 1, !.listed = TRUE]

get_tr_pd(p, id, range) ==
  [p EXCEPT !.tr = IF id \in DOMAIN p.tr THEN p.tr
                   ELSE [i \in {id} \cup DOMAIN p.tr |-> IF i = id THEN None ELSE p.tr[i]],
            !.cur = IF id = range THEN id ELSE @]

Keep(p, ids) == [p EXCEPT !.tr = [i \in ids |-> IF i \in DOMAIN p.tr THEN p.tr[i] ELSE None]]

\* ids: the time ranges named by the attributes of the packet; the speeds of
\* the attributes go to the session (module Dataplane), not to the time range
check_radius_attrs(p, ids, range) ==
  IF ids = {} THEN [p EXCEPT !.cur = NoRange]
  ELSE IF range \in ids THEN [Keep(p, ids) EXCEPT !.cur = range]
  ELSE [Keep(p, ids \cup {0}) EXCEPT !.cur = 0]

\* dropping a reference frees the pd with the last one
unref(p) == IF p.refs = 1 THEN NoPd ELSE [p EXCEPT !.refs = @ - 1]

-----------------------------------------------------------------------------
(* Handlers of the session, in its context                                 *)

\* the write lock of shaper_lock is free only when nobody walks the list
Unlocked == \A w \in Walkers : shp.walk[w].kind = "idle"

Creates(u) == shp.pd[u].refs > 0 \/ Unlocked

ev_radius_access_accept(u, ids) ==
  /\ shp.ses[u] = "new" /\ Creates(u)
  /\ shp' = [shp EXCEPT !.ses[u] = "starting",
                        !.pd[u] = check_radius_attrs(find_pd(@), ids, shp.range)]

ev_radius_coa(u, ids) ==
  /\ shp.ses[u] \in {"starting", "up"} /\ shp.pd[u].listed /\ shp.used < MaxCommands
  /\ shp' = [shp EXCEPT !.used = @ + 1, !.pd[u] = check_radius_attrs(@, ids, shp.range)]

\* an accepted user of chap-secrets: the event carries the rate of the user's line
ev_shaper(u) ==
  /\ shp.ses[u] = "new" /\ Creates(u)
  /\ shp' = [shp EXCEPT !.ses[u] = "starting",
                        !.pd[u] = get_tr_pd(find_pd(@), 0, shp.range)]

\* the installation that followed is commented out
ev_ppp_pre_up(u) ==
  /\ shp.ses[u] \in {"new", "starting"} /\ Creates(u)
  /\ LET p == find_pd(shp.pd[u])
     IN shp' = [shp EXCEPT !.ses[u] = "up",
          !.pd[u] = IF shp.temp # None THEN [p EXCEPT !.temp = shp.temp, !.speed = shp.temp]
                    ELSE IF p.cur # NoRange THEN [p EXCEPT !.speed = p.tr[p.cur]]
                    ELSE IF Default # None THEN [p EXCEPT !.speed = Default] ELSE p]

ev_ppp_finishing(u) ==
  /\ shp.ses[u] \in {"new", "starting", "up"} /\ Unlocked
  /\ shp' = [shp EXCEPT !.ses[u] = "finishing",
          !.map = IF shp.pd[u].listed THEN free_idx(@, shp.pd[u].idx) ELSE @,
          !.pd[u] = IF @.listed THEN unref([@ EXCEPT !.listed = FALSE]) ELSE @]

\* the session's context is unregistered: triton drops the calls it still has
Unregister(u) ==
  /\ shp.ses[u] = "finishing"
  /\ shp' = [shp EXCEPT !.ses[u] = "gone", !.calls[u] = <<>>, !.lim[u] = None]

-----------------------------------------------------------------------------
(* Calls posted to the session's context                                   *)

\* tbf or htb on the interface: the qdisc is created or replaced
install_down(old, down) == IF down # 0 THEN down ELSE old

\* the ingress policer of the interface, or its class on the ifb device
install_up(old, up) == IF up # 0 THEN up ELSE old

install_limiter(l, v) == <<install_down(l[1], v[1]), install_up(l[2], v[2])>>

remove_limiter == None

\* Mutant: the call drops a reference that is not its own as well.
Done_Twice(u) == [shp EXCEPT !.calls[u] = Tail(@), !.pd[u] = unref(unref(@))]

Done(u) == [shp EXCEPT !.calls[u] = Tail(@), !.pd[u] = unref(@)]

Set(u, old, v, idx) ==
  [Done(u) EXCEPT !.lim[u] = install_limiter(old, v),
     !.pd[u] = unref([shp.pd[u] EXCEPT !.speed = v, !.idx = idx]),
     !.map = IF idx # shp.pd[u].idx THEN @ \ {Bit(idx)} ELSE @]

\* the index a call uses: allocated on first need
Index(u, needed) ==
  IF needed /\ shp.pd[u].idx = 0 THEN alloc_idx(shp.map, IfIndex[u]) ELSE shp.pd[u].idx

shaper_change(u) ==
  LET p == shp.pd[u]
      old == IF p.speed # None THEN remove_limiter ELSE shp.lim[u]
      idx == Index(u, p.speed = None)
  IN /\ p.speed # None \/ p.idx # 0 \/ Unlocked
     /\ shp' = IF p.temp # None THEN Set(u, old, p.temp, idx)
               ELSE IF p.cur = NoRange THEN [shp EXCEPT !.crash = TRUE]
               ELSE Set(u, old, p.tr[p.cur], idx)

shaper_restore(u) ==
  LET p == shp.pd[u]
  IN shp' = Set(u, remove_limiter, IF p.cur # NoRange THEN p.tr[p.cur] ELSE None, p.idx)

update_shaper_tr(u) ==
  LET p == [shp.pd[u] EXCEPT !.cur = IF shp.range \in DOMAIN shp.pd[u].tr THEN shp.range ELSE @]
      v == IF p.cur # NoRange THEN p.tr[p.cur] ELSE None
      q == [Done(u) EXCEPT !.pd[u] = unref(p)]
      idx == Index(u, TRUE)
  IN IF p.temp # None \/ (p.speed # None /\ p.cur # NoRange /\ p.speed = v) THEN shp' = q
     ELSE IF v = None
     THEN shp' = [q EXCEPT !.lim[u] = IF p.speed # None THEN remove_limiter ELSE @]
     ELSE /\ p.idx # 0 \/ Unlocked
          /\ shp' = [q EXCEPT !.pd[u] = unref([p EXCEPT !.speed = v, !.idx = idx]),
                              !.map = IF idx # p.idx THEN @ \ {Bit(idx)} ELSE @,
                              !.lim[u] = install_limiter(IF p.speed # None THEN remove_limiter ELSE @, v)]

\* a call that finds its session ended only drops the reference
Call(u) ==
  /\ shp.calls[u] # <<>>
  /\ \/ shp.ses[u] = "finishing" /\ shp' = Done(u)
     \/ /\ shp.ses[u] \in {"starting", "up"}
        /\ \/ Head(shp.calls[u]) = "change" /\ shaper_change(u)
           \/ Head(shp.calls[u]) = "restore" /\ shaper_restore(u)
           \/ Head(shp.calls[u]) = "range" /\ update_shaper_tr(u)

-----------------------------------------------------------------------------
(* Commands and timers: walks of shaper_list under the read lock           *)

Listed == {u \in Users : shp.pd[u].listed}

Walk(w, kind, targets, v) ==
  /\ shp.walk[w].kind = "idle" /\ shp.used < MaxCommands
  /\ shp' = [shp EXCEPT !.used = @ + 1,
       !.walk[w] = [kind |-> kind, todo |-> targets \cap Listed, val |-> v, at |-> {}],
       !.temp = IF targets = Users /\ kind = "temp" THEN v
                ELSE IF targets = Users /\ kind = "restore" THEN None ELSE @,
       !.range = IF kind = "range" THEN v[1] ELSE @]

\* "shaper change <interface>|all <value> [temp]"
shaper_change_exec(targets, v, temp) == Walk("cli", IF temp THEN "temp" ELSE "change", targets, v)

\* "shaper restore <interface>|all"
shaper_restore_exec(targets) == Walk("cli", "restore", targets, None)

time_range_begin_timer(id) == id \in shp.armed /\ Walk("timer", "range", Users, <<id, 0>>)

time_range_end_timer == shp.armed # {} /\ Walk("timer", "range", Users, None)

\* a reload of the configuration, in the shaper's context: the timers are those
\* of the new ranges; one that holds at this moment begins at once, and
\* time_range_id is left alone when none does
load_time_ranges(ranges) ==
  /\ shp.walk["timer"].kind = "idle" /\ shp.used < MaxCommands
  /\ shp' = [shp EXCEPT !.armed = ranges, !.used = @ + 1]

Post(w, u, kind, p) ==
  shp' = [shp EXCEPT !.walk[w].todo = @ \ {u}, !.walk[w].at = {},
                     !.pd[u] = [p EXCEPT !.refs = @ + 1],
                     !.calls[u] = Append(@, kind)]

\* the test of cur_tr of a permanent change, and the use of cur_tr after it
ChangeTest(w, u) ==
  /\ shp.walk[w].kind = "change" /\ shp.walk[w].at = {}
  /\ shp' = [shp EXCEPT !.walk[w].at = {u},
       !.pd[u] = IF @.cur # NoRange THEN [@ EXCEPT !.temp = None]
                 ELSE [get_tr_pd(@, 0, shp.range) EXCEPT !.temp = None, !.cur = 0]]

ChangeSet(w, u) ==
  /\ shp.walk[w].kind = "change" /\ shp.walk[w].at = {u}
  /\ IF shp.pd[u].cur = NoRange THEN shp' = [shp EXCEPT !.crash = TRUE]
     ELSE Post(w, u, "change", [shp.pd[u] EXCEPT !.tr[shp.pd[u].cur] = shp.walk[w].val])

WalkStep(w, u) ==
  \/ ChangeTest(w, u)
  \/ ChangeSet(w, u)
  \/ /\ shp.walk[w].kind = "temp"
     /\ Post(w, u, "change", [shp.pd[u] EXCEPT !.temp = shp.walk[w].val])
  \/ /\ shp.walk[w].kind = "restore" /\ shp.pd[u].temp[1] # 0
     /\ Post(w, u, "restore", [shp.pd[u] EXCEPT !.temp = None])
  \/ /\ shp.walk[w].kind = "restore" /\ shp.pd[u].temp[1] = 0
     /\ shp' = [shp EXCEPT !.walk[w].todo = @ \ {u}]
  \/ /\ shp.walk[w].kind = "range"
     /\ Post(w, u, "range", shp.pd[u])

WalkEnd(w) ==
  /\ shp.walk[w].kind # "idle" /\ shp.walk[w].todo = {}
  /\ shp' = [shp EXCEPT !.walk[w] = Idle]

Targets == {Users} \cup {{u} : u \in Users}

ShaperNext ==
  /\ ~shp.crash
  /\ \/ \E u \in Users, ids \in SUBSET Ids :
          ev_radius_access_accept(u, ids) \/ ev_radius_coa(u, ids)
     \/ \E u \in Users : ev_shaper(u) \/ ev_ppp_pre_up(u) \/ ev_ppp_finishing(u) \/ Unregister(u) \/ Call(u)
     \/ \E t \in Targets, v \in Speeds, temp \in BOOLEAN : shaper_change_exec(t, v, temp)
     \/ \E t \in Targets : shaper_restore_exec(t)
     \/ \E id \in Ranges : time_range_begin_timer(id)
     \/ time_range_end_timer
     \/ \E ranges \in SUBSET Ranges : load_time_ranges(ranges)
     \/ \E w \in Walkers : WalkEnd(w) \/ \E u \in shp.walk[w].todo : WalkStep(w, u)

ShaperSpec == ShaperInit /\ [][ShaperNext]_shp

-----------------------------------------------------------------------------
(* Properties                                                              *)

\* A pd is not freed while its session lists it or a call that names it is
\* queued, whatever the order of the session's end, the walks of the list and
\* the calls (the references of shaper_change_exec and ev_ppp_finishing).
PdReferenced ==
  \A u \in Users :
    shp.pd[u].refs >= Len(shp.calls[u]) + (IF shp.pd[u].listed THEN 1 ELSE 0)

\* No two sessions that are shaped at the same time have the same class on the
\* ifb device, and the class of a session is not in the map of free ones,
\* although the map is read and written with shifts of an int.
IdxUnique ==
  \A u \in Users :
    (shp.pd[u].listed /\ shp.pd[u].idx # 0) =>
      /\ Bit(shp.pd[u].idx) \notin shp.map
      /\ \A t \in Users \ {u} : shp.pd[t].listed => shp.pd[t].idx # shp.pd[u].idx

\* Does not hold: a time range or temporary limit is never used through a null cur_tr.
ShaperNoCrash == ~shp.crash

\* Does not hold: "if temp is set also new interfaces will have specified shaper value"
\* (help text of shaper change).
TempIsInstalled ==
  \A u \in Users :
    (shp.ses[u] = "up" /\ Unlocked /\ shp.calls[u] = <<>> /\ shp.pd[u].temp # None) =>
      shp.lim[u] = shp.pd[u].temp
=============================================================================
