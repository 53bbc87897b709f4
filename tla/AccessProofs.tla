---------------------------- MODULE AccessProofs ----------------------------
(***************************************************************************)
(* What holds of the challenge handshakes (module Chap) and of a PPTP      *)
(* control connection (module Pptp) for every configuration.               *)
(***************************************************************************)
EXTENDS Chap, Pptp, TLAPS

-----------------------------------------------------------------------------
(* Chap: one session's authentication.                                     *)

(* The handlers that exist, and identifiers that count at all.             *)
ChapConfig == Schemes \subseteq {"md5", "v1", "v2"} /\ IdMod \in Nat \ {0}

ChapRecord ==
    [phase: {"lcp", "auth", "net", "end"}, auth: Schemes \cup {"none"},
     nak: SUBSET Schemes, id: Int, val: Int, failure: Int, started: BOOLEAN,
     name: {"none", "right", "wrong"}, timeout: BOOLEAN, interval: BOOLEAN,
     keys: Int, seen: SUBSET (Int \X Int), asked: BOOLEAN, stray: BOOLEAN,
     right: BOOLEAN]

(* Nothing is checked or started before the layer starts, and the network  *)
(* is reached through a success.                                           *)
ChapPhases(c) ==
    /\ c.phase = "lcp" => ~c.started /\ c.name = "none"
    /\ c.phase = "net" => c.started
    /\ c.phase \in {"auth", "net"} => c.auth # "none"
    /\ c.phase # "end" => c.auth \notin c.nak
    /\ c.phase = "lcp" /\ c.auth = "none" => c.nak = {}

(* An open challenge has its timeout; a success left the interval timer.   *)
ChapTimed(c, login, interval) ==
    c.phase \in {"auth", "net"} =>
        /\ c.asked /\ ~c.stray /\ c.name = "none" => c.timeout
        /\ c.started /\ interval /\ login # "any" => c.interval

Sound(c, login, interval) ==
    /\ c \in ChapRecord
    /\ c.started => c.right
    /\ ChapPhases(c)
    /\ ChapTimed(c, login, interval)

ChapInv ==
    /\ chap = [c |-> chap.c, login |-> chap.login, interval |-> chap.interval]
    /\ chap.interval \in BOOLEAN
    /\ Sound(chap.c, chap.login, chap.interval)

(* The session ends with its timers deleted and its name freed.            *)
LEMMA FinishSound ==
    ASSUME NEW c \in ChapRecord, c.started => c.right, NEW l, NEW i
    PROVE  Sound(chap_finish(c), l, i)
BY DEF Sound, ChapPhases, ChapTimed, chap_finish, ChapRecord

(* A challenge is sent in the phase the session is in.                     *)
LEMMA ChallengeSound ==
    ASSUME NEW c \in ChapRecord, c.started => c.right, ChapPhases(c),
           NEW l, NEW i \in BOOLEAN, NEW new \in BOOLEAN,
           c.phase \in {"auth", "net"} /\ c.started /\ i /\ l # "any" =>
               c.interval
    PROVE  Sound(chap_send_challenge(c, new), l, i)
<1>1. <<c.id, IF new THEN c.val + 1 ELSE c.val>> \in Int \X Int
  BY DEF ChapRecord
<1> QED
  BY <1>1 DEF Sound, ChapPhases, ChapTimed, chap_send_challenge, ChapRecord

LEMMA NextIdSound ==
    ASSUME NEW c, NEW l, NEW i, Sound(c, l, i), ChapConfig
    PROVE  Sound(NextId(c), l, i)
<1>1. (c.id + 1) % IdMod \in Int
  BY DEF Sound, ChapRecord, ChapConfig
<1> QED
  BY <1>1 DEF Sound, ChapPhases, ChapTimed, NextId, ChapRecord

(* A running session whose timeout was just stopped.                       *)
Ready(c, login, interval) ==
    /\ c \in ChapRecord /\ c.phase \in {"auth", "net"}
    /\ c.started => c.right
    /\ ChapPhases(c)
    /\ c.started /\ interval /\ login # "any" => c.interval

(* The end of the password check, right.                                   *)
LEMMA AcceptSound ==
    ASSUME NEW c \in ChapRecord, c.right, ChapPhases(c), c.phase # "lcp",
           NEW l, NEW i \in BOOLEAN, NEW f,
           c.phase # "end" /\ c.started /\ i /\ l # "any" => c.interval
    PROVE  Sound(Accept(c, i, f), l, i)
<1>1. Sound(chap_finish(c), l, i)
  BY FinishSound
<1>2. CASE c.started
  <2>1. Sound([c EXCEPT !.asked = FALSE], l, i)
    BY <1>2 DEF Sound, ChapPhases, ChapTimed, ChapRecord
  <2> QED BY <1>2, <2>1 DEF Accept, chap_send_success
<1>3. CASE ~c.started /\ f = "none"
  <2>1. Sound([[c EXCEPT !.asked = FALSE] EXCEPT !.started = TRUE,
                                                 !.interval = i], l, i)
    BY <1>3 DEF Sound, ChapPhases, ChapTimed, ChapRecord
  <2> QED BY <1>3, <2>1 DEF Accept, chap_send_success, ppp_auth_succeeded
<1>4. CASE ~c.started /\ f # "none"
  BY <1>1, <1>4 DEF Accept, ppp_auth_succeeded, ap_session_terminate,
     auth_layer_finish, chap_send_failure
<1> QED BY <1>2, <1>3, <1>4

LEMMA DenySound ==
    ASSUME NEW c \in ChapRecord, c.started => c.right, NEW l, NEW i
    PROVE  Sound(Deny(c), l, i) /\ Sound(ppp_auth_failed(c), l, i)
BY FinishSound DEF Deny, ppp_auth_failed, ap_session_terminate,
   auth_layer_finish, chap_send_failure

(* A response is accepted only if it was found right.                      *)
LEMMA VerdictSound ==
    ASSUME ChapConfig, NEW c, NEW l, NEW i \in BOOLEAN, Ready(c, l, i),
           NEW r, NEW v, NEW f, v = "DENIED" \/ Right(c, r)
    PROVE  Sound(Verdict(c, r, v, i, f), l, i)
<1>1. CASE v = "DENIED"
  BY <1>1, DenySound DEF Verdict, Ready
<1>2. CASE v # "DENIED"
  <2> DEFINE d == [c EXCEPT !.right = @ \/ Right(c, r)]
  <2>1. /\ d \in ChapRecord /\ d.right /\ ChapPhases(d) /\ d.phase # "lcp"
        /\ d.phase # "end" /\ d.started /\ i /\ l # "any" => d.interval
    BY <1>2 DEF Ready, ChapRecord, ChapPhases
  <2> HIDE DEF d
  <2>2. Sound(Accept(d, i, f), l, i)
    BY <2>1, AcceptSound
  <2>3. Sound(NextId(Accept(d, i, f)), l, i)
    BY <2>2, NextIdSound
  <2> QED BY <1>2, <2>3 DEF Verdict, d
<1> QED BY <1>1, <1>2

LEMMA StraySound ==
    ASSUME NEW c, NEW l, NEW i, Ready(c, l, i)
    PROVE  Sound(Stray(c), l, i)
BY DEF Ready, Sound, Stray, ChapPhases, ChapTimed, ChapRecord

LEMMA WaitSound ==
    ASSUME NEW c, NEW l, NEW i, Ready(c, l, i), NEW r
    PROVE  Sound(Wait(c, r), l, i)
<1>1. ASSUME NEW n \in {"right", "wrong"}
      PROVE  Sound([c EXCEPT !.name = n], l, i)
  BY DEF Ready, Sound, ChapPhases, ChapTimed, ChapRecord
<1> QED BY <1>1 DEF Wait

LEMMA AnyLoginSound ==
    ASSUME ChapConfig, NEW c, NEW i, Ready(c, "any", i), NEW f
    PROVE  Sound(AnyLogin(c, f), "any", i)
<1>1. CASE f = "none"
  <2> DEFINE d == [[c EXCEPT !.asked = FALSE] EXCEPT !.started = TRUE,
                                                     !.right = TRUE]
  <2>1. Sound(d, "any", i)
    BY DEF Ready, Sound, ChapPhases, ChapTimed, ChapRecord
  <2> HIDE DEF d
  <2>2. Sound(NextId(d), "any", i)
    BY <2>1, NextIdSound
  <2> QED
    BY <1>1, <2>2 DEF AnyLogin, ppp_auth_succeeded, chap_send_success, d
<1>2. CASE f # "none"
  <2>1. Sound(chap_finish(c), "any", i)
    BY FinishSound DEF Ready
  <2> QED
    BY <1>2, <2>1 DEF AnyLogin, ppp_auth_succeeded, ap_session_terminate,
       auth_layer_finish, chap_send_failure
<1> QED BY <1>1, <1>2

(* What pwdb_check returns.                                                *)
Checked(v, login) ==
    v \in {"DENIED", "WAIT", "NO_IMPL"} /\ (v = "WAIT" => login = "radius")

LEMMA Md5Sound ==
    ASSUME ChapConfig, NEW c, NEW l, NEW i \in BOOLEAN, Ready(c, l, i),
           NEW r, NEW f, NEW v, Checked(v, l)
    PROVE  Sound(md5_recv_response(c, r, v, l, i, f), l, i)
<1> DEFINE out == md5_recv_response(c, r, v, l, i, f)
<1>1. CASE Ignored(c, r)
  <2>1. out = Stray(c)
    BY <1>1 DEF md5_recv_response
  <2> QED BY <2>1, StraySound
<1>2. CASE ~Ignored(c, r) /\ f = "size"
  <2>1. out = Deny(c)
    BY <1>2 DEF md5_recv_response
  <2> QED BY <2>1, DenySound DEF Ready
<1>3. CASE ~Ignored(c, r) /\ f # "size" /\ l = "any"
  <2>1. out = AnyLogin(c, f)
    BY <1>3 DEF md5_recv_response, Checked, pwdb_get_passwd
  <2> QED BY <1>3, <2>1, AnyLoginSound
<1>4. CASE ~Ignored(c, r) /\ f # "size" /\ l # "any" /\ v = "WAIT"
  <2>1. out = Wait(c, r)
    BY <1>4 DEF md5_recv_response
  <2> QED BY <2>1, WaitSound
<1>5. CASE ~Ignored(c, r) /\ f # "size" /\ l # "any" /\ v = "NO_IMPL"
  <2>1. CASE pwdb_get_passwd(l)
    <3>1. out = Verdict(c, r, IF md5_check(c, r) THEN "SUCCESS" ELSE "DENIED",
                        i, f)
      BY <1>5, <2>1 DEF md5_recv_response
    <3>2. CASE md5_check(c, r)
      BY <3>1, <3>2, VerdictSound DEF md5_check
    <3>3. CASE ~md5_check(c, r)
      BY <3>1, <3>3, VerdictSound
    <3> QED BY <3>2, <3>3
  <2>2. CASE ~pwdb_get_passwd(l)
    <3>1. out = Stray(c)
      BY <1>5, <2>2 DEF md5_recv_response, chap_send_failure
    <3> QED BY <3>1, StraySound
  <2> QED BY <2>1, <2>2
<1>6. CASE ~Ignored(c, r) /\ f # "size" /\ l # "any" /\ v = "DENIED"
  <2>1. out = Verdict(c, r, v, i, f)
    BY <1>6 DEF md5_recv_response
  <2> QED BY <1>6, <2>1, VerdictSound
<1> QED BY <1>1, <1>2, <1>3, <1>4, <1>5, <1>6 DEF Checked

(* The keys do not matter to what is sound, nor to what is right.          *)
LEMMA KeysReady ==
    ASSUME NEW c, NEW l, NEW i, Ready(c, l, i), NEW r, NEW k \in Int
    PROVE  /\ Ready([c EXCEPT !.keys = k], l, i)
           /\ Right([c EXCEPT !.keys = k], r) <=> Right(c, r)
<1>1. Ready([c EXCEPT !.keys = k], l, i)
  BY DEF Ready, ChapRecord, ChapPhases
<1>2. [c EXCEPT !.keys = k].val = c.val
  BY DEF Ready, ChapRecord
<1> QED BY <1>1, <1>2 DEF Right

(* MS-CHAP takes the keys before it looks at the response.                 *)
LEMMA KeyedSound ==
    ASSUME ChapConfig, NEW c, NEW l, NEW i \in BOOLEAN, Ready(c, l, i),
           NEW r, NEW f, NEW v, v = "DENIED" \/ Right(c, r),
           NEW d \in {c, [c EXCEPT !.keys = c.val]}
    PROVE  Sound(Verdict(d, r, v, i, f), l, i)
<1>1. c.val \in Int
  BY DEF Ready, ChapRecord
<1>2. Ready(d, l, i) /\ (Right(d, r) <=> Right(c, r))
  BY <1>1, KeysReady
<1> QED BY <1>2, VerdictSound

LEMMA V1Sound ==
    ASSUME ChapConfig, NEW c, NEW l, NEW i \in BOOLEAN, Ready(c, l, i),
           NEW r, NEW f, NEW v, Checked(v, l)
    PROVE  Sound(v1_recv_response(c, r, v, l, i, f), l, i)
<1> DEFINE out == v1_recv_response(c, r, v, l, i, f)
           fails == f \in {"size", "memory"}
<1>1. CASE Ignored(c, r)
  <2>1. out = Stray(c)
    BY <1>1 DEF v1_recv_response
  <2> QED BY <2>1, StraySound
<1>2. CASE ~Ignored(c, r) /\ fails
  <2>1. out = ppp_auth_failed(c)
    BY <1>2 DEF v1_recv_response
  <2> QED BY <2>1, DenySound DEF Ready
<1>3. CASE ~Ignored(c, r) /\ ~fails /\ l = "any"
  <2>1. out = AnyLogin(c, f)
    BY <1>3 DEF v1_recv_response, Checked
  <2> QED BY <1>3, <2>1, AnyLoginSound
<1>4. CASE ~Ignored(c, r) /\ ~fails /\ l # "any" /\ v = "WAIT"
  <2>1. out = Wait(c, r)
    BY <1>4 DEF v1_recv_response
  <2> QED BY <2>1, WaitSound
<1>5. CASE ~Ignored(c, r) /\ ~fails /\ l # "any" /\ v = "NO_IMPL"
  <2> DEFINE d == IF pwdb_get_passwd(l) THEN v1_set_mppe_keys(c) ELSE c
             u == v1_check_response(c, r, l)
  <2>1. out = Verdict(d, r, u, i, f)
    BY <1>5 DEF v1_recv_response
  <2>2. d \in {c, [c EXCEPT !.keys = c.val]}
    BY DEF v1_set_mppe_keys
  <2>3. u = "DENIED" \/ Right(c, r)
    BY DEF v1_check_response
  <2> HIDE DEF d, u
  <2>4. Sound(Verdict(d, r, u, i, f), l, i)
    BY <2>2, <2>3, KeyedSound, Zenon
  <2> QED BY <2>1, <2>4
<1>6. CASE ~Ignored(c, r) /\ ~fails /\ l # "any" /\ v = "DENIED"
  <2>1. out = Verdict(c, r, v, i, f)
    BY <1>6 DEF v1_recv_response
  <2> QED BY <1>6, <2>1, VerdictSound
<1> QED BY <1>1, <1>2, <1>3, <1>4, <1>5, <1>6 DEF Checked

LEMMA V2Sound ==
    ASSUME ChapConfig, NEW c, NEW l, NEW i \in BOOLEAN, Ready(c, l, i),
           NEW r, NEW f, NEW v, Checked(v, l)
    PROVE  Sound(v2_recv_response(c, r, v, l, i, f), l, i)
<1> DEFINE out == v2_recv_response(c, r, v, l, i, f)
           fails == f \in {"size", "memory"}
<1>1. CASE Ignored(c, r)
  <2>1. out = Stray(c)
    BY <1>1 DEF v2_recv_response
  <2> QED BY <2>1, StraySound
<1>2. CASE ~Ignored(c, r) /\ fails
  <2>1. out = Deny(c)
    BY <1>2 DEF v2_recv_response
  <2> QED BY <2>1, DenySound DEF Ready
<1>3. CASE ~Ignored(c, r) /\ ~fails /\ v = "WAIT"
  <2>1. out = Wait(c, r)
    BY <1>3 DEF v2_recv_response
  <2> QED BY <2>1, WaitSound
<1>4. CASE ~Ignored(c, r) /\ ~fails /\ v = "NO_IMPL"
  <2> DEFINE d == IF pwdb_get_passwd(l) THEN v2_set_mppe_keys(c) ELSE c
             u == IF generate_response(l) THEN v2_check_response(c, r, l)
                  ELSE "DENIED"
  <2>1. out = Verdict(d, r, u, i, f)
    BY <1>4 DEF v2_recv_response
  <2>2. d \in {c, [c EXCEPT !.keys = c.val]}
    BY DEF v2_set_mppe_keys
  <2>3. u = "DENIED" \/ Right(c, r)
    BY DEF v2_check_response
  <2> HIDE DEF d, u
  <2>4. Sound(Verdict(d, r, u, i, f), l, i)
    BY <2>2, <2>3, KeyedSound, Zenon
  <2> QED BY <2>1, <2>4
<1>5. CASE ~Ignored(c, r) /\ ~fails /\ v = "DENIED"
  <2>1. out = Verdict(c, r, v, i, f)
    BY <1>5 DEF v2_recv_response
  <2> QED BY <1>5, <2>1, VerdictSound
<1> QED BY <1>1, <1>2, <1>3, <1>4, <1>5 DEF Checked

(* Every response to every challenge, in each of the three protocols.      *)
LEMMA ResponseSound ==
    ASSUME ChapConfig, NEW c, NEW l, NEW i \in BOOLEAN, Sound(c, l, i),
           c.phase \in {"auth", "net"}, NEW r, NEW f
    PROVE  Sound(chap_recv(c, r, l, i, f), l, i)
<1>1. Ready(Stopped(c), l, i)
  BY DEF Sound, Ready, Stopped, ChapRecord, ChapPhases, ChapTimed
<1>2. Checked(pwdb_check(c, r, l, f), l)
  BY DEF Checked, pwdb_check
<1>3. c.auth \in {"md5", "v1", "v2"}
  BY DEF Sound, ChapPhases, ChapRecord, ChapConfig
<1>4. CASE c.auth = "md5"
  BY <1>1, <1>2, <1>4, Md5Sound DEF chap_recv
<1>5. CASE c.auth = "v1"
  BY <1>1, <1>2, <1>5, V1Sound DEF chap_recv
<1>6. CASE c.auth = "v2"
  BY <1>1, <1>2, <1>6, V2Sound DEF chap_recv
<1> QED BY <1>3, <1>4, <1>5, <1>6

LEMMA ResultSound ==
    ASSUME ChapConfig, NEW c, NEW l, NEW i \in BOOLEAN, Sound(c, l, i),
           c.name # "none", NEW f
    PROVE  Sound(auth_result(c, i, f), l, i)
<1>1. CASE Denied(c)
  <2> DEFINE d == [c EXCEPT !.name = "none"]
  <2>1. d \in ChapRecord /\ (d.started => d.right)
    BY DEF Sound, ChapRecord
  <2> HIDE DEF d
  <2>2. Sound(NextId(Deny(d)), l, i)
    BY <2>1, DenySound, NextIdSound
  <2> QED BY <1>1, <2>2 DEF auth_result, d
<1>2. CASE ~Denied(c)
  <2> DEFINE d == [c EXCEPT !.name = "none", !.right = @ \/ ~Denied(c)]
  <2>1. /\ d \in ChapRecord /\ d.right /\ ChapPhases(d) /\ d.phase # "lcp"
        /\ d.phase # "end" /\ d.started /\ i /\ l # "any" => d.interval
    BY <1>2 DEF Sound, ChapRecord, ChapPhases, ChapTimed
  <2> HIDE DEF d
  <2>2. Sound(NextId(Accept(d, i, f)), l, i)
    BY <2>1, AcceptSound, NextIdSound
  <2> QED BY <1>2, <2>2 DEF auth_result, d
<1> QED BY <1>1, <1>2

LEMMA TimeoutSound ==
    ASSUME NEW c, NEW l, NEW i \in BOOLEAN, Sound(c, l, i)
    PROVE  Sound(chap_timeout_timer(c), l, i)
<1> DEFINE d == [c EXCEPT !.failure = @ + 1]
<1>1. /\ d \in ChapRecord /\ (d.started => d.right) /\ ChapPhases(d)
      /\ d.phase \in {"auth", "net"} /\ d.started /\ i /\ l # "any" =>
            d.interval
  BY DEF Sound, ChapRecord, ChapPhases, ChapTimed
<1> HIDE DEF d
<1>2. Sound(ppp_auth_failed(d), l, i) /\ Sound(chap_send_challenge(d, FALSE), l, i)
  BY <1>1, DenySound, ChallengeSound
<1> QED BY <1>2 DEF chap_timeout_timer, d

LEMMA StartSound ==
    ASSUME NEW c, NEW l, NEW i \in BOOLEAN, Sound(c, l, i),
           c.phase = "lcp", c.auth # "none"
    PROVE  Sound(auth_layer_start(c), l, i)
<1> DEFINE d == [c EXCEPT !.phase = "auth", !.id = 1, !.name = "none"]
<1>0. c \in ChapRecord
  BY DEF Sound
<1>1. d \in ChapRecord
  <2>1. [c EXCEPT !.phase = "auth", !.name = "none"] \in ChapRecord
    BY <1>0 DEF ChapRecord
  <2>2. ASSUME NEW e \in ChapRecord PROVE [e EXCEPT !.id = 1] \in ChapRecord
    BY DEF ChapRecord
  <2>3. d = [[c EXCEPT !.phase = "auth", !.name = "none"] EXCEPT !.id = 1]
    BY <1>0 DEF ChapRecord
  <2> QED BY <2>1, <2>2, <2>3
<1>2. d.phase = "auth" /\ d.auth = c.auth /\ d.nak = c.nak
  BY <1>0 DEF ChapRecord
<1>3. d.started <=> c.started
  BY <1>0 DEF ChapRecord
<1> HIDE DEF d
<1>4. ~d.started /\ ChapPhases(d)
  BY <1>2, <1>3 DEF Sound, ChapPhases
<1>5. Sound(chap_send_challenge(d, TRUE), l, i)
  BY <1>1, <1>4, ChallengeSound
<1> QED BY <1>5 DEF auth_layer_start, chap_start, d

(* A refused protocol is replaced by one that was not refused, or the      *)
(* negotiation ends.                                                       *)
LEMMA RequestSound ==
    ASSUME ChapConfig, NEW c, NEW l, NEW i \in BOOLEAN,
           NEW d \in Schemes \ c.nak,
           c \in ChapRecord, c.phase = "lcp", ~c.started, c.name = "none"
    PROVE  Sound(auth_send_conf_req(c, d), l, i)
<1>1. ASSUME NEW e \in Schemes, e \notin c.nak
      PROVE  Sound([c EXCEPT !.auth = e], l, i)
  BY <1>1 DEF Sound, ChapRecord, ChapPhases, ChapTimed, ChapConfig
<1>2. c.auth \in Schemes \cup {"none"}
  BY DEF ChapRecord
<1> QED BY <1>1, <1>2 DEF auth_send_conf_req

LEMMA RefusedKeeps ==
    ASSUME ChapConfig, NEW c, NEW l, NEW i \in BOOLEAN, Sound(c, l, i),
           c.phase = "lcp", c.auth # "none"
    PROVE  LET n == auth_recv_conf_nak(c)
           IN  /\ n \in ChapRecord /\ n.phase \in {"lcp", "end"}
               /\ ~n.started /\ n.name = "none"
               /\ n.phase = "end" => Sound(n, l, i)
BY DEF auth_recv_conf_nak, Sound, ChapRecord, ChapPhases, ChapTimed

LEMMA NegotiateSound ==
    ASSUME ChapConfig, ChapInv, Negotiate
    PROVE  \E c : Sound(c, chap.login, chap.interval) /\ Set(c)
<1> DEFINE c == chap.c  l == chap.login  i == chap.interval
           n == auth_recv_conf_nak(c)
<1>1. Sound(c, l, i) /\ c.phase = "lcp" /\ i \in BOOLEAN
  BY DEF ChapInv, Negotiate
<1>2. /\ c \in ChapRecord /\ ~c.started /\ c.name = "none"
      /\ c.auth \notin c.nak
  BY <1>1 DEF Sound, ChapPhases
<1>3. CASE c.auth = "none" /\ \E d \in Schemes : Set(auth_send_conf_req(c, d))
  <2>1. PICK d \in Schemes : Set(auth_send_conf_req(c, d))
    BY <1>3
  <2>2. d \notin c.nak
    BY <1>1, <1>3 DEF Sound, ChapPhases
  <2> QED BY <1>1, <1>2, <2>1, <2>2, RequestSound
<1>4. CASE c.auth # "none" /\ Refused(n)
  <2>1. /\ n \in ChapRecord /\ ~n.started /\ n.name = "none"
        /\ n.phase = "end" => Sound(n, l, i)
    BY <1>1, <1>4, RefusedKeeps
  <2>2. CASE n.phase = "end" /\ Set(n)
    BY <2>1, <2>2
  <2>3. CASE \E d \in Schemes \ n.nak :
                n.phase = "lcp" /\ Set(auth_send_conf_req(n, d))
    BY <1>1, <2>1, <2>3, RequestSound
  <2> QED BY <1>4, <2>2, <2>3 DEF Refused
<1>5. CASE c.auth # "none" /\ Set(auth_layer_start(c))
  BY <1>1, <1>5, StartSound
<1> QED BY <1>3, <1>4, <1>5 DEF Negotiate, auth_recv_conf_rej

LEMMA TimersSound ==
    ASSUME ChapInv, ChapTimers
    PROVE  \E c : Sound(c, chap.login, chap.interval) /\ Set(c)
<1> DEFINE c == chap.c  l == chap.login  i == chap.interval
<1>1. Sound(c, l, i) /\ i \in BOOLEAN
  BY DEF ChapInv
<1>2. CASE Set(chap_timeout_timer(c))
  BY <1>1, <1>2, TimeoutSound
<1>3. Sound(chap_send_challenge(c, TRUE), l, i)
  BY <1>1, ChallengeSound DEF Sound, ChapTimed
<1> QED
  BY <1>2, <1>3 DEF ChapTimers, chap_restart_timer, ppp_auth_restart,
     chap_restart

LEMMA ResultsSound ==
    ASSUME ChapConfig, ChapInv, ChapResults
    PROVE  \E c : Sound(c, chap.login, chap.interval) /\ Set(c)
<1> DEFINE c == chap.c  l == chap.login  i == chap.interval
<1>1. Sound(c, l, i) /\ i \in BOOLEAN
  BY DEF ChapInv
<1>2. CASE c.name # "none" /\ \E f \in {"none", "channel"} : Set(auth_result(c, i, f))
  BY <1>1, <1>2, ResultSound
<1>3. CASE c.phase = "auth" /\ c.started /\ Set(__ppp_auth_started(c))
  <2>1. Sound([c EXCEPT !.phase = "net"], l, i)
    BY <1>1, <1>3 DEF Sound, ChapRecord, ChapPhases, ChapTimed
  <2> QED BY <1>3, <2>1 DEF __ppp_auth_started
<1>4. CASE Set(ap_session_terminate(c))
  <2>1. Sound(chap_finish(c), l, i)
    BY <1>1, FinishSound DEF Sound
  <2> QED BY <1>4, <2>1 DEF ap_session_terminate, auth_layer_finish
<1> QED BY <1>2, <1>3, <1>4 DEF ChapResults

LEMMA ChapStep ==
    ASSUME ChapConfig, ChapInv, [ChapNext]_chap
    PROVE  ChapInv'
<1>1. CASE UNCHANGED chap
  BY <1>1 DEF ChapInv
<1>2. CASE ChapNext
  <2>1. ASSUME Respond
        PROVE  \E c : Sound(c, chap.login, chap.interval) /\ Set(c)
    <3>1. PICK s \in chap.c.seen, ok \in BOOLEAN,
               f \in {"none", "size", "memory", "name", "channel"} :
             Set(chap_recv(chap.c, [id |-> s[1], val |-> s[2], ok |-> ok],
                           chap.login, chap.interval, f))
      BY <2>1 DEF Respond
    <3>2. Sound(chap_recv(chap.c, [id |-> s[1], val |-> s[2], ok |-> ok],
                          chap.login, chap.interval, f),
                chap.login, chap.interval)
      BY <2>1, ResponseSound DEF ChapInv, Respond
    <3> QED BY <3>1, <3>2
  <2>2. \E c : Sound(c, chap.login, chap.interval) /\ Set(c)
    BY <1>2, <2>1, NegotiateSound, TimersSound, ResultsSound DEF ChapNext
  <2>3. PICK c : Sound(c, chap.login, chap.interval) /\ Set(c)
    BY <2>2
  <2>4. /\ chap' = [c |-> c, login |-> chap.login, interval |-> chap.interval]
        /\ chap.interval \in BOOLEAN
    BY <2>3 DEF Set, ChapInv
  <2> QED BY <2>3, <2>4 DEF ChapInv
<1> QED BY <1>1, <1>2

LEMMA ChapStarts == ChapInit => ChapInv
<1> SUFFICES ASSUME ChapInit PROVE ChapInv
  OBVIOUS
<1>1. PICK l \in Logins, i \in BOOLEAN :
         chap = [c |-> NoChap, login |-> l, interval |-> i]
  BY DEF ChapInit
<1>2. Sound(NoChap, l, i)
  BY DEF NoChap, Sound, ChapRecord, ChapPhases, ChapTimed
<1> QED BY <1>1, <1>2 DEF ChapInv

(* For each of MD5, MS-CHAP v1 and v2, however responses are repeated,     *)
(* late or to earlier challenges, checks are slow and challenges sent      *)
(* again: the network phase is reached only by a right response to the     *)
(* value in force, a protocol that the peer refused is not used, and an    *)
(* open challenge has a timeout (auth_chap_md5.c, auth_mschap_v1.c,        *)
(* auth_mschap_v2.c, ppp_auth.c).                                          *)
THEOREM ChapIsSound ==
    ChapConfig =>
        (ChapSpec => [](NetworkAfterProof /\ RefusedIsUnused /\ ChallengeIsTimed))
<1> SUFFICES ASSUME ChapConfig
             PROVE  ChapSpec => [](NetworkAfterProof /\ RefusedIsUnused
                                   /\ ChallengeIsTimed)
  OBVIOUS
<1>1. ChapInv /\ [ChapNext]_chap => ChapInv'
  BY ChapStep
<1>2. ChapInv => NetworkAfterProof /\ RefusedIsUnused /\ ChallengeIsTimed
  BY DEF ChapInv, Sound, ChapPhases, ChapTimed, NetworkAfterProof,
     RefusedIsUnused, ChallengeIsTimed
<1> QED BY ChapStarts, <1>1, <1>2, PTL DEF ChapSpec

-----------------------------------------------------------------------------
(* Pptp: one control connection.                                           *)

PptpRecord ==
    [used: BOOLEAN, state: {"none", "IDLE", "ESTB", "FIN", "PPP", "CLOSE"},
     timeout_timer: BOOLEAN, echo_timer: BOOLEAN, echo_sent: Int, ses: BOOLEAN,
     cleared: BOOLEAN, call: BOOLEAN, closed: BOOLEAN]

PptpWorld ==
    [conn: PptpRecord, starting: Int, active: Int, uncounted: Int,
     shutdown: BOOLEAN]

Counts(w) ==
    /\ w.starting + w.uncounted =
          IF w.conn.used /\ w.conn.state \in {"IDLE", "ESTB", "FIN"} THEN 1 ELSE 0
    /\ w.active = IF w.conn.used /\ w.conn.state = "PPP" THEN 1 ELSE 0

(* PPP runs exactly in its state; before it the timeout runs, after it the *)
(* timeout or the queued end does, unless the peer cleared the call.       *)
Connected(w) ==
    w.conn.used =>
        /\ w.conn.state # "none"
        /\ w.conn.ses <=> w.conn.state = "PPP"
        /\ w.conn.state \in {"IDLE", "ESTB", "FIN"} => w.conn.timeout_timer
        /\ w.conn.state = "CLOSE" =>
              w.conn.timeout_timer \/ w.conn.call \/ w.conn.cleared

Steady(w) == w \in PptpWorld /\ Counts(w) /\ Connected(w)
             /\ (~w.conn.used => w.conn = NoPptp)

LEMMA DisconnectSteady ==
    ASSUME NEW w \in PptpWorld, w.conn.used, Counts(w), w.conn.state # "none"
    PROVE  Steady(disconnect(w))
<1>1. /\ NoPptp \in PptpRecord /\ ~NoPptp.used
  BY DEF NoPptp, PptpRecord
<1> DEFINE d == disconnect(w)
           a == IF w.conn.state = "PPP" THEN w.active - 1 ELSE w.active
           b == IF w.conn.state \notin {"PPP", "CLOSE"} THEN w.starting - 1
                ELSE w.starting
<1>2. /\ d \in PptpWorld /\ d.conn = NoPptp /\ d.uncounted = w.uncounted
      /\ d.active = a /\ d.starting = b
  <2>1. d = [w EXCEPT !.conn = NoPptp, !.active = a, !.starting = b]
    BY DEF disconnect
  <2>2. a \in Int /\ b \in Int
    BY DEF PptpWorld
  <2> HIDE DEF d, a, b
  <2> QED BY <1>1, <2>1, <2>2 DEF PptpWorld
<1>3. d.starting + d.uncounted = 0 /\ d.active = 0
  <2>1. /\ w.starting \in Int /\ w.uncounted \in Int /\ w.active \in Int
        /\ w.conn.state \in {"IDLE", "ESTB", "FIN", "PPP", "CLOSE"}
    BY DEF PptpWorld, PptpRecord
  <2> QED BY <1>2, <2>1 DEF Counts
<1> HIDE DEF d, NoPptp
<1> QED BY <1>1, <1>2, <1>3 DEF Steady, Counts, Connected, d

Up(w) == Steady(w) /\ w.conn.used

LEMMA UpDisconnects ==
    ASSUME NEW w, Up(w)
    PROVE  Steady(disconnect(w))
BY DisconnectSteady DEF Up, Steady, Connected

(* A change of the connection that keeps its state.                        *)
LEMMA ConnUp ==
    ASSUME NEW w, Up(w), NEW k \in PptpRecord, k.used,
           k.state = w.conn.state, k.ses <=> w.conn.ses,
           w.conn.timeout_timer => k.timeout_timer,
           w.conn.call => k.call, w.conn.cleared => k.cleared
    PROVE  Up([w EXCEPT !.conn = k])
<1> DEFINE x == [w EXCEPT !.conn = k]
<1>1. /\ x \in PptpWorld /\ x.conn = k /\ x.starting = w.starting
      /\ x.active = w.active /\ x.uncounted = w.uncounted
  BY DEF Up, Steady, PptpWorld
<1> HIDE DEF x
<1>2. Counts(x)
  BY <1>1 DEF Up, Steady, Counts
<1>3. Connected(x)
  BY <1>1 DEF Up, Steady, Connected
<1> QED BY <1>1, <1>2, <1>3 DEF Up, Steady, x

(* The session of the connection ends: it is not counted any more.         *)
LEMMA CloseUp ==
    ASSUME NEW w, Up(w), w.conn.state = "PPP", NEW k \in PptpRecord, k.used,
           k.state = "CLOSE", ~k.ses, k.timeout_timer \/ k.call \/ k.cleared
    PROVE  Up([w EXCEPT !.conn = k, !.active = @ - 1])
<1> DEFINE a == w.active - 1
           x == [w EXCEPT !.conn = k, !.active = a]
<1>1. /\ x \in PptpWorld /\ x.conn = k /\ x.starting = w.starting
      /\ x.active = a /\ x.uncounted = w.uncounted
  <2>1. w \in PptpWorld /\ a \in Int
    BY DEF Up, Steady, PptpWorld
  <2> HIDE DEF a
  <2> QED BY <2>1 DEF PptpWorld
<1> HIDE DEF x
<1>2. Counts(x)
  <2>1. w.active = 1 /\ w.starting + w.uncounted = 0
    BY DEF Up, Steady, Counts
  <2> QED BY <1>1, <2>1 DEF Counts
<1>3. Connected(x)
  BY <1>1 DEF Connected
<1> QED BY <1>1, <1>2, <1>3 DEF Up, Steady, x

(* The call begins: the connection is counted as active.                   *)
LEMMA CallUp ==
    ASSUME NEW w, Up(w), w.conn.state = "ESTB", NEW k \in PptpRecord, k.used,
           k.state = "PPP", k.ses
    PROVE  Up([w EXCEPT !.conn = k, !.starting = @ - 1, !.active = @ + 1])
<1> DEFINE a == w.active + 1
           b == w.starting - 1
           x == [w EXCEPT !.conn = k, !.starting = b, !.active = a]
<1>1. /\ x \in PptpWorld /\ x.conn = k /\ x.starting = b
      /\ x.active = a /\ x.uncounted = w.uncounted
  <2>1. w \in PptpWorld /\ a \in Int /\ b \in Int
    BY DEF Up, Steady, PptpWorld
  <2> HIDE DEF a, b
  <2> QED BY <2>1 DEF PptpWorld
<1> HIDE DEF x
<1>2. Counts(x)
  <2>1. /\ w.active = 0 /\ w.starting + w.uncounted = 1
        /\ w.starting \in Int /\ w.uncounted \in Int
    BY DEF Up, Steady, Counts, PptpWorld
  <2> QED BY <1>1, <2>1 DEF Counts
<1>3. Connected(x)
  BY <1>1 DEF Connected
<1> QED BY <1>1, <1>2, <1>3 DEF Up, Steady, x

(* Before the call, the state moves on while the timeout runs.             *)
LEMMA EarlyUp ==
    ASSUME NEW w, Up(w), w.conn.state \in {"IDLE", "ESTB"},
           NEW t \in {"ESTB", "FIN"}
    PROVE  Up([w EXCEPT !.conn.state = t])
<1> DEFINE k == [w.conn EXCEPT !.state = t]
           x == [w EXCEPT !.conn.state = t]
<1>1. w \in PptpWorld /\ w.conn \in PptpRecord
  BY DEF Up, Steady, PptpWorld
<1>2. /\ k \in PptpRecord /\ k.state = t
      /\ k.used <=> w.conn.used
      /\ k.ses <=> w.conn.ses
      /\ k.timeout_timer <=> w.conn.timeout_timer
  BY <1>1 DEF PptpRecord
<1> HIDE DEF k
<1>3. /\ x \in PptpWorld /\ x.conn = k /\ x.starting = w.starting
      /\ x.active = w.active /\ x.uncounted = w.uncounted
  BY <1>1, <1>2 DEF PptpWorld, k
<1> HIDE DEF x
<1>4. Counts(x)
  BY <1>2, <1>3 DEF Up, Steady, Counts
<1>5. Connected(x)
  BY <1>2, <1>3 DEF Up, Steady, Connected
<1> QED BY <1>2, <1>3, <1>4, <1>5 DEF Up, Steady, x

LEMMA PostUp ==
    ASSUME NEW w, Up(w), NEW f
    PROVE  LET o == post_msg(w, f) IN o.w = w /\ o.r \in {-1, 0}
BY DEF post_msg, PptpRet

(* A control message leaves a connection that is counted right, whether or *)
(* not it then has to be closed.                                           *)
LEMMA StartRequestUp ==
    ASSUME NEW w, Up(w), NEW v, NEW f
    PROVE  Up(pptp_start_ctrl_conn_rqst(w, v, f).w)
<1>1. /\ post_msg(w, f).w = w
      /\ w.conn.state = "IDLE" => Up([w EXCEPT !.conn.state = "ESTB"])
  BY PostUp, EarlyUp
<1> QED
  BY <1>1 DEF pptp_start_ctrl_conn_rqst, send_pptp_start_ctrl_conn_rply, PptpRet

LEMMA OutCallUp ==
    ASSUME NEW w, Up(w), NEW f, EchoFailure \in Nat
    PROVE  Up(pptp_out_call_rqst(w, f).w)
<1> DEFINE o == pptp_out_call_rqst(w, f)
<1>1. CASE w.conn.state # "ESTB" \/ f = "write"
  <2>1. o = post_msg(w, f)
    BY <1>1 DEF pptp_out_call_rqst, send_pptp_out_call_rply
  <2> QED BY <2>1, PostUp
<1>2. CASE w.conn.state = "ESTB" /\ f = "socket"
  <2>1. o = PptpRet(w, -1)
    BY <1>2 DEF pptp_out_call_rqst
  <2> QED BY <2>1 DEF PptpRet
<1>3. CASE w.conn.state = "ESTB" /\ f = "ppp"
  <2>1. o = PptpRet([w EXCEPT !.conn.state = "FIN"], -1)
    BY <1>3 DEF pptp_out_call_rqst
  <2>2. Up([w EXCEPT !.conn.state = "FIN"])
    BY <1>3, EarlyUp
  <2> QED BY <2>1, <2>2 DEF PptpRet
<1>4. CASE w.conn.state = "ESTB" /\ f \notin {"write", "socket", "ppp"}
  <2> DEFINE k == [w.conn EXCEPT !.state = "PPP", !.ses = TRUE,
                                 !.timeout_timer = FALSE,
                                 !.echo_timer = EchoFailure > 0]
             x == [w EXCEPT !.conn.state = "PPP", !.conn.ses = TRUE,
                            !.starting = @ - 1, !.active = @ + 1,
                            !.conn.timeout_timer = FALSE,
                            !.conn.echo_timer = EchoFailure > 0]
  <2>1. o = PptpRet(x, 0)
    BY <1>4 DEF pptp_out_call_rqst
  <2>2. w \in PptpWorld /\ w.conn \in PptpRecord
    BY DEF Up, Steady, PptpWorld
  <2>3. k \in PptpRecord /\ (k.used <=> w.conn.used) /\ k.state = "PPP" /\ k.ses
    <3>1. PICK e \in BOOLEAN : e = (EchoFailure > 0)
      <4>1. (EchoFailure > 0) \in BOOLEAN
        OBVIOUS
      <4> QED BY <4>1, Zenon
    <3>2. k = [w.conn EXCEPT !.state = "PPP", !.ses = TRUE,
                             !.timeout_timer = FALSE, !.echo_timer = e]
      BY <3>1
    <3> HIDE DEF k
    <3> QED BY <2>2, <3>2 DEF PptpRecord
  <2>4. x = [w EXCEPT !.conn = k, !.starting = @ - 1, !.active = @ + 1]
    BY <2>2 DEF PptpWorld, PptpRecord
  <2> HIDE DEF k, x
  <2>5. Up(x)
    BY <1>4, <2>3, <2>4, CallUp DEF Up
  <2> QED BY <2>1, <2>5 DEF PptpRet
<1> QED BY <1>1, <1>2, <1>3, <1>4

LEMMA ClearUp ==
    ASSUME NEW w, Up(w), NEW f
    PROVE  Up(pptp_call_clear_rqst(w, f).w)
<1>0. w \in PptpWorld /\ w.conn \in PptpRecord
  BY DEF Up, Steady, PptpWorld
<1> DEFINE x == [w EXCEPT !.conn.echo_timer = FALSE]
           y == [x EXCEPT !.active = @ - 1, !.conn.state = "CLOSE",
                          !.conn.ses = FALSE, !.conn.cleared = TRUE]
<1>1. Up(x)
  <2> DEFINE k == [w.conn EXCEPT !.echo_timer = FALSE]
  <2>1. /\ k \in PptpRecord /\ k.state = w.conn.state
        /\ (k.used <=> w.conn.used) /\ (k.ses <=> w.conn.ses)
        /\ (k.timeout_timer <=> w.conn.timeout_timer)
        /\ (k.call <=> w.conn.call) /\ (k.cleared <=> w.conn.cleared)
    BY <1>0 DEF PptpRecord
  <2>2. x = [w EXCEPT !.conn = k]
    OBVIOUS
  <2> HIDE DEF k
  <2> QED BY <2>1, <2>2, ConnUp DEF Up
<1>2. ASSUME w.conn.state = "PPP" PROVE Up(y)
  <2> DEFINE k == [w.conn EXCEPT !.echo_timer = FALSE, !.state = "CLOSE",
                                 !.ses = FALSE, !.cleared = TRUE]
  <2>1. /\ k \in PptpRecord /\ k.state = "CLOSE" /\ ~k.ses /\ k.cleared
        /\ (k.used <=> w.conn.used)
    BY <1>0 DEF PptpRecord
  <2>2. y = [w EXCEPT !.conn = k, !.active = @ - 1]
    BY <1>0 DEF PptpWorld, PptpRecord
  <2> HIDE DEF k
  <2> QED BY <1>2, <2>1, <2>2, CloseUp DEF Up
<1>3. ASSUME NEW z, Up(z) PROVE Up(send_pptp_call_disconnect_notify(z, f).w)
  BY <1>3, PostUp DEF send_pptp_call_disconnect_notify
<1> HIDE DEF x, y
<1> QED BY <1>1, <1>2, <1>3 DEF pptp_call_clear_rqst, x, y

LEMMA EchoUp ==
    ASSUME NEW w, Up(w), NEW n \in Int
    PROVE  Up([w EXCEPT !.conn.echo_sent = n])
<1>0. w \in PptpWorld /\ w.conn \in PptpRecord
  BY DEF Up, Steady, PptpWorld
<1> DEFINE k == [w.conn EXCEPT !.echo_sent = n]
<1>1. /\ k \in PptpRecord /\ k.state = w.conn.state
      /\ (k.used <=> w.conn.used) /\ (k.ses <=> w.conn.ses)
      /\ (k.timeout_timer <=> w.conn.timeout_timer)
      /\ (k.call <=> w.conn.call) /\ (k.cleared <=> w.conn.cleared)
  BY <1>0 DEF PptpRecord
<1>2. [w EXCEPT !.conn.echo_sent = n] = [w EXCEPT !.conn = k]
  OBVIOUS
<1> HIDE DEF k
<1> QED BY <1>1, <1>2, ConnUp DEF Up

LEMMA DropSteady ==
    ASSUME NEW o, Up(o.w)
    PROVE  Steady(Drop(o))
BY UpDisconnects DEF Drop, Up

LEMMA ReadSteady ==
    ASSUME NEW w, Up(w), NEW m \in PptpMessages, NEW f, EchoFailure \in Nat
    PROVE  Steady(pptp_read(w, m, f))
<1>1. Up(process_packet(w, m, f).w)
  <2>1. CASE m \in {"start", "version"}
    BY <2>1, StartRequestUp DEF process_packet
  <2>2. CASE m = "stop_rqst"
    BY <2>2, PostUp DEF process_packet, pptp_stop_ctrl_conn_rqst,
       send_pptp_stop_ctrl_conn_rply, PptpRet
  <2>3. CASE m = "stop_rply"
    BY <2>3 DEF process_packet, pptp_stop_ctrl_conn_rply, PptpRet
  <2>4. CASE m = "out_call"
    BY <2>4, OutCallUp DEF process_packet
  <2>5. CASE m = "echo_rqst"
    BY <2>5, PostUp DEF process_packet, pptp_echo_rqst
  <2>6. CASE m = "echo_rply"
    BY <2>6, EchoUp DEF process_packet, pptp_echo_rply, PptpRet
  <2>7. CASE m = "clear"
    BY <2>7, ClearUp DEF process_packet
  <2>8. CASE m = "garbage"
    BY <2>8 DEF process_packet, PptpRet
  <2> QED
    BY <2>1, <2>2, <2>3, <2>4, <2>5, <2>6, <2>7, <2>8 DEF PptpMessages
<1> QED BY <1>1, DropSteady DEF pptp_read

LEMMA SendEchoSteady ==
    ASSUME NEW w, Up(w), NEW f
    PROVE  Steady(pptp_send_echo(w, f))
<1> DEFINE n == w.conn.echo_sent + 1
           x == [w EXCEPT !.conn.echo_sent = @ + 1]
<1>1. n \in Int
  BY DEF Up, Steady, PptpWorld, PptpRecord
<1>2. x = [w EXCEPT !.conn.echo_sent = n]
  OBVIOUS
<1> HIDE DEF n
<1>3. Up(x)
  BY <1>1, <1>2, EchoUp
<1> HIDE DEF x
<1>4. Steady(disconnect(x)) /\ Steady(Drop(post_msg(x, f)))
  BY <1>3, UpDisconnects, PostUp, DropSteady
<1> QED BY <1>4 DEF pptp_send_echo, x

(* The queued end or the timeout is added to what the connection has.      *)
AwaitOf(k, r) ==
    IF r < 0 THEN [k EXCEPT !.call = TRUE] ELSE [k EXCEPT !.timeout_timer = TRUE]

LEMMA AwaitFields ==
    ASSUME NEW k \in PptpRecord, NEW r
    PROVE  LET j == AwaitOf(k, r)
           IN  /\ j \in PptpRecord /\ j.state = k.state
               /\ (j.used <=> k.used) /\ (j.ses <=> k.ses)
               /\ (j.cleared <=> k.cleared)
               /\ (k.timeout_timer => j.timeout_timer) /\ (k.call => j.call)
               /\ (j.timeout_timer \/ j.call)
<1>1. CASE r < 0
  BY <1>1 DEF AwaitOf, PptpRecord
<1>2. CASE ~(r < 0)
  BY <1>2 DEF AwaitOf, PptpRecord
<1> QED BY <1>1, <1>2

LEMMA AwaitIs ==
    ASSUME NEW w \in PptpWorld, NEW r
    PROVE  Await([w |-> w, r |-> r]) = [w EXCEPT !.conn = AwaitOf(w.conn, r)]
BY DEF Await, AwaitOf, PptpWorld

(* A connection without a session waits for its end.                       *)
LEMMA AwaitUp ==
    ASSUME NEW w, Up(w), NEW r
    PROVE  Up(Await([w |-> w, r |-> r]))
<1>1. w \in PptpWorld /\ w.conn \in PptpRecord
  BY DEF Up, Steady, PptpWorld
<1> DEFINE j == AwaitOf(w.conn, r)
<1>2. /\ j \in PptpRecord /\ j.state = w.conn.state
      /\ (j.used <=> w.conn.used) /\ (j.ses <=> w.conn.ses)
      /\ (j.cleared <=> w.conn.cleared)
      /\ (w.conn.timeout_timer => j.timeout_timer) /\ (w.conn.call => j.call)
  BY <1>1, AwaitFields
<1> HIDE DEF j
<1>3. Up([w EXCEPT !.conn = j])
  BY <1>2, ConnUp DEF Up
<1> QED BY <1>1, <1>3, AwaitIs DEF j

(* So does one whose session has just ended.                               *)
LEMMA AwaitClosedUp ==
    ASSUME NEW w, Up(w), w.conn.state = "PPP", NEW k \in PptpRecord, k.used,
           k.state = "CLOSE", ~k.ses, NEW r
    PROVE  Up(Await([w |-> [w EXCEPT !.conn = k, !.active = @ - 1], r |-> r]))
<1> DEFINE a == w.active - 1
           x == [w EXCEPT !.conn = k, !.active = @ - 1]
           j == AwaitOf(k, r)
<1>1. x \in PptpWorld /\ x.conn = k
  <2>1. w \in PptpWorld /\ a \in Int
    BY DEF Up, Steady, PptpWorld
  <2>2. x = [w EXCEPT !.conn = k, !.active = a]
    OBVIOUS
  <2> HIDE DEF a, x
  <2> QED BY <2>1, <2>2 DEF PptpWorld
<1>2. /\ j \in PptpRecord /\ j.state = "CLOSE" /\ j.used /\ ~j.ses
      /\ j.timeout_timer \/ j.call \/ j.cleared
  BY AwaitFields
<1> HIDE DEF j
<1>3. Up([w EXCEPT !.conn = j, !.active = @ - 1])
  BY <1>2, CloseUp
<1>4. [x EXCEPT !.conn = j] = [w EXCEPT !.conn = j, !.active = @ - 1]
  BY DEF Up, Steady, PptpWorld
<1> HIDE DEF x
<1>5. Await([w |-> x, r |-> r]) = [x EXCEPT !.conn = AwaitOf(x.conn, r)]
  BY <1>1, AwaitIs
<1>6. Await([w |-> x, r |-> r]) = [x EXCEPT !.conn = j]
  BY <1>1, <1>5 DEF j
<1>7. Up(Await([w |-> x, r |-> r]))
  BY <1>3, <1>4, <1>6
<1> QED BY <1>7 DEF x

LEMMA FinishedSteady ==
    ASSUME NEW w, Up(w), w.conn.ses, NEW f
    PROVE  Steady(pptp_ppp_finished([w EXCEPT !.conn.ses = FALSE], f))
<1>0. w \in PptpWorld /\ w.conn \in PptpRecord /\ w.conn.state = "PPP"
  BY DEF Up, Steady, PptpWorld, Connected
<1> DEFINE k == [w.conn EXCEPT !.ses = FALSE, !.state = "CLOSE"]
           v == [w EXCEPT !.conn.ses = FALSE]
           y == [v EXCEPT !.conn.state = "CLOSE", !.active = @ - 1]
           r == IF f = "write" THEN -1 ELSE 0
<1>1. k \in PptpRecord /\ (k.used <=> w.conn.used) /\ k.state = "CLOSE" /\ ~k.ses
  BY <1>0 DEF PptpRecord
<1>2. y = [w EXCEPT !.conn = k, !.active = @ - 1]
  BY <1>0 DEF PptpWorld, PptpRecord
<1>3. v.conn.state = "PPP"
  BY <1>0 DEF PptpWorld, PptpRecord
<1> HIDE DEF k, v, r
<1>4. Up(Await([w |-> y, r |-> r]))
  <2> HIDE DEF y
  <2> QED BY <1>0, <1>1, <1>2, AwaitClosedUp DEF Up
<1>5. pptp_ppp_finished(v, f) = Await([w |-> y, r |-> r])
  BY <1>3 DEF pptp_ppp_finished, send_pptp_stop_ctrl_conn_rqst,
     send_pptp_call_disconnect_notify, post_msg, PptpRet, r
<1> QED BY <1>4, <1>5 DEF Up, v

LEMMA CloseSteady ==
    ASSUME NEW w, Up(w), NEW f
    PROVE  Steady(pptp_close([w EXCEPT !.conn.closed = TRUE], f))
<1>0. w \in PptpWorld /\ w.conn \in PptpRecord
  BY DEF Up, Steady, PptpWorld
<1> DEFINE v == [w EXCEPT !.conn.closed = TRUE]
           r == IF f = "write" THEN -1 ELSE 0
<1>1. Up(v) /\ v.conn.state = w.conn.state
  <2> DEFINE k == [w.conn EXCEPT !.closed = TRUE]
  <2>1. /\ k \in PptpRecord /\ k.state = w.conn.state
        /\ (k.used <=> w.conn.used) /\ (k.ses <=> w.conn.ses)
        /\ (k.timeout_timer <=> w.conn.timeout_timer)
        /\ (k.call <=> w.conn.call) /\ (k.cleared <=> w.conn.cleared)
    BY <1>0 DEF PptpRecord
  <2>2. v = [w EXCEPT !.conn = k] /\ v.conn = k
    BY <1>0 DEF PptpWorld
  <2> HIDE DEF k, v
  <2> QED BY <2>1, <2>2, ConnUp DEF Up
<1> HIDE DEF v, r
<1>2. CASE v.conn.state # "PPP"
  <2>1. pptp_close(v, f) = Await([w |-> v, r |-> r])
    BY <1>2 DEF pptp_close, send_pptp_stop_ctrl_conn_rqst, post_msg, PptpRet, r
  <2> QED BY <1>1, <2>1, AwaitUp DEF Up, v
<1>3. CASE v.conn.state = "PPP"
  <2> DEFINE k == [v.conn EXCEPT !.state = "CLOSE", !.ses = FALSE]
             y == [v EXCEPT !.active = @ - 1, !.conn.state = "CLOSE",
                            !.conn.ses = FALSE]
  <2>1. v \in PptpWorld /\ v.conn \in PptpRecord /\ v.conn.used
    BY <1>1 DEF Up, Steady, PptpWorld
  <2>2. /\ k \in PptpRecord /\ k.state = "CLOSE" /\ ~k.ses
        /\ (k.used <=> v.conn.used)
    BY <2>1 DEF PptpRecord
  <2>3. y = [v EXCEPT !.conn = k, !.active = @ - 1]
    BY <2>1 DEF PptpWorld, PptpRecord
  <2>4. pptp_close(v, f) = Await([w |-> y, r |-> r])
    BY <1>3 DEF pptp_close, send_pptp_call_disconnect_notify, post_msg,
       PptpRet, r
  <2> HIDE DEF k, y
  <2>5. Up(Await([w |-> y, r |-> r]))
    BY <1>1, <1>3, <2>1, <2>2, <2>3, AwaitClosedUp
  <2> QED BY <2>4, <2>5 DEF Up, v
<1> QED BY <1>2, <1>3

LEMMA ServSteady ==
    ASSUME Steady(pptp), PptpServ
    PROVE  Steady(pptp')
<1>0. pptp \in PptpWorld
  BY DEF Steady
<1>1. CASE pptp.uncounted = 0 /\ ~pptp.conn.used /\ pptp' = pptp_connect(pptp)
  <2> DEFINE k == [NoPptp EXCEPT !.used = TRUE, !.state = "IDLE",
                                 !.timeout_timer = TRUE]
             n == pptp.uncounted + 1
  <2>1. /\ k \in PptpRecord /\ k.used /\ k.state = "IDLE" /\ k.timeout_timer
        /\ ~k.ses
    <3>1. NoPptp \in PptpRecord /\ ~NoPptp.ses
      BY DEF NoPptp, PptpRecord
    <3> QED BY <3>1 DEF PptpRecord
  <2>2. n \in Int /\ pptp' = [pptp EXCEPT !.conn = k, !.uncounted = n]
    BY <1>0, <1>1 DEF pptp_connect, PptpWorld
  <2> HIDE DEF k, n
  <2>3. /\ pptp' \in PptpWorld /\ pptp'.conn = k /\ pptp'.uncounted = n
        /\ pptp'.starting = pptp.starting /\ pptp'.active = pptp.active
    BY <1>0, <2>1, <2>2 DEF PptpWorld
  <2>4. pptp.starting + pptp.uncounted = 0 /\ pptp.active = 0
    BY <1>1 DEF Steady, Counts
  <2>5. Counts(pptp')
    BY <1>0, <2>1, <2>3, <2>4 DEF Counts, PptpWorld, n
  <2>6. Connected(pptp')
    BY <2>1, <2>3 DEF Connected
  <2> QED BY <2>1, <2>3, <2>5, <2>6 DEF Steady
<1>2. CASE pptp' = [pptp EXCEPT !.uncounted = @ - 1, !.starting = @ + 1]
  <2> DEFINE n == pptp.uncounted - 1
             b == pptp.starting + 1
  <2>1. /\ n \in Int /\ b \in Int
        /\ pptp' = [pptp EXCEPT !.uncounted = n, !.starting = b]
    BY <1>0, <1>2 DEF PptpWorld
  <2> HIDE DEF n, b
  <2>2. /\ pptp' \in PptpWorld /\ pptp'.conn = pptp.conn
        /\ pptp'.uncounted = n /\ pptp'.starting = b
        /\ pptp'.active = pptp.active
    BY <1>0, <2>1 DEF PptpWorld
  <2>3. b + n = pptp.starting + pptp.uncounted
    BY <1>0 DEF PptpWorld, n, b
  <2>4. Counts(pptp')
    BY <2>2, <2>3 DEF Steady, Counts
  <2> QED BY <2>2, <2>4 DEF Steady, Connected
<1>3. CASE pptp' = [pptp EXCEPT !.shutdown = TRUE]
  <2>1. /\ pptp' \in PptpWorld /\ pptp'.conn = pptp.conn
        /\ pptp'.uncounted = pptp.uncounted /\ pptp'.starting = pptp.starting
        /\ pptp'.active = pptp.active
    BY <1>0, <1>3 DEF PptpWorld
  <2> QED BY <2>1 DEF Steady, Counts, Connected
<1> QED BY <1>1, <1>2, <1>3 DEF PptpServ

LEMMA ConnSteady ==
    ASSUME Steady(pptp), PptpConn, EchoFailure \in Nat
    PROVE  Steady(pptp')
<1>1. Up(pptp)
  BY DEF Up, PptpConn
<1> QED
  BY <1>1, ReadSteady, SendEchoSteady, CloseSteady, FinishedSteady,
     UpDisconnects DEF PptpConn, pptp_write, pptp_timeout

(* A PPTP connection is counted in exactly one of starting and active, and *)
(* in none once it closes, also when it ends before the accepting thread   *)
(* has counted it; and it never waits without a timer or a queued end,     *)
(* unless the peer cleared its call (pptp.c, pptp_connect, disconnect).    *)
THEOREM PptpIsCounted ==
    EchoFailure \in Nat => (PptpSpec => [](PptpCountersExact /\ PptpTimed))
<1> SUFFICES ASSUME EchoFailure \in Nat
             PROVE  PptpSpec => [](PptpCountersExact /\ PptpTimed)
  OBVIOUS
<1>1. PptpInit => Steady(pptp)
  BY DEF PptpInit, Steady, Counts, Connected, PptpWorld, PptpRecord, NoPptp
<1>2. Steady(pptp) /\ [PptpNext]_pptp => Steady(pptp')
  BY ServSteady, ConnSteady DEF PptpNext
<1>3. Steady(pptp) => PptpCountersExact
  BY DEF Steady, Counts, PptpCountersExact
<1>4. Steady(pptp) => PptpTimed
  <2> SUFFICES ASSUME Steady(pptp), pptp.conn.used PROVE PptpTimed
    BY DEF PptpTimed
  <2>1. pptp.conn.state \in {"IDLE", "ESTB", "FIN", "PPP", "CLOSE"}
    BY DEF Steady, Connected, PptpWorld, PptpRecord
  <2> QED BY <2>1 DEF Steady, Connected, PptpTimed
<1> DEFINE I == Steady(pptp)
<1>5. I /\ [PptpNext]_pptp => I'
  BY <1>2
<1>6. PptpInit => I
  BY <1>1
<1>7. I => PptpCountersExact /\ PptpTimed
  BY <1>3, <1>4
<1> HIDE DEF I
<1> QED BY <1>5, <1>6, <1>7, PTL DEF PptpSpec

=============================================================================
