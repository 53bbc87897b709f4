-------------------------------- MODULE Chap --------------------------------
(***************************************************************************)
(* Authentication of one PPP session: how LCP settles on a protocol        *)
(* (ppp/ppp_auth.c) and the three challenge handshakes (auth_chap_md5.c,   *)
(* auth_mschap_v1.c and auth_mschap_v2.c) with their passwords (pwdb.c).   *)
(*                                                                         *)
(* A value is the number of the challenge it was drawn for; a response is  *)
(* the digest of its identifier, of the value it answers and of a password *)
(* that is right or not.  Operators change the session's record c.         *)
(***************************************************************************)
EXTENDS Integers, FiniteSets

CONSTANTS
    Schemes,        \* the handlers that are loaded: md5, v1 and v2
    IdMod,          \* identifiers; an uint8_t in the code
    MaxFailure,     \* max-failure
    MaxValues,      \* bound on the values drawn
    Logins          \* how names are checked: radius, local, unknown, any

VARIABLE chap

\* nak: what the peer refuses; seen: challenges it has got; asked: one of ours
\* is open; stray: a response that settled nothing stopped the timeout.
NoChap == [phase |-> "lcp", auth |-> "none", nak |-> {}, id |-> 0, val |-> 0, failure |-> 0,
           started |-> FALSE, name |-> "none", timeout |-> FALSE, interval |-> FALSE,
           keys |-> 0, seen |-> {}, asked |-> FALSE, stray |-> FALSE, right |-> FALSE]

Denied(c) == c.name = "wrong"
-----------------------------------------------------------------------------
(* ppp_auth.c: the option of LCP and the layer.                            *)

\* auth_send_conf_req takes the first protocol in the order they are loaded.
auth_send_conf_req(c, d) ==
    [c EXCEPT !.auth = IF @ = "none" \/ @ \in c.nak THEN d ELSE @]

auth_recv_conf_nak(c) ==
    [c EXCEPT !.nak = @ \cup {c.auth},
              !.phase = IF c.nak \cup {c.auth} = Schemes THEN "end" ELSE @]

auth_recv_conf_rej(c) == auth_recv_conf_nak(c)

\* The finish function of all three handlers, called for a layer that starts
\* or runs when the session is terminated.
chap_finish(c) ==
    [c EXCEPT !.phase = "end", !.timeout = FALSE, !.interval = FALSE, !.name = "none"]

auth_layer_finish(c) == chap_finish(c)

ap_session_terminate(c) == auth_layer_finish(c)
ppp_auth_failed(c) == ap_session_terminate(c)

\* f: the name is refused (single-session) or the unit cannot be opened.
ppp_auth_succeeded(c, f) == f = "none"

__ppp_auth_started(c) == [c EXCEPT !.phase = "net"]
-----------------------------------------------------------------------------
(* What the three handlers share.                                          *)

chap_send_challenge(c, new) ==
    [c EXCEPT !.val = IF new THEN @ + 1 ELSE @, !.timeout = TRUE,
              !.seen = @ \cup {<<c.id, IF new THEN c.val + 1 ELSE c.val>>},
              !.asked = TRUE, !.stray = FALSE]

chap_start(c) ==
    chap_send_challenge([c EXCEPT !.phase = "auth", !.id = 1, !.name = "none"], TRUE)

auth_layer_start(c) == chap_start(c)

chap_restart_timer(c) == chap_send_challenge(c, TRUE)
chap_restart(c) == chap_send_challenge(c, TRUE)
ppp_auth_restart(c) == chap_restart(c)

chap_timeout_timer(c) ==
    IF c.failure + 1 = MaxFailure THEN ppp_auth_failed([c EXCEPT !.failure = @ + 1])
    ELSE chap_send_challenge([c EXCEPT !.failure = @ + 1], FALSE)

NextId(c) == [c EXCEPT !.id = (@ + 1) % IdMod]

chap_send_failure(c) == c
chap_send_success(c) == [c EXCEPT !.asked = FALSE]

\* The session is ended when it may not have the name.
Accept(c, interval, f) ==
    IF c.started THEN chap_send_success(c)
    ELSE IF ppp_auth_succeeded(c, f)
         THEN [chap_send_success(c) EXCEPT !.started = TRUE, !.interval = interval]
         ELSE ap_session_terminate(chap_send_failure(c))

Deny(c) == ppp_auth_failed(chap_send_failure(c))

auth_result(c, interval, f) ==
    IF Denied(c) THEN NextId(Deny([c EXCEPT !.name = "none"]))
    ELSE NextId(Accept([c EXCEPT !.name = "none", !.right = @ \/ ~Denied(c)], interval, f))
-----------------------------------------------------------------------------
(* The passwords and the digests.                                          *)

Right(c, r) == r.ok /\ r.val = c.val

pwdb_get_passwd(login) == login = "local"

\* A name that is in use already is denied before any back end is asked.
pwdb_check(c, r, login, f) ==
    CASE f = "name" -> "DENIED"
      [] f # "name" /\ login = "radius" -> "WAIT"
      [] OTHER -> "NO_IMPL"

md5_check(c, r) == Right(c, r)

\* The keys of MPPE are derived from the stored password, and set whether or
\* not the response then turns out to be right.
v1_set_mppe_keys(c) == [c EXCEPT !.keys = c.val]
v2_set_mppe_keys(c) == [c EXCEPT !.keys = c.val]

v1_check_response(c, r, login) ==
    IF pwdb_get_passwd(login) /\ Right(c, r) THEN "SUCCESS" ELSE "DENIED"

v2_check_response(c, r, login) ==
    IF pwdb_get_passwd(login) /\ Right(c, r) THEN "SUCCESS" ELSE "DENIED"

\* The answer that proves the server to the client needs the password again.
generate_response(login) == pwdb_get_passwd(login)
-----------------------------------------------------------------------------
(* A response.  Every one stops the timeout, before it is looked at.       *)

Stopped(c) == [c EXCEPT !.timeout = FALSE]
Stray(c) == [c EXCEPT !.stray = TRUE]

\* Answered already; the check of an earlier one is under way; another id.
Duplicate(c, r) == c.started /\ r.id = c.id - 1
Ignored(c, r) == Duplicate(c, r) \/ c.name # "none" \/ r.id # c.id

Verdict(c, r, v, interval, f) ==
    IF v = "DENIED" THEN Deny(c)
    ELSE NextId(Accept([c EXCEPT !.right = @ \/ Right(c, r)], interval, f))

AnyLogin(c, f) ==
    IF ppp_auth_succeeded(c, f)
    THEN NextId([chap_send_success(c) EXCEPT !.started = TRUE, !.right = TRUE])
    ELSE ap_session_terminate(chap_send_failure(c))

Wait(c, r) == [c EXCEPT !.name = IF Right(c, r) THEN "right" ELSE "wrong"]

md5_recv_response(c, r, v, login, interval, f) ==
    CASE Ignored(c, r) -> Stray(c)
      [] ~Ignored(c, r) /\ f = "size" -> Deny(c)
      [] ~Ignored(c, r) /\ f # "size" /\ login = "any" -> AnyLogin(c, f)
      [] ~Ignored(c, r) /\ f # "size" /\ v = "WAIT" -> Wait(c, r)
      [] ~Ignored(c, r) /\ f # "size" /\ v = "NO_IMPL" /\ ~pwdb_get_passwd(login) /\ login # "any"
           -> Stray(chap_send_failure(c))
      [] ~Ignored(c, r) /\ f # "size" /\ v = "NO_IMPL" /\ pwdb_get_passwd(login)
           -> Verdict(c, r, IF md5_check(c, r) THEN "SUCCESS" ELSE "DENIED", interval, f)
      [] OTHER -> Verdict(c, r, v, interval, f)

v1_recv_response(c, r, v, login, interval, f) ==
    CASE Ignored(c, r) -> Stray(c)
      [] ~Ignored(c, r) /\ f \in {"size", "memory"} -> ppp_auth_failed(c)
      [] ~Ignored(c, r) /\ f \notin {"size", "memory"} /\ login = "any" -> AnyLogin(c, f)
      [] ~Ignored(c, r) /\ f \notin {"size", "memory"} /\ v = "WAIT" -> Wait(c, r)
      [] ~Ignored(c, r) /\ f \notin {"size", "memory"} /\ v = "NO_IMPL" /\ login # "any"
           -> Verdict(IF pwdb_get_passwd(login) THEN v1_set_mppe_keys(c) ELSE c, r,
                      v1_check_response(c, r, login), interval, f)
      [] OTHER -> Verdict(c, r, v, interval, f)

\* any-login is not read by MS-CHAP v2.
v2_recv_response(c, r, v, login, interval, f) ==
    CASE Ignored(c, r) -> Stray(c)
      [] ~Ignored(c, r) /\ f \in {"size", "memory"} -> Deny(c)
      [] ~Ignored(c, r) /\ f \notin {"size", "memory"} /\ v = "WAIT" -> Wait(c, r)
      [] ~Ignored(c, r) /\ f \notin {"size", "memory"} /\ v = "NO_IMPL"
           -> Verdict(IF pwdb_get_passwd(login) THEN v2_set_mppe_keys(c) ELSE c, r,
                      IF generate_response(login) THEN v2_check_response(c, r, login)
                      ELSE "DENIED", interval, f)
      [] OTHER -> Verdict(c, r, v, interval, f)

chap_recv(c, r, login, interval, f) ==
    CASE c.auth = "md5" -> md5_recv_response(Stopped(c), r, pwdb_check(c, r, login, f), login, interval, f)
      [] c.auth = "v1" -> v1_recv_response(Stopped(c), r, pwdb_check(c, r, login, f), login, interval, f)
      [] c.auth = "v2" -> v2_recv_response(Stopped(c), r, pwdb_check(c, r, login, f), login, interval, f)
-----------------------------------------------------------------------------
ChapInit == chap \in {[c |-> NoChap, login |-> l, interval |-> i] : l \in Logins, i \in BOOLEAN}

Set(c) == chap' = [chap EXCEPT !.c = c]

\* A refusal is answered by the next Configure-Request.
Refused(c) ==
    \/ c.phase = "end" /\ Set(c)
    \/ \E d \in Schemes \ c.nak : c.phase = "lcp" /\ Set(auth_send_conf_req(c, d))

Negotiate ==
    /\ chap.c.phase = "lcp"
    /\ \/ /\ chap.c.auth = "none"
          /\ \E d \in Schemes : Set(auth_send_conf_req(chap.c, d))
       \/ /\ chap.c.auth # "none"
          /\ \/ Refused(auth_recv_conf_nak(chap.c))
             \/ Refused(auth_recv_conf_rej(chap.c))
             \/ Set(auth_layer_start(chap.c))

\* The peer answers any challenge it has seen, as often as it likes.
Respond ==
    /\ chap.c.phase \in {"auth", "net"}
    /\ \E s \in chap.c.seen, ok \in BOOLEAN, f \in {"none", "size", "memory", "name", "channel"} :
         Set(chap_recv(chap.c, [id |-> s[1], val |-> s[2], ok |-> ok], chap.login, chap.interval, f))

ChapTimers ==
    \/ chap.c.timeout /\ Set(chap_timeout_timer(chap.c))
    \/ /\ chap.c.val < MaxValues
       /\ \/ chap.c.interval /\ Set(chap_restart_timer(chap.c))
          \/ chap.c.phase = "net" /\ Set(ppp_auth_restart(chap.c))

ChapResults ==
    \/ chap.c.name # "none" /\ \E f \in {"none", "channel"} : Set(auth_result(chap.c, chap.interval, f))
    \/ chap.c.phase = "auth" /\ chap.c.started /\ Set(__ppp_auth_started(chap.c))
    \/ chap.c.phase \in {"auth", "net"} /\ Set(ap_session_terminate(chap.c))

ChapNext == Negotiate \/ Respond \/ ChapTimers \/ ChapResults

ChapSpec == ChapInit /\ [][ChapNext]_chap
-----------------------------------------------------------------------------
\* The network phase begins only when a response of the peer to the value in
\* force was found right (or any-login asks for none), however requests,
\* answers of the server and repeated challenges are interleaved.
NetworkAfterProof == chap.c.started => chap.c.right

\* A challenge that is open, and that no response has disturbed, has a timeout
\* running unless the password check is under way; a session that is kept has
\* its interval timer when one is configured.
ChallengeIsTimed ==
    /\ chap.c.phase \in {"auth", "net"} /\ chap.c.asked /\ ~chap.c.stray /\ chap.c.name = "none"
         => chap.c.timeout
    /\ chap.c.phase = "net" /\ chap.interval /\ chap.login # "any" => chap.c.interval

\* A protocol that the peer refused is not used.
RefusedIsUnused == chap.c.phase \in {"auth", "net"} => chap.c.auth \notin chap.c.nak
=============================================================================
