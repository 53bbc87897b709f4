--------------------------- MODULE SessionProofs ---------------------------
(***************************************************************************)
(* The sessions of module Session, proved for any number of sessions, any  *)
(* access protocols, any configuration and any shutdown requests.          *)
(*                                                                         *)
(* SInv ties the place a session has reached in its handlers to its state, *)
(* to its permission to start the network, to ses_list and to the wakeups. *)
(* It says of one session what the counters need: since a session moves    *)
(* from one counter to the next only where its state allows, each step     *)
(* changes the set of the sessions a counter stands for by the same one    *)
(* session as the counter itself.                                          *)
(***************************************************************************)
EXTENDS Session, SequenceTheorems, FiniteSetTheorems, TLAPS

(* The handlers of a session before it is counted, while it is in ses_list *)
(* and after it has left it.                                               *)
Before == {"none", "padr", "slot", "conn", "checked"}

Linked == {"idle", "asleep", "ipoe1", "ipoe2", "act1", "act2", "act3",
           "term1", "term2", "lower", "fin1"}

(* The permission to start the network: given by ap_session_set_username,  *)
(* queued or taken, once in the life of a session.                         *)
HasAuth(s) == \E i \in 1..Len(calls[s]) : calls[s][i] = "auth"

Token(s) == ses[s].authed \/ HasAuth(s)

(* Where session s is in its handlers and the state it is in.              *)
Life(s) ==
    /\ pc[s] \in Before => ses[s].state = "none" /\ ~ses[s].user /\ ~ses[s].authErr
    /\ pc[s] = "counted" => ses[s].state = "starting" /\ ~ses[s].user /\ ~ses[s].authErr
    /\ pc[s] \in {"asleep", "ipoe1", "ipoe2", "act1"} =>
          /\ ses[s].state \in {"none", "starting"}
          /\ ses[s].user /\ ~ses[s].authErr /\ ~Token(s)
    /\ pc[s] \in {"act2", "act3"} => ses[s].state = "active"
    /\ pc[s] = "term1" => ses[s].state # "finishing"
    /\ pc[s] = "term2" => ses[s].state \in {"none", "starting"}
    /\ pc[s] \in {"fin1", "fin2", "fin3"} \cup Reading => ses[s].state = "finishing"
    /\ pc[s] = "gone" => ses[s].state \in {"none", "finishing"}
    /\ ses[s].state = "active" => ses[s].user /\ ~ses[s].authErr /\ ~Token(s)
    /\ pc[s] = "idle" /\ ses[s].authErr => ses[s].state = "finishing"
    /\ pc[s] \in Linked /\ ses[s].state = "none" => Kind[s] = "ipoe"
    /\ pc[s] \in {"padr", "slot"} => Kind[s] = "pppoe"
    /\ pc[s] \in {"ipoe1", "ipoe2"} => Kind[s] = "ipoe"
    /\ s \notin conf.arrive => pc[s] = "gone"

TokenOnce(s) ==
    /\ Token(s) => ses[s].user /\ ~ses[s].authErr
    /\ ses[s].authed => ~HasAuth(s)
    /\ \A i, j \in 1..Len(calls[s]) :
          calls[s][i] = "auth" /\ calls[s][j] = "auth" => i = j

LifeInv == \A s \in Sessions : Life(s) /\ TokenOnce(s)

(* ses_list holds each session once, from StartLink to FinishUnlink; only  *)
(* an IPoE session whose start failed goes on without being in it.         *)
ListInv ==
    /\ \A i, j \in 1..Len(list) : list[i] = list[j] => i = j
    /\ \A s \in Sessions :
          /\ Listed(s) => pc[s] \in Linked
          /\ pc[s] \in Linked /\ ~Listed(s) => Kind[s] = "ipoe"

(* ses->wakeup: who waits, and for whom.                                   *)
Waiting(s) == pc[s] = "asleep" /\ ~ses[s].woken

WakeInv ==
    /\ \A s \in Sessions : ses[s].woken => pc[s] = "asleep"
    /\ \A s \in Sessions : Waiting(s) => \E t \in Sessions : ses[t].wakeup = s
    /\ \A t \in Sessions : ses[t].wakeup # NoSession =>
          /\ Waiting(ses[t].wakeup)
          /\ ses[t].user /\ ~ses[t].authErr
          /\ Listed(t) \/ pc[t] \in {"fin2", "fin3"}
    /\ \A t, u \in Sessions :
          ses[t].wakeup = ses[u].wakeup => t = u \/ ses[t].wakeup = NoSession

SInv == TypeOK /\ LifeInv /\ ListInv /\ WakeInv

-----------------------------------------------------------------------------
(* The arithmetic of the unsigned counters.                                *)
LEMMA ModRange ==
    ASSUME NEW M \in Nat \ {0}, NEW n \in Nat
    PROVE  n % M \in 0..(M - 1)
OBVIOUS

LEMMA ModInside ==
    ASSUME NEW M \in Nat \ {0}, NEW n \in 0..(M - 1)
    PROVE  n % M = n /\ (n + M) % M = n
<1>1. n % M = n
  OBVIOUS
<1>2. (n + M) % M = n
  OBVIOUS
<1>3. QED
  BY <1>1, <1>2

LEMMA UIntModType == UIntMod \in Nat \ {0} /\ Cardinality(Sessions) \in 0..(UIntMod - 1)
BY SessionAssumption, FS_CardinalityType

(* The counters stay in their range, whatever is added or taken away.      *)
LEMMA CounterStep ==
    ASSUME TypeOK, NEW c \in Counter, Inc(c) \/ Dec(c)
    PROVE  cnt' \in [Counter -> 0..(UIntMod - 1)]
<1>1. cnt[c] + 1 \in Nat /\ cnt[c] + UIntMod - 1 \in Nat
  BY UIntModType DEF TypeOK
<1>2. CASE Inc(c)
  <2>1. (cnt[c] + 1) % UIntMod \in 0..(UIntMod - 1)
    BY <1>1, ModRange, UIntModType
  <2>2. QED
    BY <2>1, <1>2 DEF Inc, TypeOK
<1>3. CASE Dec(c)
  <2>1. (cnt[c] + UIntMod - 1) % UIntMod \in 0..(UIntMod - 1)
    BY <1>1, ModRange, UIntModType
  <2>2. QED
    BY <2>1, <1>3 DEF Dec, TypeOK
<1>4. QED
  BY <1>2, <1>3

LEMMA TypeInit == Init => TypeOK
<1> SUFFICES ASSUME Init PROVE TypeOK
  OBVIOUS
<1>1. NewSession \in SessionRecord
  BY DEF NewSession, SessionRecord
<1>2. ses \in [Sessions -> SessionRecord] /\ calls \in [Sessions -> Seq({"soft", "hard", "auth"})]
  BY <1>1 DEF Init
<1>3. cnt \in [Counter -> 0..(UIntMod - 1)]
  BY UIntModType DEF Init
<1>4. pc \in [Sessions -> PC] /\ list \in Seq(Sessions)
  BY DEF Init, PC
<1>5. stopper \in [Stoppers -> StopperPC]
  BY DEF Init, StopperPC
<1>6. QED
  BY <1>2, <1>3, <1>4, <1>5 DEF Init, TypeOK

LEMMA TypeRest ==
    ASSUME TypeOK, UNCHANGED admin,
           pc' \in [Sessions -> PC], ses' \in [Sessions -> SessionRecord],
           calls' \in [Sessions -> Seq({"soft", "hard", "auth"})],
           list' \in Seq(Sessions), cnt' \in [Counter -> 0..(UIntMod - 1)]
    PROVE  TypeOK'
BY DEF TypeOK, admin

(* A session's record stays one when its fields are set.                   *)
LEMMA RecordStep ==
    ASSUME NEW r \in SessionRecord, NEW a \in BOOLEAN, NEW b \in BOOLEAN,
           NEW x \in Sessions \cup {NoSession},
           NEW st \in {"none", "starting", "active", "finishing"}
    PROVE  /\ [r EXCEPT !.state = st] \in SessionRecord
           /\ [r EXCEPT !.authErr = a] \in SessionRecord
           /\ [r EXCEPT !.user = a, !.authErr = b] \in SessionRecord
           /\ [r EXCEPT !.user = a, !.authed = b] \in SessionRecord
           /\ [r EXCEPT !.woken = a, !.authed = b] \in SessionRecord
           /\ [r EXCEPT !.authed = a] \in SessionRecord
           /\ [r EXCEPT !.hard = a] \in SessionRecord
           /\ [r EXCEPT !.woken = a] \in SessionRecord
           /\ [r EXCEPT !.wakeup = x] \in SessionRecord
BY DEF SessionRecord

LEMMA SetSesType ==
    ASSUME TypeOK, NEW s \in Sessions, NEW r \in SessionRecord, SetSes(s, r)
    PROVE  ses' \in [Sessions -> SessionRecord]
BY DEF SetSes, TypeOK

LEMMA TypeArrival ==
    ASSUME TypeOK, NEW s \in Sessions, NEW f \in BOOLEAN,
           \/ RecvPadr(s) \/ PadrCheckSlot(s) \/ PadrTakeSlot(s, f) \/ Accept(s)
           \/ StartCheck(s) \/ StartCount(s) \/ StartLink(s)
    PROVE  TypeOK'
<1>1. CASE RecvPadr(s)
  BY <1>1 DEF TypeOK, RecvPadr, At, PC, admin
<1>2. CASE PadrCheckSlot(s)
  BY <1>2 DEF TypeOK, PadrCheckSlot, At, PC, admin
<1>3. CASE PadrTakeSlot(s, f)
  <2>1. cnt' \in [Counter -> 0..(UIntMod - 1)]
    BY <1>3, CounterStep DEF PadrTakeSlot, Counter, TypeOK
  <2>2. QED
    BY <1>3, <2>1 DEF TypeOK, PadrTakeSlot, At, PC, admin
<1>4. CASE Accept(s)
  BY <1>4 DEF TypeOK, Accept, At, PC, admin
<1>5. CASE StartCheck(s)
  <2>1. cnt' \in [Counter -> 0..(UIntMod - 1)]
    BY <1>5, CounterStep DEF StartCheck, Counter, TypeOK
  <2>2. QED
    BY <1>5, <2>1 DEF TypeOK, StartCheck, At, PC, admin
<1>6. CASE StartCount(s)
  <2>1. cnt' \in [Counter -> 0..(UIntMod - 1)]
    BY <1>6, CounterStep DEF StartCount, Counter
  <2>2. ses' \in [Sessions -> SessionRecord]
    <3>1. ses[s] \in SessionRecord
      BY DEF TypeOK
    <3>2. [ses[s] EXCEPT !.state = "starting"] \in SessionRecord
      BY <3>1 DEF SessionRecord
    <3>3. QED
      BY <3>2, <1>6 DEF TypeOK, StartCount, SetSes
  <2>3. QED
    BY <1>6, <2>1, <2>2 DEF TypeOK, StartCount, At, PC, admin
<1>7. CASE StartLink(s)
  BY <1>7 DEF TypeOK, StartLink, At, PC, admin
<1>8. QED
  BY <1>1, <1>2, <1>3, <1>4, <1>5, <1>6, <1>7

LEMMA TypeName ==
    ASSUME TypeOK, NEW s \in Sessions, NEW w \in Sessions \cup {NoSession},
           \/ DenyUsername(s) \/ TakeUsername(s, w) \/ Resume(s) \/ AuthFailed(s)
    PROVE  TypeOK'
<1> ses[s] \in SessionRecord /\ TRUE \in BOOLEAN /\ FALSE \in BOOLEAN
  BY DEF TypeOK
<1>1. CASE DenyUsername(s)
  <2>1. ses' \in [Sessions -> SessionRecord]
    <3>1. [ses[s] EXCEPT !.authErr = TRUE] \in SessionRecord
      BY RecordStep
    <3>2. QED
      BY <3>1, <1>1, SetSesType DEF DenyUsername
  <2>2. QED
    BY <1>1, <2>1 DEF TypeOK, DenyUsername, PC, admin
<1>2. CASE TakeUsername(s, w)
  <2>1. ses' \in [Sessions -> SessionRecord]
    <3>1. PICK b \in BOOLEAN : b = (w = NoSession /\ Kind[s] = "ipoe")
      OBVIOUS
    <3>2. [ses[s] EXCEPT !.user = TRUE, !.authed = b] \in SessionRecord
      BY RecordStep
    <3>3. \A t \in Sessions : [ses[t] EXCEPT !.wakeup = s] \in SessionRecord
      BY RecordStep DEF TypeOK
    <3>4. ses' = [t \in Sessions |->
                 IF t = s
                 THEN [ses[s] EXCEPT !.user = TRUE, !.authed = b]
                 ELSE IF t = w THEN [ses[t] EXCEPT !.wakeup = s]
                 ELSE ses[t]]
      BY <3>1, <1>2, Zenon DEF TakeUsername
    <3>5. QED
      BY <3>2, <3>3, <3>4 DEF TypeOK
  <2>2. calls' \in [Sessions -> Seq({"soft", "hard", "auth"})]
    <3>1. \A t \in Sessions : /\ Append(calls[t], "soft") \in Seq({"soft", "hard", "auth"})
                              /\ Append(calls[t], "auth") \in Seq({"soft", "hard", "auth"})
      BY DEF TypeOK
    <3>2. \A t \in Sessions : calls'[t] \in Seq({"soft", "hard", "auth"})
      BY <3>1, <1>2, Zenon DEF TypeOK, TakeUsername
    <3>3. QED
      BY <3>2, <1>2, Zenon DEF TakeUsername
  <2>3. pc' \in [Sessions -> PC]
    BY <1>2 DEF TypeOK, TakeUsername, PC
  <2>4. QED
    BY <1>2, <2>1, <2>2, <2>3, TypeRest DEF TakeUsername, TypeOK
<1>3. CASE Resume(s)
  <2>1. PICK b \in BOOLEAN : b = (Kind[s] = "ipoe")
    OBVIOUS
  <2>2. ses' \in [Sessions -> SessionRecord]
    <3>1. [ses[s] EXCEPT !.woken = FALSE, !.authed = b] \in SessionRecord
      BY RecordStep
    <3>2. SetSes(s, [ses[s] EXCEPT !.woken = FALSE, !.authed = b])
      BY <1>3, <2>1, Zenon DEF Resume
    <3>3. QED
      BY <3>1, <3>2, SetSesType
  <2>3. pc' \in [Sessions -> PC] /\ UNCHANGED <<list, cnt, admin>>
    BY <1>3 DEF TypeOK, Resume, At, PC
  <2>4. calls' \in [Sessions -> Seq({"soft", "hard", "auth"})]
    BY <1>3 DEF TypeOK, Resume
  <2>5. QED
    BY <2>2, <2>3, <2>4, TypeRest DEF TypeOK
<1>4. CASE AuthFailed(s)
  <2>1. ses' \in [Sessions -> SessionRecord]
    <3>1. [ses[s] EXCEPT !.user = TRUE, !.authErr = TRUE] \in SessionRecord
      BY RecordStep
    <3>2. QED
      BY <3>1, <1>4, SetSesType DEF AuthFailed
  <2>2. QED
    BY <1>4, <2>1 DEF TypeOK, AuthFailed, PC, admin
<1>5. QED
  BY <1>1, <1>2, <1>3, <1>4

LEMMA TypeActivate ==
    ASSUME TypeOK, NEW s \in Sessions,
           \/ Activate(s) \/ IpoeStarting(s) \/ IpoeIncoming(s)
           \/ ActivateStarting(s) \/ ActivateIncoming(s) \/ ActivateActive(s)
    PROVE  TypeOK'
<1> ses[s] \in SessionRecord /\ TRUE \in BOOLEAN /\ FALSE \in BOOLEAN
  BY DEF TypeOK
<1>1. CASE Activate(s)
  <2>1. ses' \in [Sessions -> SessionRecord]
    <3>1. [ses[s] EXCEPT !.authed = FALSE] \in SessionRecord
      BY RecordStep
    <3>2. QED
      BY <3>1, <1>1, SetSesType DEF Activate
  <2>2. QED
    BY <1>1, <2>1 DEF TypeOK, Activate, ActivateFrom, At, PC, admin
<1>2. CASE \/ IpoeStarting(s) \/ IpoeIncoming(s)
           \/ ActivateStarting(s) \/ ActivateIncoming(s) \/ ActivateActive(s)
  <2>1. cnt' \in [Counter -> 0..(UIntMod - 1)]
    BY <1>2, CounterStep DEF IpoeStarting, IpoeIncoming, ActivateStarting,
          ActivateIncoming, ActivateActive, Counter
  <2>2. ses' \in [Sessions -> SessionRecord]
    <3>1. [ses[s] EXCEPT !.state = "active"] \in SessionRecord
      BY RecordStep
    <3>2. CASE ActivateStarting(s)
      BY <3>1, <3>2, SetSesType DEF ActivateStarting
    <3>3. CASE ~ActivateStarting(s)
      BY <3>3, <1>2 DEF IpoeStarting, IpoeIncoming, ActivateIncoming, ActivateActive, TypeOK
    <3>4. QED
      BY <3>2, <3>3
  <2>3. pc' \in [Sessions -> PC]
    BY <1>2 DEF TypeOK, IpoeStarting, IpoeIncoming, ActivateStarting,
          ActivateIncoming, ActivateActive, ActivateFrom, At, PC
  <2>4. UNCHANGED <<calls, list, admin>>
    BY <1>2 DEF IpoeStarting, IpoeIncoming, ActivateStarting, ActivateIncoming, ActivateActive
  <2>5. QED
    BY <2>1, <2>2, <2>3, <2>4, TypeRest DEF TypeOK
<1>3. QED
  BY <1>1, <1>2

LEMMA TypeTerminateStep ==
    ASSUME TypeOK, NEW s \in Sessions, NEW b \in BOOLEAN, TerminateStep(s, b)
    PROVE  ses' \in [Sessions -> SessionRecord] /\ pc' \in [Sessions -> PC]
<1>1. [ses[s] EXCEPT !.hard = b] \in SessionRecord
  BY RecordStep DEF TypeOK
<1>2. SetSes(s, [ses[s] EXCEPT !.hard = b])
  BY DEF TerminateStep
<1>3. QED
  BY <1>1, <1>2, SetSesType DEF TerminateStep, TypeOK, PC

LEMMA TypeTerminate ==
    ASSUME TypeOK, NEW s \in Sessions, NEW b \in BOOLEAN,
           \/ RunCall(s) \/ PeerLeaves(s, b) \/ LowerFinished(s)
           \/ TerminateCount(s) \/ TerminateIncoming(s) \/ TerminateLower(s, b)
    PROVE  TypeOK'
<1>1. CASE RunCall(s)
  <2>1. calls' \in [Sessions -> Seq({"soft", "hard", "auth"})]
    BY <1>1 DEF TypeOK, RunCall
  <2>2. ses' \in [Sessions -> SessionRecord] /\ pc' \in [Sessions -> PC]
    <3>1. CASE Head(calls[s]) = "auth"
      <4>1. PICK c \in BOOLEAN : c = (ses[s].state # "finishing")
        OBVIOUS
      <4>2. [ses[s] EXCEPT !.authed = c] \in SessionRecord
        BY RecordStep DEF TypeOK
      <4>3. SetSes(s, [ses[s] EXCEPT !.authed = c]) /\ UNCHANGED pc
        BY <1>1, <3>1, <4>1, Zenon DEF RunCall
      <4>4. QED
        BY <4>2, <4>3, SetSesType DEF TypeOK
    <3>2. CASE Head(calls[s]) # "auth"
      <4>1. PICK c \in BOOLEAN : c = (Head(calls[s]) = "hard")
        OBVIOUS
      <4>2. TerminateStep(s, c)
        BY <1>1, <3>2, <4>1, Zenon DEF RunCall
      <4>3. QED
        BY <4>2, TypeTerminateStep
    <3>3. QED
      BY <3>1, <3>2
  <2>3. QED
    BY <1>1, <2>1, <2>2, TypeRest DEF RunCall, TypeOK
<1>2. CASE PeerLeaves(s, b)
  <2>1. ses' \in [Sessions -> SessionRecord] /\ pc' \in [Sessions -> PC]
    BY <1>2, TypeTerminateStep DEF PeerLeaves
  <2>2. QED
    BY <1>2, <2>1, TypeRest DEF TypeOK, PeerLeaves
<1>3. CASE LowerFinished(s)
  BY <1>3 DEF TypeOK, LowerFinished, At, PC, admin
<1>4. CASE TerminateCount(s) \/ TerminateIncoming(s)
  <2>1. cnt' \in [Counter -> 0..(UIntMod - 1)]
    BY <1>4, CounterStep DEF TerminateCount, TerminateIncoming, Counter
  <2>2. QED
    BY <1>4, <2>1 DEF TypeOK, TerminateCount, TerminateIncoming, At, PC, admin
<1>5. CASE TerminateLower(s, b)
  <2>1. cnt' \in [Counter -> 0..(UIntMod - 1)]
    BY <1>5, CounterStep DEF TerminateLower, Counter, TypeOK
  <2>2. [ses[s] EXCEPT !.state = "finishing"] \in SessionRecord
    BY RecordStep DEF TypeOK
  <2>3. ses' \in [Sessions -> SessionRecord]
    BY <1>5, <2>2, SetSesType DEF TerminateLower
  <2>4. QED
    BY <1>5, <2>1, <2>3 DEF TypeOK, TerminateLower, At, PC, admin
<1>6. QED
  BY <1>1, <1>2, <1>3, <1>4, <1>5

(* Taking one entry out of a sequence.                                     *)
LEMMA RemoveAtFacts ==
    ASSUME NEW S, NEW q \in Seq(S), NEW i \in 1..Len(q)
    PROVE  /\ RemoveAt(q, i) \in Seq(S)
           /\ Len(RemoveAt(q, i)) = Len(q) - 1
           /\ \A j \in 1..(Len(q) - 1) :
                 RemoveAt(q, i)[j] = IF j < i THEN q[j] ELSE q[j + 1]
<1>1. /\ SubSeq(q, 1, i - 1) \in Seq(S) /\ Len(SubSeq(q, 1, i - 1)) = i - 1
      /\ \A j \in 1..(i - 1) : SubSeq(q, 1, i - 1)[j] = q[j]
  OBVIOUS
<1>2. /\ SubSeq(q, i + 1, Len(q)) \in Seq(S) /\ Len(SubSeq(q, i + 1, Len(q))) = Len(q) - i
      /\ \A j \in 1..(Len(q) - i) : SubSeq(q, i + 1, Len(q))[j] = q[i + j]
  OBVIOUS
<1> DEFINE p == SubSeq(q, 1, i - 1)
           r == SubSeq(q, i + 1, Len(q))
<1>3. /\ p \o r \in Seq(S) /\ Len(p \o r) = Len(p) + Len(r)
      /\ \A j \in 1..(Len(p) + Len(r)) :
            (p \o r)[j] = IF j <= Len(p) THEN p[j] ELSE r[j - Len(p)]
  BY <1>1, <1>2, ConcatProperties
<1>4. RemoveAt(q, i) = p \o r
  BY DEF RemoveAt
<1> HIDE DEF p, r
<1>5. Len(p) = i - 1 /\ Len(r) = Len(q) - i /\ Len(q) \in Nat
  BY <1>1, <1>2 DEF p, r
<1>6. \A j \in 1..(i - 1) : p[j] = q[j]
  BY <1>1 DEF p
<1>7. \A j \in 1..(Len(q) - i) : r[j] = q[i + j]
  BY <1>2 DEF r
<1>8. ASSUME NEW j \in 1..(Len(q) - 1)
      PROVE  (p \o r)[j] = IF j < i THEN q[j] ELSE q[j + 1]
  <2>1. CASE j < i
    BY <1>3, <1>5, <1>6, <2>1
  <2>2. CASE ~(j < i)
    <3>1. (p \o r)[j] = r[j - (i - 1)]
      BY <1>3, <1>5, <2>2
    <3>2. r[j - (i - 1)] = q[i + (j - (i - 1))]
      BY <1>7, <2>2
    <3>3. QED
      BY <3>1, <3>2, <2>2
  <2>3. QED
    BY <2>1, <2>2
<1>9. RemoveAt(q, i) \in Seq(S)
  BY <1>3, <1>4
<1>10. Len(RemoveAt(q, i)) = Len(q) - 1
  BY <1>3, <1>4, <1>5
<1>11. QED
  BY <1>9, <1>10, <1>4, <1>8

LEMMA TypeFinish ==
    ASSUME TypeOK, NEW s \in Sessions,
           FinishUnlink(s) \/ FinishCount(s) \/ FinishWake(s) \/ FinishRead(s)
    PROVE  TypeOK'
<1>1. CASE FinishUnlink(s)
  <2>1. list' \in Seq(Sessions)
    BY <1>1, RemoveAtFacts DEF FinishUnlink, TypeOK
  <2>2. QED
    BY <1>1, <2>1 DEF FinishUnlink, TypeOK, At, PC
<1>2. CASE FinishCount(s)
  <2>1. cnt' \in [Counter -> 0..(UIntMod - 1)]
    <3>2. \A c \in Counter : cnt[c] + UIntMod - 1 \in Nat
      BY UIntModType DEF TypeOK
    <3>3. \A c \in Counter : (cnt[c] + UIntMod - 1) % UIntMod \in 0..(UIntMod - 1)
      BY <3>2, ModRange, UIntModType
    <3>4. QED
      BY <3>3, <1>2 DEF FinishCount, TypeOK
  <2>2. QED
    BY <1>2, <2>1 DEF FinishCount, TypeOK, At, PC, admin
<1>3. CASE FinishWake(s)
  <2>1. ses' \in [Sessions -> SessionRecord]
    <3>1. \A t \in Sessions : /\ [ses[t] EXCEPT !.wakeup = NoSession] \in SessionRecord
                              /\ [ses[t] EXCEPT !.woken = TRUE] \in SessionRecord
      BY RecordStep DEF TypeOK
    <3>2. QED
      BY <3>1, <1>3 DEF FinishWake, TypeOK
  <2>2. QED
    <3>1. calls' \in [Sessions -> Seq({"soft", "hard", "auth"})]
      BY <1>3 DEF FinishWake, TypeOK
    <3>2. pc' \in [Sessions -> PC]
      BY <1>3 DEF FinishWake, TypeOK, At, PC
    <3>3. QED
      BY <1>3, <2>1, <3>1, <3>2, TypeRest DEF FinishWake, TypeOK
<1>4. CASE FinishRead(s)
  <2>0. PICK c \in BOOLEAN : CallbackIf(c, stopper)
    BY <1>4 DEF FinishRead
  <2>1. stopper' \in [Stoppers -> StopperPC] /\ stopped' \in BOOLEAN
    BY <2>0 DEF CallbackIf, Called, TypeOK, StopperPC, Stoppers
  <2>2. pc' \in [Sessions -> PC]
    BY <1>4 DEF FinishRead, TypeOK, PC, ReadsNext
  <2>3. QED
    BY <1>4, <2>1, <2>2 DEF FinishRead, TypeOK
<1>5. QED
  BY <1>1, <1>2, <1>3, <1>4

LEMMA TypeStop ==
    ASSUME TypeOK,
           \/ SigTerm \/ MainShutdown \/ CliCancel
           \/ \E o \in {"soft", "default", "hard"} : CliShutdown(o)
           \/ \E t \in Stoppers : ShutdownRead(t) \/ ShutdownWalk(t)
    PROVE  TypeOK'
<1>1. CASE SigTerm
  BY <1>1 DEF SigTerm, TypeOK, StopperPC, Stoppers
<1>2. CASE MainShutdown
  BY <1>2 DEF MainShutdown, TypeOK, StopperPC, Stoppers
<1>3. CASE CliCancel
  BY <1>3 DEF CliCancel, TypeOK
<1>4. ASSUME NEW o \in {"soft", "default", "hard"}, CliShutdown(o) PROVE TypeOK'
  BY <1>4 DEF CliShutdown, TypeOK, StopperPC, Stoppers
<1>5. ASSUME NEW t \in Stoppers, ShutdownRead(t) PROVE TypeOK'
  <2>1. PICK next \in StopperPC, c \in BOOLEAN :
          CallbackIf(c, [stopper EXCEPT ![t] = next])
    BY <1>5 DEF ShutdownRead, ReadsNext, WalkNext, StopperPC
  <2>2. stopper' \in [Stoppers -> StopperPC] /\ stopped' \in BOOLEAN
    BY <2>1 DEF CallbackIf, Called, TypeOK, StopperPC, Stoppers
  <2>3. QED
    BY <1>5, <2>2 DEF ShutdownRead, TypeOK
<1>6. ASSUME NEW t \in Stoppers, ShutdownWalk(t) PROVE TypeOK'
  <2>1. PICK how \in {"soft", "hard"} :
          calls' = [u \in Sessions |-> IF Listed(u) THEN Append(calls[u], how) ELSE calls[u]]
    BY <1>6 DEF ShutdownWalk
  <2>2. calls' \in [Sessions -> Seq({"soft", "hard", "auth"})]
    BY <2>1 DEF TypeOK
  <2>3. QED
    BY <1>6, <2>2 DEF ShutdownWalk, TypeOK, StopperPC, Stoppers
<1>7. QED
  BY <1>1, <1>2, <1>3, <1>4, <1>5, <1>6

LEMMA TypeNext == TypeOK /\ [Next]_vars => TypeOK'
<1> SUFFICES ASSUME TypeOK, [Next]_vars PROVE TypeOK'
  OBVIOUS
<1>1. CASE UNCHANGED vars
  BY <1>1 DEF TypeOK, vars
<1>2. ASSUME NEW s \in Sessions, Discovers(s) \/ Accept(s) \/ Starts(s)
      PROVE  TypeOK'
  BY <1>2, TypeArrival DEF Discovers, Starts
<1>3. ASSUME NEW s \in Sessions, SetUsername(s) \/ Resume(s) \/ AuthFailed(s)
      PROVE  TypeOK'
  BY <1>3, TypeName DEF SetUsername
<1>4. ASSUME NEW s \in Sessions,
             \/ Activate(s) \/ IpoeStarting(s) \/ IpoeIncoming(s)
             \/ ActivateStarting(s) \/ ActivateIncoming(s) \/ ActivateActive(s)
      PROVE  TypeOK'
  BY <1>4, TypeActivate
<1>5. ASSUME NEW s \in Sessions,
             RunCall(s) \/ Finishes(s) \/ LowerFinished(s) \/ \E b \in BOOLEAN : PeerLeaves(s, b)
      PROVE  TypeOK'
  BY <1>5, TypeTerminate, TypeFinish DEF Finishes
<1>6. QED
  BY <1>1, <1>2, <1>3, <1>4, <1>5, TypeStop DEF Next, Runs, Stops

(* The variables keep their types, and the counters their range, for any   *)
(* set of sessions and any configuration.                                  *)
THEOREM TypeCorrect == Spec => []TypeOK
BY TypeInit, TypeNext, PTL DEF Spec
-----------------------------------------------------------------------------
(* The life of a session.                                                  *)

LEMMA LifeKept ==
    ASSUME TypeOK, TypeOK', NEW u \in Sessions, Life(u), TokenOnce(u),
           pc'[u] = pc[u], conf' = conf,
           ses'[u].state = ses[u].state, ses'[u].user = ses[u].user,
           ses'[u].authErr = ses[u].authErr, ses'[u].authed = ses[u].authed,
           calls'[u] = calls[u] \/ \E h \in {"soft", "hard"} : calls'[u] = Append(calls[u], h)
    PROVE  Life(u)' /\ TokenOnce(u)'
<1> DEFINE same == /\ \A i \in 1..Len(calls'[u]) : calls'[u][i] = "auth" =>
                        i \in 1..Len(calls[u]) /\ calls[u][i] = "auth"
                   /\ \A i \in 1..Len(calls[u]) :
                        i \in 1..Len(calls'[u]) /\ calls'[u][i] = calls[u][i]
<1>0. calls[u] \in Seq({"soft", "hard", "auth"})
  BY DEF TypeOK
<1>1. ASSUME calls'[u] = calls[u] PROVE same
  BY <1>0, <1>1
<1>2. ASSUME NEW h \in {"soft", "hard"}, calls'[u] = Append(calls[u], h) PROVE same
  BY <1>0, <1>2
<1>20. same
  BY <1>1, <1>2
<1>3. HasAuth(u)' <=> HasAuth(u)
  BY <1>20 DEF HasAuth
<1>4. Token(u)' <=> Token(u)
  BY <1>3 DEF Token
<1>5. TokenOnce(u)'
  BY <1>20, <1>3, <1>4 DEF TokenOnce
<1>6. Life(u)'
  BY <1>4 DEF Life
<1>7. QED
  BY <1>5, <1>6

LEMMA SameCalls ==
    ASSUME NEW u \in Sessions, calls'[u] = calls[u], ses'[u].authed = ses[u].authed
    PROVE  /\ HasAuth(u)' <=> HasAuth(u)
           /\ Token(u)' <=> Token(u)
BY DEF HasAuth, Token

LEMMA LifeArrival ==
    ASSUME TypeOK, LifeInv, NEW s \in Sessions, NEW f \in BOOLEAN,
           \/ RecvPadr(s) \/ PadrCheckSlot(s) \/ PadrTakeSlot(s, f) \/ Accept(s)
           \/ StartCheck(s) \/ StartCount(s) \/ StartLink(s)
    PROVE  LifeInv'
<1>1. TypeOK'
  BY TypeArrival
<1>2. UNCHANGED <<calls, conf>>
  BY DEF RecvPadr, PadrCheckSlot, PadrTakeSlot, Accept, StartCheck, StartCount, StartLink, admin
<1>3. ASSUME NEW u \in Sessions, u # s PROVE Life(u)' /\ TokenOnce(u)'
  <2>1. pc'[u] = pc[u]
    BY <1>3 DEF RecvPadr, PadrCheckSlot, PadrTakeSlot, Accept, StartCheck, StartCount,
                StartLink, At, TypeOK
  <2>2. ses'[u] = ses[u]
    BY <1>3 DEF RecvPadr, PadrCheckSlot, PadrTakeSlot, Accept, StartCheck, StartCount,
                StartLink, SetSes, TypeOK
  <2>3. QED
    BY <1>1, <1>2, <2>1, <2>2, LifeKept DEF LifeInv
<1>4. /\ ses'[s].user = ses[s].user /\ ses'[s].authErr = ses[s].authErr
      /\ ses'[s].authed = ses[s].authed
  BY DEF RecvPadr, PadrCheckSlot, PadrTakeSlot, Accept, StartCheck, StartCount, StartLink,
         SetSes, TypeOK, SessionRecord
<1>5. HasAuth(s)' <=> HasAuth(s)
  BY <1>2, <1>4, SameCalls
<1>6. Token(s)' <=> Token(s)
  BY <1>2, <1>4, SameCalls
<1>7. TokenOnce(s)'
  BY <1>2, <1>4, <1>5, <1>6 DEF TokenOnce, LifeInv
<1>8. Life(s)'
  <2>0. Life(s) /\ Kind[s] \in {"pppoe", "tunnel", "ipoe"}
    BY SessionAssumption DEF LifeInv
  <2>1. CASE RecvPadr(s) \/ PadrCheckSlot(s) \/ PadrTakeSlot(s, f)
    <3>1. /\ pc[s] \in {"none", "padr", "slot"} /\ pc'[s] \in {"none", "padr", "slot", "conn", "gone"}
          /\ pc'[s] \in {"padr", "slot"} => Kind[s] = "pppoe"
          /\ ses'[s].state = ses[s].state
      BY <2>0, <2>1 DEF RecvPadr, PadrCheckSlot, PadrTakeSlot, At, TypeOK, Life
    <3>2. QED
      BY <3>1, <2>0, <1>2, <1>4, <1>6 DEF Life, Before, Linked, Reading
  <2>2. CASE Accept(s)
    <3>1. pc[s] = "none" /\ pc'[s] = "conn" /\ ses'[s].state = ses[s].state
      BY <2>2 DEF Accept, At, TypeOK
    <3>2. QED
      BY <3>1, <2>0, <1>2, <1>4, <1>6 DEF Life, Before, Linked, Reading
  <2>3. CASE StartCheck(s)
    <3>1. /\ pc[s] = "conn" /\ pc'[s] \in {"checked", "idle", "gone"}
          /\ pc'[s] = "idle" => Kind[s] = "ipoe"
          /\ ses'[s].state = ses[s].state
      BY <2>3 DEF StartCheck, At, TypeOK
    <3>2. QED
      BY <3>1, <2>0, <1>2, <1>4, <1>6 DEF Life, Before, Linked, Reading
  <2>4. CASE StartCount(s)
    <3>1. pc[s] = "checked" /\ pc'[s] = "counted" /\ ses'[s].state = "starting"
      BY <2>4 DEF StartCount, At, SetSes, TypeOK, SessionRecord
    <3>2. QED
      BY <3>1, <2>0, <1>2, <1>4, <1>6 DEF Life, Before, Linked, Reading
  <2>5. CASE StartLink(s)
    <3>1. pc[s] = "counted" /\ pc'[s] = "idle" /\ ses'[s].state = ses[s].state
      BY <2>5 DEF StartLink, At, TypeOK
    <3>2. QED
      BY <3>1, <2>0, <1>2, <1>4, <1>6 DEF Life, Before, Linked, Reading
  <2>6. QED
    BY <2>1, <2>2, <2>3, <2>4, <2>5
<1>9. QED
  BY <1>3, <1>7, <1>8 DEF LifeInv

LEMMA LifeName ==
    ASSUME TypeOK, LifeInv, NEW s \in Sessions, NEW w \in Sessions \cup {NoSession},
           \/ DenyUsername(s) \/ TakeUsername(s, w) \/ Resume(s) \/ AuthFailed(s)
    PROVE  LifeInv'
<1>1. TypeOK'
  BY TypeName
<1>2. conf' = conf
  BY DEF DenyUsername, TakeUsername, Resume, AuthFailed, admin
<1>3. ASSUME NEW u \in Sessions, u # s PROVE Life(u)' /\ TokenOnce(u)'
  <2>1. pc'[u] = pc[u]
    BY <1>3 DEF DenyUsername, TakeUsername, Resume, AuthFailed, At, TypeOK
  <2>2. /\ ses'[u].state = ses[u].state /\ ses'[u].user = ses[u].user
        /\ ses'[u].authErr = ses[u].authErr /\ ses'[u].authed = ses[u].authed
    <3>1. ses \in [Sessions -> SessionRecord]
      BY DEF TypeOK
    <3>2. CASE TakeUsername(s, w)
      BY <3>1, <3>2, <1>3 DEF TakeUsername, SessionRecord
    <3>3. CASE DenyUsername(s) \/ Resume(s) \/ AuthFailed(s)
      <4>1. ses'[u] = ses[u]
        BY <3>1, <3>3, <1>3 DEF DenyUsername, Resume, AuthFailed, SetSes
      <4>2. QED
        BY <4>1
    <3>4. QED
      BY <3>2, <3>3
  <2>3. calls'[u] = calls[u] \/ calls'[u] = Append(calls[u], "soft")
    BY <1>3 DEF DenyUsername, TakeUsername, Resume, AuthFailed, TypeOK
  <2>4. QED
    BY <1>1, <1>2, <2>1, <2>2, <2>3, LifeKept DEF LifeInv
<1>4. Life(s) /\ TokenOnce(s) /\ s \in conf.arrive
  <2>1. pc[s] # "gone"
    BY DEF DenyUsername, TakeUsername, Resume, AuthFailed, At, Authenticating
  <2>2. QED
    BY <2>1 DEF LifeInv, Life
<1>5. CASE DenyUsername(s) \/ AuthFailed(s)
  <2>1. /\ pc[s] = "idle" /\ pc'[s] = "term1" /\ calls' = calls
        /\ ses'[s].state = ses[s].state /\ ses[s].state \in {"starting", "none"}
        /\ ses'[s].authErr = TRUE /\ ses'[s].authed = ses[s].authed /\ ~ses[s].user
    <3>1. /\ pc[s] = "idle" /\ pc'[s] = "term1" /\ calls' = calls
          /\ ses[s].state \in {"starting", "none"} /\ ~ses[s].user
      BY <1>5 DEF DenyUsername, AuthFailed, Authenticating, TypeOK
    <3>2. ses \in [Sessions -> SessionRecord]
      BY DEF TypeOK
    <3>3. CASE DenyUsername(s)
      BY <3>1, <3>2, <3>3 DEF DenyUsername, SetSes, SessionRecord
    <3>4. CASE AuthFailed(s)
      BY <3>1, <3>2, <3>4 DEF AuthFailed, SetSes, SessionRecord
    <3>5. QED
      BY <1>5, <3>3, <3>4
  <2>2. ~HasAuth(s)' /\ ~Token(s)' /\ ~HasAuth(s)
    BY <2>1, <1>4, SameCalls DEF TokenOnce, Token
  <2>3. TokenOnce(s)'
    BY <2>1, <2>2, <1>4 DEF TokenOnce
  <2>4. Life(s)'
    BY <2>1, <2>2, <1>2, <1>4 DEF Life, Before, Linked, Reading
  <2>5. QED
    BY <2>3, <2>4, <1>3 DEF LifeInv
<1>6. CASE TakeUsername(s, w)
  <2>1. /\ pc[s] = "idle" /\ ses'[s].state = ses[s].state /\ ses[s].state \in {"starting", "none"}
        /\ ses'[s].authErr = ses[s].authErr /\ ~ses[s].user /\ ses'[s].user
        /\ ~HasAuth(s) /\ ~ses[s].authErr
    BY <1>6, <1>4 DEF TakeUsername, Authenticating, TypeOK, SessionRecord, TokenOnce, Token, Life
  <2>2. ~Duplicate(s, s)
    BY <2>1 DEF Duplicate
  <2>3. CASE w # NoSession
    <3>1. pc'[s] = "asleep" /\ calls'[s] = calls[s] /\ ~ses'[s].authed
      BY <1>6, <2>2, <2>3 DEF TakeUsername, Duplicates, TypeOK, SessionRecord
    <3>2. ~HasAuth(s)' /\ ~Token(s)'
      BY <3>1, <2>1 DEF HasAuth, Token
    <3>3. TokenOnce(s)'
      BY <3>1, <3>2, <1>4 DEF TokenOnce
    <3>4. Life(s)'
      BY <3>1, <3>2, <2>1, <1>2, <1>4 DEF Life, Before, Linked, Reading
    <3>5. QED
      BY <3>3, <3>4, <1>3 DEF LifeInv
  <2>4. CASE w = NoSession /\ Kind[s] = "ipoe"
    <3>1. pc'[s] = "idle" /\ calls'[s] = calls[s]
      BY <1>6, <2>1, <2>2, <2>4 DEF TakeUsername, Duplicates, TypeOK, SessionRecord
    <3>2. ~HasAuth(s)'
      BY <3>1, <2>1 DEF HasAuth
    <3>3. TokenOnce(s)'
      BY <3>1, <3>2, <2>1, <1>4 DEF TokenOnce
    <3>4. Life(s)'
      BY <3>1, <3>2, <2>1, <1>2, <1>4 DEF Life, Before, Linked, Reading
    <3>5. QED
      BY <3>3, <3>4, <1>3 DEF LifeInv
  <2>5. CASE w = NoSession /\ Kind[s] # "ipoe"
    <3>1. pc'[s] = "idle" /\ calls'[s] = Append(calls[s], "auth") /\ ~ses'[s].authed
      BY <1>6, <2>1, <2>2, <2>5 DEF TakeUsername, Duplicates, TypeOK, SessionRecord
    <3>2. \A i \in 1..Len(calls'[s]) : calls'[s][i] = "auth" => i = Len(calls[s]) + 1
      BY <3>1, <2>1 DEF HasAuth, TypeOK
    <3>3. TokenOnce(s)'
      BY <3>1, <3>2, <2>1 DEF TokenOnce
    <3>4. Life(s)'
      BY <3>1, <2>1, <1>2, <1>4 DEF Life, Before, Linked, Reading
    <3>5. QED
      BY <3>3, <3>4, <1>3 DEF LifeInv
  <2>6. QED
    BY <2>3, <2>4, <2>5
<1>7. CASE Resume(s)
  <2>1. /\ pc[s] = "asleep" /\ pc'[s] = "idle" /\ ses'[s].state = ses[s].state
        /\ ses'[s].authErr = ses[s].authErr /\ ses'[s].user = ses[s].user
        /\ ses[s].user /\ ~ses[s].authErr /\ ~HasAuth(s)
        /\ ses[s].state \in {"starting", "none"}
    BY <1>7, <1>4 DEF Resume, At, SetSes, TypeOK, SessionRecord, Token, Life
  <2>2. Life(s)'
    BY <2>1, <1>2, <1>4 DEF Life, Before, Linked, Reading
  <2>3. CASE Kind[s] = "ipoe"
    <3>1. calls'[s] = calls[s]
      BY <1>7, <2>3 DEF Resume
    <3>2. ~HasAuth(s)'
      BY <3>1, <2>1 DEF HasAuth
    <3>3. TokenOnce(s)'
      BY <3>1, <3>2, <2>1, <1>4 DEF TokenOnce
    <3>4. QED
      BY <3>3, <2>2, <1>3 DEF LifeInv
  <2>4. CASE Kind[s] # "ipoe"
    <3>1. calls'[s] = Append(calls[s], "auth") /\ ~ses'[s].authed
      BY <1>7, <2>4 DEF Resume, SetSes, TypeOK, SessionRecord
    <3>2. \A i \in 1..Len(calls'[s]) : calls'[s][i] = "auth" => i = Len(calls[s]) + 1
      BY <3>1, <2>1 DEF HasAuth, TypeOK
    <3>3. TokenOnce(s)'
      BY <3>1, <3>2, <2>1 DEF TokenOnce
    <3>4. QED
      BY <3>3, <2>2, <1>3 DEF LifeInv
  <2>5. QED
    BY <2>3, <2>4
<1>8. QED
  BY <1>5, <1>6, <1>7

LEMMA LifeActivate ==
    ASSUME TypeOK, LifeInv, NEW s \in Sessions,
           \/ Activate(s) \/ IpoeStarting(s) \/ IpoeIncoming(s)
           \/ ActivateStarting(s) \/ ActivateIncoming(s) \/ ActivateActive(s)
    PROVE  LifeInv'
<1>1. TypeOK'
  BY TypeActivate
<1>2. UNCHANGED <<calls, conf>>
  BY DEF Activate, IpoeStarting, IpoeIncoming, ActivateStarting, ActivateIncoming,
         ActivateActive, admin
<1>3. ASSUME NEW u \in Sessions, u # s PROVE Life(u)' /\ TokenOnce(u)'
  <2>1. pc'[u] = pc[u]
    BY <1>3 DEF Activate, IpoeStarting, IpoeIncoming, ActivateStarting, ActivateIncoming,
         ActivateActive, At, TypeOK
  <2>2. ses'[u] = ses[u]
    BY <1>3 DEF Activate, IpoeStarting, IpoeIncoming, ActivateStarting, ActivateIncoming,
         ActivateActive, SetSes, TypeOK
  <2>3. QED
    BY <1>1, <1>2, <2>1, <2>2, LifeKept DEF LifeInv
<1>4. Life(s) /\ TokenOnce(s) /\ s \in conf.arrive
  <2>1. pc[s] # "gone"
    BY DEF Activate, IpoeStarting, IpoeIncoming, ActivateStarting, ActivateIncoming,
         ActivateActive, At
  <2>2. QED
    BY <2>1 DEF LifeInv, Life
<1>5. HasAuth(s)' <=> HasAuth(s)
  BY <1>2 DEF HasAuth
<1>6. ses'[s].user = ses[s].user /\ ses'[s].authErr = ses[s].authErr
  BY DEF Activate, IpoeStarting, IpoeIncoming, ActivateStarting, ActivateIncoming,
         ActivateActive, SetSes, TypeOK, SessionRecord
<1>7. CASE Activate(s)
  <2>1. /\ pc[s] = "idle" /\ pc'[s] \in {"ipoe1", "act1", "idle"}
        /\ pc'[s] = "ipoe1" => Kind[s] = "ipoe"
        /\ ses'[s].state = ses[s].state /\ ses[s].state # "finishing"
        /\ ses[s].authed /\ ~ses'[s].authed
    BY <1>7 DEF Activate, ActivateFrom, At, SetSes, TypeOK, SessionRecord
  <2>2. Token(s) /\ ~Token(s)' /\ ~HasAuth(s)
    BY <2>1, <1>4, <1>5 DEF Token, TokenOnce
  <2>3. ses[s].state \in {"none", "starting"}
    BY <2>1, <2>2, <1>4 DEF Life, TypeOK, SessionRecord
  <2>4. TokenOnce(s)'
    BY <2>1, <2>2, <1>2, <1>4, <1>5 DEF TokenOnce
  <2>5. ses[s].user /\ ~ses[s].authErr
    BY <2>2, <1>4 DEF TokenOnce
  <2>6. Life(s)'
    BY <2>1, <2>2, <2>3, <2>5, <1>2, <1>4, <1>6 DEF Life, Before, Linked, Reading
  <2>7. QED
    BY <2>4, <2>6, <1>3 DEF LifeInv
<1>8. CASE ~Activate(s)
  <2>1. ses'[s].authed = ses[s].authed
    BY <1>8 DEF IpoeStarting, IpoeIncoming, ActivateStarting, ActivateIncoming,
         ActivateActive, SetSes, TypeOK, SessionRecord
  <2>2. Token(s)' <=> Token(s)
    BY <2>1, <1>5 DEF Token
  <2>3. TokenOnce(s)'
    BY <2>1, <2>2, <1>2, <1>4, <1>5, <1>6 DEF TokenOnce
  <2>4. CASE IpoeStarting(s) \/ IpoeIncoming(s)
    <3>1. /\ pc[s] \in {"ipoe1", "ipoe2"} /\ pc'[s] \in {"ipoe2", "act1", "idle"}
          /\ ses'[s].state = ses[s].state
      BY <2>4 DEF IpoeStarting, IpoeIncoming, ActivateFrom, At, TypeOK
    <3>2. Life(s)'
      BY <3>1, <2>2, <1>2, <1>4, <1>6 DEF Life, Before, Linked, Reading
    <3>3. QED
      BY <3>2, <2>3, <1>3 DEF LifeInv
  <2>5. CASE ActivateStarting(s)
    <3>1. pc[s] = "act1" /\ pc'[s] = "act2" /\ ses'[s].state = "active"
      BY <2>5 DEF ActivateStarting, At, SetSes, TypeOK, SessionRecord
    <3>2. Life(s)'
      BY <3>1, <2>2, <1>2, <1>4, <1>6 DEF Life, Before, Linked, Reading
    <3>3. QED
      BY <3>2, <2>3, <1>3 DEF LifeInv
  <2>6. CASE ActivateIncoming(s) \/ ActivateActive(s)
    <3>1. /\ pc[s] \in {"act2", "act3"} /\ pc'[s] \in {"act3", "idle"}
          /\ ses'[s].state = ses[s].state
      BY <2>6 DEF ActivateIncoming, ActivateActive, At, TypeOK
    <3>2. Life(s)'
      BY <3>1, <2>2, <1>2, <1>4, <1>6 DEF Life, Before, Linked, Reading
    <3>3. QED
      BY <3>2, <2>3, <1>3 DEF LifeInv
  <2>7. QED
    BY <1>8, <2>4, <2>5, <2>6
<1>9. QED
  BY <1>7, <1>8

LEMMA LifeTerminateStep ==
    ASSUME TypeOK, NEW s \in Sessions, NEW b \in BOOLEAN, TerminateStep(s, b), pc[s] = "idle",
           Life(s), conf' = conf, Token(s)' => Token(s)
    PROVE  Life(s)'
<1>1. /\ pc'[s] = IF ses[s].state = "finishing" THEN IF b THEN "lower" ELSE "idle" ELSE "term1"
      /\ ses'[s].state = ses[s].state /\ ses'[s].user = ses[s].user
      /\ ses'[s].authErr = ses[s].authErr
  BY DEF TerminateStep, SetSes, TypeOK, SessionRecord
<1>2. QED
  BY <1>1 DEF Life, Before, Linked, Reading

LEMMA LifeTerminate ==
    ASSUME TypeOK, LifeInv, NEW s \in Sessions, NEW b \in BOOLEAN,
           \/ RunCall(s) \/ PeerLeaves(s, b) \/ LowerFinished(s)
           \/ TerminateCount(s) \/ TerminateIncoming(s) \/ TerminateLower(s, b)
    PROVE  LifeInv'
<1>1. TypeOK'
  BY TypeTerminate
<1>2. conf' = conf
  BY DEF RunCall, PeerLeaves, LowerFinished, TerminateCount, TerminateIncoming,
         TerminateLower, admin
<1>3. ASSUME NEW u \in Sessions, u # s PROVE Life(u)' /\ TokenOnce(u)'
  <2>1. pc'[u] = pc[u]
    BY <1>3 DEF RunCall, PeerLeaves, LowerFinished, TerminateCount, TerminateIncoming,
                TerminateLower, TerminateStep, At, TypeOK
  <2>2. ses'[u] = ses[u]
    BY <1>3 DEF RunCall, PeerLeaves, LowerFinished, TerminateCount, TerminateIncoming,
                TerminateLower, TerminateStep, SetSes, TypeOK
  <2>3. calls'[u] = calls[u]
    BY <1>3 DEF RunCall, PeerLeaves, LowerFinished, TerminateCount, TerminateIncoming,
                TerminateLower, TypeOK
  <2>4. QED
    BY <1>1, <1>2, <2>1, <2>2, <2>3, LifeKept DEF LifeInv
<1>4. Life(s) /\ TokenOnce(s) /\ s \in conf.arrive
  <2>1. pc[s] # "gone"
    BY DEF RunCall, PeerLeaves, LowerFinished, TerminateCount, TerminateIncoming,
           TerminateLower, At
  <2>2. QED
    BY <2>1 DEF LifeInv, Life
<1>5. /\ ses'[s].user = ses[s].user /\ ses'[s].authErr = ses[s].authErr
  BY DEF RunCall, PeerLeaves, LowerFinished, TerminateCount, TerminateIncoming,
         TerminateLower, TerminateStep, SetSes, TypeOK, SessionRecord
<1>6. CASE RunCall(s)
  <2>1. pc[s] = "idle" /\ calls[s] # <<>> /\ calls'[s] = Tail(calls[s])
        /\ calls[s] \in Seq({"soft", "hard", "auth"})
    BY <1>6 DEF RunCall, TypeOK
  <2>2. /\ Len(calls'[s]) = Len(calls[s]) - 1 /\ Head(calls[s]) = calls[s][1]
        /\ \A i \in 1..Len(calls'[s]) : calls'[s][i] = calls[s][i + 1]
    BY <2>1
  <2>3. Len(calls[s]) \in Nat \ {0}
    BY <2>1
  <2>4. \A i \in 1..Len(calls'[s]) : i + 1 \in 1..Len(calls[s]) /\ calls'[s][i] = calls[s][i + 1]
    BY <2>2, <2>3
  <2>5. HasAuth(s)' => HasAuth(s)
    BY <2>4 DEF HasAuth
  <2>6. \A i, j \in 1..Len(calls'[s]) :
          calls'[s][i] = "auth" /\ calls'[s][j] = "auth" => i = j
    <3> SUFFICES ASSUME NEW i \in 1..Len(calls'[s]), NEW j \in 1..Len(calls'[s]),
                        calls'[s][i] = "auth", calls'[s][j] = "auth"
                 PROVE  i = j
      OBVIOUS
    <3>1. i + 1 = j + 1
      BY <2>4, <1>4 DEF TokenOnce
    <3>2. QED
      BY <3>1, <2>2, <2>3
  <2>7. CASE Head(calls[s]) = "auth"
    <3>1. pc'[s] = pc[s] /\ ses'[s].state = ses[s].state /\ ses'[s].authed = (ses[s].state # "finishing")
      BY <1>6, <2>7 DEF RunCall, SetSes, TypeOK, SessionRecord
    <3>2. HasAuth(s) /\ Token(s)
      BY <2>2, <2>3, <2>7 DEF HasAuth, Token
    <3>3. ~HasAuth(s)'
      <4> SUFFICES ASSUME NEW i \in 1..Len(calls'[s]), calls'[s][i] = "auth" PROVE FALSE
        BY DEF HasAuth
      <4>1. calls[s][i + 1] = "auth" /\ calls[s][1] = "auth" /\ i + 1 \in 1..Len(calls[s])
            /\ 1 \in 1..Len(calls[s])
        BY <2>2, <2>3, <2>4, <2>7
      <4>2. i + 1 = 1
        BY <4>1, <1>4 DEF TokenOnce
      <4>3. QED
        BY <4>2
    <3>4. TokenOnce(s)'
      BY <3>2, <3>3, <2>6, <1>4, <1>5 DEF TokenOnce
    <3>5. ses[s].state # "active"
      BY <3>2, <1>4 DEF Life
    <3>6. Life(s)'
      BY <3>1, <3>5, <2>1, <1>2, <1>4, <1>5 DEF Life, Before, Linked, Reading
    <3>7. QED
      BY <3>4, <3>6, <1>3 DEF LifeInv
  <2>8. CASE Head(calls[s]) # "auth"
    <3>1. PICK c \in BOOLEAN : c = (Head(calls[s]) = "hard")
      OBVIOUS
    <3>2. TerminateStep(s, c)
      BY <1>6, <2>8, <3>1, Zenon DEF RunCall
    <3>3. ses'[s].authed = ses[s].authed
      BY <3>2 DEF TerminateStep, SetSes, TypeOK, SessionRecord
    <3>4. Token(s)' => Token(s)
      BY <3>3, <2>5 DEF Token
    <3>5. Life(s)'
      BY <3>2, <3>4, <2>1, <1>2, <1>4, LifeTerminateStep
    <3>6. TokenOnce(s)'
      BY <3>3, <3>4, <2>5, <2>6, <1>4, <1>5 DEF TokenOnce
    <3>7. QED
      BY <3>5, <3>6, <1>3 DEF LifeInv
  <2>9. QED
    BY <2>7, <2>8
<1>7. CASE ~RunCall(s)
  <2>1. calls'[s] = calls[s] /\ ses'[s].authed = ses[s].authed
    BY <1>7 DEF PeerLeaves, LowerFinished, TerminateCount, TerminateIncoming,
         TerminateLower, TerminateStep, SetSes, TypeOK, SessionRecord
  <2>2. HasAuth(s)' <=> HasAuth(s)
    BY <2>1, SameCalls
  <2>3. Token(s)' <=> Token(s)
    BY <2>1, SameCalls
  <2>4. TokenOnce(s)'
    BY <2>1, <2>2, <2>3, <1>4, <1>5 DEF TokenOnce
  <2>5. CASE PeerLeaves(s, b)
    <3>1. Life(s)'
      BY <2>3, <2>5, <1>2, <1>4, LifeTerminateStep DEF PeerLeaves
    <3>2. QED
      BY <3>1, <2>4, <1>3 DEF LifeInv
  <2>6. CASE LowerFinished(s)
    <3>1. /\ pc[s] = "idle" /\ pc'[s] = "fin1"
          /\ ses[s].state = "finishing" /\ ses'[s].state = "finishing"
      BY <2>6 DEF LowerFinished, At, TypeOK
    <3>2. Life(s)'
      BY <3>1, <2>3, <1>2, <1>4, <1>5 DEF Life, Before, Linked, Reading
    <3>3. QED
      BY <3>2, <2>4, <1>3 DEF LifeInv
  <2>7. CASE TerminateCount(s) \/ TerminateIncoming(s)
    <3>1. /\ pc[s] \in {"term1", "term2"} /\ pc'[s] \in {"lower", "term2"}
          /\ pc'[s] = "term2" => pc[s] = "term1" /\ ses[s].state # "active"
          /\ ses'[s].state = ses[s].state
      BY <2>7 DEF TerminateCount, TerminateIncoming, At, TypeOK
    <3>2. ses[s].state \in {"none", "starting", "active", "finishing"}
      BY DEF TypeOK, SessionRecord
    <3>3. Life(s)'
      BY <3>1, <3>2, <2>3, <1>2, <1>4, <1>5 DEF Life, Before, Linked, Reading
    <3>4. QED
      BY <3>3, <2>4, <1>3 DEF LifeInv
  <2>8. CASE TerminateLower(s, b)
    <3>1. /\ pc[s] = "lower" /\ pc'[s] \in {"fin1", "idle"} /\ ses'[s].state = "finishing"
      BY <2>8 DEF TerminateLower, At, SetSes, TypeOK, SessionRecord
    <3>2. Life(s)'
      BY <3>1, <2>3, <1>2, <1>4, <1>5 DEF Life, Before, Linked, Reading
    <3>3. QED
      BY <3>2, <2>4, <1>3 DEF LifeInv
  <2>9. QED
    BY <1>7, <2>5, <2>6, <2>7, <2>8
<1>8. QED
  BY <1>6, <1>7

LEMMA LifeFinish ==
    ASSUME TypeOK, LifeInv, NEW s \in Sessions,
           FinishUnlink(s) \/ FinishCount(s) \/ FinishWake(s) \/ FinishRead(s)
    PROVE  LifeInv'
<1>1. TypeOK'
  BY TypeFinish
<1>2. conf' = conf
  BY DEF FinishUnlink, FinishCount, FinishWake, FinishRead, admin
<1>3. ASSUME NEW u \in Sessions, u # s PROVE Life(u)' /\ TokenOnce(u)'
  <2>1. pc'[u] = pc[u]
    BY <1>3 DEF FinishUnlink, FinishCount, FinishWake, FinishRead, At, TypeOK
  <2>2. /\ ses'[u].state = ses[u].state /\ ses'[u].user = ses[u].user
        /\ ses'[u].authErr = ses[u].authErr /\ ses'[u].authed = ses[u].authed
    <3>1. CASE FinishWake(s)
      BY <1>3, <3>1 DEF FinishWake, TypeOK, SessionRecord
    <3>2. CASE ~FinishWake(s)
      BY <3>2 DEF FinishUnlink, FinishCount, FinishRead
    <3>3. QED
      BY <3>1, <3>2
  <2>3. calls'[u] = calls[u]
    BY <1>3 DEF FinishUnlink, FinishCount, FinishWake, FinishRead, TypeOK
  <2>4. QED
    BY <1>1, <1>2, <2>1, <2>2, <2>3, LifeKept DEF LifeInv
<1>4. Life(s) /\ TokenOnce(s) /\ s \in conf.arrive
  <2>1. pc[s] # "gone"
    BY DEF FinishUnlink, FinishCount, FinishWake, FinishRead, At, Reading
  <2>2. QED
    BY <2>1 DEF LifeInv, Life
<1>5. /\ ses'[s].state = ses[s].state /\ ses'[s].user = ses[s].user
      /\ ses'[s].authErr = ses[s].authErr /\ ses'[s].authed = ses[s].authed
  BY DEF FinishUnlink, FinishCount, FinishWake, FinishRead, TypeOK, SessionRecord
<1>6. /\ pc[s] \in {"fin1", "fin2", "fin3"} \cup Reading
      /\ pc'[s] \in {"fin2", "fin3", "gone"} \cup Reading
  BY DEF FinishUnlink, FinishCount, FinishWake, FinishRead, At, TypeOK, ReadsNext, Reading
<1>7. ses[s].state = "finishing"
  BY <1>4, <1>6 DEF Life
<1>8. Life(s)'
  BY <1>2, <1>4, <1>5, <1>6, <1>7 DEF Life, Before, Linked, Reading
<1>9. TokenOnce(s)'
  <2>1. CASE FinishWake(s)
    <3>1. calls'[s] = <<>>
      BY <2>1 DEF FinishWake, TypeOK
    <3>2. ~HasAuth(s)'
      BY <3>1 DEF HasAuth
    <3>3. QED
      BY <3>1, <3>2, <1>4, <1>5 DEF TokenOnce, Token
  <2>2. CASE ~FinishWake(s)
    <3>1. calls'[s] = calls[s]
      BY <2>2 DEF FinishUnlink, FinishCount, FinishRead
    <3>2. QED
      BY <3>1, <1>4, <1>5, SameCalls DEF TokenOnce
  <2>3. QED
    BY <2>1, <2>2
<1>10. QED
  BY <1>3, <1>8, <1>9 DEF LifeInv

Stop ==
    \/ SigTerm \/ MainShutdown \/ CliCancel
    \/ \E o \in {"soft", "default", "hard"} : CliShutdown(o)
    \/ \E t \in Stoppers : ShutdownRead(t) \/ ShutdownWalk(t)

(* A stopper touches no session but to queue a call for it.                *)
LEMMA StopFrame ==
    ASSUME TypeOK, Stop
    PROVE  /\ UNCHANGED <<pc, ses, list, cnt, conf>>
           /\ \A u \in Sessions : calls'[u] = calls[u]
                 \/ \E h \in {"soft", "hard"} : calls'[u] = Append(calls[u], h)
<1>1. CASE \E t \in Stoppers : ShutdownWalk(t)
  BY <1>1 DEF ShutdownWalk
<1>2. CASE ~ \E t \in Stoppers : ShutdownWalk(t)
  BY <1>2 DEF Stop, SigTerm, MainShutdown, CliCancel, CliShutdown, ShutdownRead
<1>3. QED
  BY <1>1, <1>2

LEMMA LifeStop == ASSUME TypeOK, LifeInv, Stop PROVE LifeInv'
<1>1. TypeOK'
  BY TypeStop DEF Stop
<1>2. QED
  BY <1>1, StopFrame, LifeKept DEF LifeInv

-----------------------------------------------------------------------------
(* ses_list.                                                               *)

LEMMA ListKept ==
    ASSUME TypeOK, ListInv, list' = list,
           \A u \in Sessions : pc'[u] \in Linked <=> pc[u] \in Linked
    PROVE  ListInv'
BY DEF ListInv, Listed

LEMMA ListStep ==
    ASSUME TypeOK, LifeInv, ListInv, NEW s \in Sessions,
           \A u \in Sessions : u # s => pc'[u] = pc[u],
           pc[s] \in Linked, pc'[s] \in Linked, list' = list
    PROVE  ListInv'
BY ListKept

LEMMA ListNext == TypeOK /\ LifeInv /\ ListInv /\ [Next]_vars => ListInv'
<1> SUFFICES ASSUME TypeOK, LifeInv, ListInv, [Next]_vars PROVE ListInv'
  OBVIOUS
<1> USE DEF Linked
<1>1. CASE UNCHANGED vars
  BY <1>1 DEF vars, ListInv, Listed
<1>2. CASE Stop
  BY <1>2, StopFrame, ListKept
<1>3. ASSUME NEW s \in Sessions, NEW f \in BOOLEAN,
             \/ RecvPadr(s) \/ PadrCheckSlot(s) \/ PadrTakeSlot(s, f) \/ Accept(s) \/ StartCount(s)
      PROVE  ListInv'
  <2>1. list' = list /\ pc[s] \notin Linked /\ pc'[s] \notin Linked
    BY <1>3 DEF RecvPadr, PadrCheckSlot, PadrTakeSlot, Accept, StartCount, At, TypeOK
  <2>2. \A u \in Sessions : u # s => pc'[u] = pc[u]
    BY <1>3 DEF RecvPadr, PadrCheckSlot, PadrTakeSlot, Accept, StartCount, At, TypeOK
  <2>3. QED
    BY <2>1, <2>2, ListKept
<1>4. ASSUME NEW s \in Sessions, StartCheck(s) PROVE ListInv'
  <2>1. /\ list' = list /\ pc[s] \notin Linked
        /\ pc'[s] \in Linked => Kind[s] = "ipoe"
    BY <1>4 DEF StartCheck, At, TypeOK
  <2>2. \A u \in Sessions : u # s => pc'[u] = pc[u]
    BY <1>4 DEF StartCheck, At, TypeOK
  <2>3. QED
    BY <2>1, <2>2 DEF ListInv, Listed
<1>5. ASSUME NEW s \in Sessions, StartLink(s) PROVE ListInv'
  <2>1. /\ list' = Append(list, s) /\ pc[s] \notin Linked /\ pc'[s] \in Linked
        /\ \A u \in Sessions : u # s => pc'[u] = pc[u]
    BY <1>5 DEF StartLink, At, TypeOK
  <2>2. ~Listed(s)
    BY <2>1 DEF ListInv
  <2>3. /\ Len(list') = Len(list) + 1 /\ list'[Len(list) + 1] = s /\ Len(list) \in Nat
        /\ \A i \in 1..Len(list) : list'[i] = list[i]
    BY <2>1 DEF TypeOK
  <2>4. \A u \in Sessions : Listed(u)' <=> Listed(u) \/ u = s
    BY <2>3 DEF Listed
  <2>5. \A i, j \in 1..Len(list') : list'[i] = list'[j] => i = j
    <3>1. \A i \in 1..Len(list') : i \in 1..Len(list) \/ i = Len(list) + 1
      BY <2>3
    <3>2. \A i \in 1..Len(list) : list'[i] # s
      BY <2>2, <2>3 DEF Listed
    <3>3. QED
      BY <3>1, <3>2, <2>3 DEF ListInv
  <2>6. QED
    BY <2>1, <2>4, <2>5 DEF ListInv
<1>6. ASSUME NEW s \in Sessions, NEW b \in BOOLEAN, NEW w \in Sessions \cup {NoSession},
             \/ DenyUsername(s) \/ TakeUsername(s, w) \/ Resume(s) \/ AuthFailed(s)
             \/ RunCall(s) \/ PeerLeaves(s, b) \/ LowerFinished(s)
             \/ TerminateCount(s) \/ TerminateIncoming(s) \/ TerminateLower(s, b)
      PROVE  ListInv'
  <2>1. list' = list
    BY <1>6 DEF DenyUsername, TakeUsername, Resume, AuthFailed, RunCall, PeerLeaves,
         LowerFinished, TerminateCount, TerminateIncoming, TerminateLower
  <2>2. \A u \in Sessions : u # s => pc'[u] = pc[u]
    BY <1>6 DEF DenyUsername, TakeUsername, Resume, AuthFailed, RunCall, PeerLeaves,
         LowerFinished, TerminateCount, TerminateIncoming, TerminateLower, TerminateStep, At, TypeOK
  <2>3. pc[s] \in Linked
    BY <1>6 DEF DenyUsername, TakeUsername, Resume, AuthFailed, RunCall, PeerLeaves,
         LowerFinished, TerminateCount, TerminateIncoming, TerminateLower, At, Authenticating
  <2>4. pc'[s] \in Linked
    BY <2>3, <1>6 DEF DenyUsername, TakeUsername, Resume, AuthFailed, RunCall, PeerLeaves,
         LowerFinished, TerminateCount, TerminateIncoming, TerminateLower, TerminateStep, At, TypeOK
  <2>5. QED
    BY <2>1, <2>2, <2>3, <2>4, ListStep
<1>7. ASSUME NEW s \in Sessions,
             \/ Activate(s) \/ IpoeStarting(s) \/ IpoeIncoming(s)
             \/ ActivateStarting(s) \/ ActivateIncoming(s) \/ ActivateActive(s)
      PROVE  ListInv'
  <2>1. list' = list
    BY <1>7 DEF Activate, IpoeStarting, IpoeIncoming, ActivateStarting, ActivateIncoming,
         ActivateActive
  <2>2. \A u \in Sessions : u # s => pc'[u] = pc[u]
    BY <1>7 DEF Activate, IpoeStarting, IpoeIncoming, ActivateStarting, ActivateIncoming,
         ActivateActive, At, TypeOK
  <2>3. pc[s] \in Linked /\ pc'[s] \in Linked
    BY <1>7 DEF Activate, IpoeStarting, IpoeIncoming, ActivateStarting, ActivateIncoming,
         ActivateActive, ActivateFrom, At, TypeOK
  <2>4. QED
    BY <2>1, <2>2, <2>3, ListStep
<1>8. ASSUME NEW s \in Sessions, FinishUnlink(s) PROVE ListInv'
  <2>1. /\ pc[s] = "fin1" /\ pc'[s] \notin Linked
        /\ \A u \in Sessions : u # s => pc'[u] = pc[u]
    BY <1>8 DEF FinishUnlink, At, TypeOK
  <2>2. CASE ~Listed(s)
    BY <1>8, <2>1, <2>2 DEF FinishUnlink, ListInv, Listed
  <2>3. CASE Listed(s)
    <3>1. PICK i \in 1..Len(list) : list[i] = s /\ list' = RemoveAt(list, i)
      BY <1>8, <2>3 DEF FinishUnlink
    <3>2. /\ list \in Seq(Sessions) /\ Len(list) \in Nat /\ Len(list') = Len(list) - 1
          /\ \A j \in 1..(Len(list) - 1) : list'[j] = IF j < i THEN list[j] ELSE list[j + 1]
      <4>1. list \in Seq(Sessions) /\ Len(list) \in Nat
        BY DEF TypeOK
      <4>2. QED
        BY <4>1, <3>1, RemoveAtFacts
    <3>3. ASSUME NEW j \in 1..Len(list'), NEW k \in 1..Len(list'), list'[j] = list'[k]
          PROVE  j = k
      <4> DEFINE J == IF j < i THEN j ELSE j + 1
                 K == IF k < i THEN k ELSE k + 1
      <4>1. J \in 1..Len(list) /\ K \in 1..Len(list) /\ list[J] = list[K]
        BY <3>2, <3>3
      <4>2. J = K
        BY <4>1 DEF ListInv
      <4>3. QED
        BY <4>2, <3>2
    <3>4. ASSUME NEW u \in Sessions PROVE Listed(u)' <=> Listed(u) /\ u # s
      <4>1. ASSUME NEW j \in 1..Len(list'), list'[j] = u PROVE Listed(u) /\ u # s
        <5> DEFINE J == IF j < i THEN j ELSE j + 1
        <5>1. J \in 1..Len(list) /\ list[J] = u /\ J # i
          BY <3>2, <4>1
        <5>2. QED
          BY <5>1, <3>1 DEF ListInv, Listed
      <4>2. ASSUME NEW j \in 1..Len(list), list[j] = u, u # s PROVE Listed(u)'
        <5>1. j # i
          BY <3>1, <4>2
        <5>2. CASE j < i
          BY <5>2, <3>2, <4>2 DEF Listed
        <5>3. CASE j > i
          <6>1. j - 1 \in 1..Len(list') /\ list'[j - 1] = list[(j - 1) + 1]
            BY <5>3, <3>2
          <6>2. QED
            BY <6>1, <4>2 DEF Listed
        <5>4. QED
          BY <5>1, <5>2, <5>3
      <4>3. QED
        BY <4>1, <4>2 DEF Listed
    <3>5. QED
      BY <3>3, <3>4, <2>1 DEF ListInv
  <2>4. QED
    BY <2>2, <2>3
<1>9. ASSUME NEW s \in Sessions, FinishCount(s) \/ FinishWake(s) \/ FinishRead(s)
      PROVE  ListInv'
  <2>1. list' = list /\ \A u \in Sessions : u # s => pc'[u] = pc[u]
    BY <1>9 DEF FinishCount, FinishWake, FinishRead, At, TypeOK
  <2>2. pc[s] \notin Linked /\ pc'[s] \notin Linked
    BY <1>9 DEF FinishCount, FinishWake, FinishRead, At, TypeOK, Reading, ReadsNext
  <2>3. QED
    BY <2>1, <2>2, ListKept
<1>10. QED
  BY <1>1, <1>2, <1>3, <1>4, <1>5, <1>6, <1>7, <1>8, <1>9
  DEF Next, Stop, Runs, Stops, Starts, Discovers, Finishes, SetUsername

-----------------------------------------------------------------------------
(* ses->wakeup.                                                            *)

LEMMA WakeKept ==
    ASSUME TypeOK, WakeInv,
           \A u \in Sessions : /\ ses'[u].wakeup = ses[u].wakeup /\ ses'[u].woken = ses[u].woken
                               /\ pc'[u] = "asleep" <=> pc[u] = "asleep",
           \A u \in Sessions : ses[u].wakeup # NoSession =>
              /\ ses'[u].user = ses[u].user /\ ses'[u].authErr = ses[u].authErr
              /\ Listed(u) \/ pc[u] \in {"fin2", "fin3"} =>
                    Listed(u)' \/ pc'[u] \in {"fin2", "fin3"}
    PROVE  WakeInv'
<1>1. \A u \in Sessions : Waiting(u)' <=> Waiting(u)
  BY DEF Waiting
<1>2. \A u \in Sessions : ses[u].wakeup # NoSession => ses[u].wakeup \in Sessions
  BY DEF TypeOK, SessionRecord
<1>3. ASSUME NEW t \in Sessions, ses'[t].wakeup # NoSession
      PROVE  /\ Waiting(ses[t].wakeup)'
             /\ ses'[t].user /\ ~ses'[t].authErr
             /\ Listed(t)' \/ pc'[t] \in {"fin2", "fin3"}
  <2>1. PICK x \in Sessions : x = ses[t].wakeup /\ x = ses'[t].wakeup
    BY <1>2, <1>3
  <2>2. ses[t].wakeup # NoSession
    BY <1>3
  <2>3. Waiting(x) /\ Waiting(x)'
    BY <2>1, <2>2, <1>1 DEF WakeInv
  <2>4. ses[t].user /\ ~ses[t].authErr /\ (Listed(t) \/ pc[t] \in {"fin2", "fin3"})
    BY <2>2 DEF WakeInv
  <2>5. QED
    BY <2>1, <2>2, <2>3, <2>4 DEF Waiting
<1>4. QED
  BY <1>1, <1>3 DEF WakeInv

(* A step of session s that is no sleep and no waking.                     *)
LEMMA WakeStep ==
    ASSUME TypeOK, WakeInv, NEW s \in Sessions, list' = list,
           \A u \in Sessions : u # s => pc'[u] = pc[u] /\ ses'[u] = ses[u],
           ses'[s].wakeup = ses[s].wakeup, ses'[s].woken = ses[s].woken,
           ses[s].user => ses'[s].user = ses[s].user /\ ses'[s].authErr = ses[s].authErr,
           pc[s] # "asleep", pc'[s] # "asleep",
           pc[s] \in {"fin2", "fin3"} => pc'[s] \in {"fin2", "fin3"}
    PROVE  WakeInv'
<1>1. \A u \in Sessions : Listed(u)' <=> Listed(u)
  BY DEF Listed
<1>2. \A u \in Sessions : ses[u].wakeup # NoSession => ses[u].user
  BY DEF WakeInv
<1>3. QED
  BY <1>1, <1>2, WakeKept

LEMMA WakeName ==
    ASSUME TypeOK, LifeInv, ListInv, WakeInv, NEW s \in Sessions,
           NEW w \in Sessions \cup {NoSession},
           \/ DenyUsername(s) \/ TakeUsername(s, w) \/ Resume(s) \/ AuthFailed(s)
    PROVE  WakeInv'
<1>0. NoSession \notin Sessions
  BY SessionAssumption
<1>00. \A u \in Sessions : ses[u].wakeup # NoSession => ses[u].wakeup \in Sessions
  BY DEF TypeOK, SessionRecord
<1>1. CASE DenyUsername(s) \/ AuthFailed(s)
  <2>1. /\ list' = list /\ pc[s] = "idle" /\ pc'[s] = "term1" /\ ~ses[s].user
        /\ ses'[s].wakeup = ses[s].wakeup /\ ses'[s].woken = ses[s].woken
    <3>1. list' = list /\ pc[s] = "idle" /\ pc'[s] = "term1" /\ ~ses[s].user
      BY <1>1 DEF DenyUsername, AuthFailed, Authenticating, TypeOK
    <3>2. ses \in [Sessions -> SessionRecord]
      BY DEF TypeOK
    <3>3. CASE DenyUsername(s)
      BY <3>1, <3>2, <3>3 DEF DenyUsername, SetSes, SessionRecord
    <3>4. CASE AuthFailed(s)
      BY <3>1, <3>2, <3>4 DEF AuthFailed, SetSes, SessionRecord
    <3>5. QED
      BY <1>1, <3>3, <3>4
  <2>2. \A u \in Sessions : u # s => pc'[u] = pc[u] /\ ses'[u] = ses[u]
    BY <1>1 DEF DenyUsername, AuthFailed, SetSes, TypeOK
  <2>3. QED
    BY <2>1, <2>2, WakeStep
<1>2. CASE TakeUsername(s, w)
  <2>1. /\ list' = list /\ pc[s] = "idle" /\ ~ses[s].user /\ ses[s].wakeup = NoSession
    BY <1>2 DEF TakeUsername, Authenticating, WakeInv
  <2>2. CASE w = NoSession
    <3>1. pc' = pc /\ ses'[s].wakeup = ses[s].wakeup /\ ses'[s].woken = ses[s].woken
      BY <1>2, <2>2 DEF TakeUsername, TypeOK, SessionRecord
    <3>2. \A u \in Sessions : u # s => pc'[u] = pc[u] /\ ses'[u] = ses[u]
      BY <1>0, <1>2, <2>2 DEF TakeUsername, TypeOK
    <3>3. QED
      BY <2>1, <3>1, <3>2, WakeStep
  <2>3. CASE w # NoSession
    <3>1. /\ Listed(w) /\ ses[w].user /\ ~ses[w].authErr /\ ses[w].wakeup = NoSession
          /\ w \in Sessions /\ w # s
      BY <1>2, <2>1, <2>3 DEF TakeUsername, WaitsFor, First, Duplicate, Listed
    <3>2. /\ pc'[s] = "asleep" /\ \A u \in Sessions : u # s => pc'[u] = pc[u]
      BY <1>2, <2>3 DEF TakeUsername, TypeOK
    <3>3. \A u \in Sessions :
            /\ ses'[u].wakeup = IF u = w THEN s ELSE ses[u].wakeup
            /\ ses'[u].woken = ses[u].woken
            /\ u # s => ses'[u].user = ses[u].user
            /\ ses'[u].authErr = ses[u].authErr
      <4> SUFFICES ASSUME NEW u \in Sessions
                   PROVE  /\ ses'[u].wakeup = IF u = w THEN s ELSE ses[u].wakeup
                          /\ ses'[u].woken = ses[u].woken
                          /\ u # s => ses'[u].user = ses[u].user
                          /\ ses'[u].authErr = ses[u].authErr
        OBVIOUS
      <4>1. ses[u] \in SessionRecord
        BY DEF TypeOK
      <4>2. CASE u = s
        <5>1. PICK b : ses'[u] = [ses[u] EXCEPT !.user = TRUE, !.authed = b]
          BY <1>2, <4>2 DEF TakeUsername
        <5>2. QED
          BY <5>1, <4>1, <4>2, <3>1 DEF SessionRecord
      <4>3. CASE u # s
        BY <1>2, <4>1, <4>3, <3>1 DEF TakeUsername, SessionRecord
      <4>4. QED
        BY <4>2, <4>3
    <3>4. \A u \in Sessions : Listed(u)' <=> Listed(u)
      BY <2>1 DEF Listed
    <3>5. ~Waiting(s) /\ ~ses[s].woken
      BY <2>1 DEF Waiting, WakeInv
    <3>6. \A u \in Sessions : Waiting(u)' <=> (Waiting(u) \/ u = s)
      BY <3>2, <3>3, <3>5 DEF Waiting
    <3>7. \A u \in Sessions : ses[u].wakeup # s
      BY <1>0, <3>5 DEF WakeInv
    <3>8. \A u \in Sessions : ses'[u].woken => pc'[u] = "asleep"
      BY <3>2, <3>3 DEF WakeInv
    <3>9. ASSUME NEW u \in Sessions, Waiting(u)' PROVE \E t \in Sessions : ses'[t].wakeup = u
      <4>1. CASE u = s
        BY <3>1, <3>3, <4>1
      <4>2. CASE u # s
        <5>1. PICK t \in Sessions : ses[t].wakeup = u
          BY <4>2, <3>6, <3>9 DEF WakeInv
        <5>2. ses'[t].wakeup = u
          BY <1>0, <5>1, <3>1, <3>3
        <5>3. QED
          BY <5>2
      <4>3. QED
        BY <4>1, <4>2
    <3>10. ASSUME NEW t \in Sessions, ses'[t].wakeup # NoSession
           PROVE  /\ Waiting(ses[t].wakeup)'
                  /\ ses'[t].user /\ ~ses'[t].authErr
                  /\ Listed(t)' \/ pc'[t] \in {"fin2", "fin3"}
      <4>1. CASE t = w
        <5>1. ses'[t].wakeup = s /\ Waiting(s)'
          BY <4>1, <3>1, <3>3, <3>6
        <5>2. QED
          BY <5>1, <4>1, <3>1, <3>2, <3>3, <3>4 DEF Waiting
      <4>2. CASE t # w
        <5>1. PICK x \in Sessions : x = ses[t].wakeup /\ x = ses'[t].wakeup
          BY <4>2, <3>3, <3>10, <1>00
        <5>2. Waiting(x) /\ Waiting(x)'
          BY <5>1, <1>0, <3>6 DEF WakeInv
        <5>3. t # s
          BY <5>1, <1>0, <2>1
        <5>4. /\ ses[t].user /\ ~ses[t].authErr /\ (Listed(t) \/ pc[t] \in {"fin2", "fin3"})
          BY <5>1, <1>0 DEF WakeInv
        <5>5. QED
          BY <5>1, <5>2, <5>3, <5>4, <3>2, <3>3, <3>4 DEF Waiting
      <4>3. QED
        BY <4>1, <4>2
    <3>11. \A t, u \in Sessions :
             ses'[t].wakeup = ses'[u].wakeup => t = u \/ ses'[t].wakeup = NoSession
      BY <3>3, <3>7 DEF WakeInv
    <3>12. QED
      BY <3>8, <3>9, <3>10, <3>11 DEF WakeInv
  <2>4. QED
    BY <2>2, <2>3
<1>3. CASE Resume(s)
  <2>1. /\ list' = list /\ pc[s] = "asleep" /\ pc'[s] = "idle" /\ ses[s].woken
        /\ \A u \in Sessions : u # s => pc'[u] = pc[u]
    BY <1>3 DEF Resume, At, TypeOK
  <2>2. \A u \in Sessions :
          /\ ses'[u].wakeup = ses[u].wakeup /\ ses'[u].user = ses[u].user
          /\ ses'[u].authErr = ses[u].authErr
          /\ u # s => ses'[u].woken = ses[u].woken
    BY <1>3 DEF Resume, SetSes, TypeOK, SessionRecord
  <2>3. ~ses'[s].woken
    BY <1>3 DEF Resume, SetSes, TypeOK, SessionRecord
  <2>4. \A u \in Sessions : Listed(u)' <=> Listed(u)
    BY <2>1 DEF Listed
  <2>5. \A u \in Sessions : Waiting(u)' <=> Waiting(u)
    BY <2>1, <2>2, <2>3 DEF Waiting
  <2>6. \A u \in Sessions : ses'[u].woken => pc'[u] = "asleep"
    BY <2>1, <2>2, <2>3 DEF WakeInv
  <2>7. ASSUME NEW t \in Sessions, ses'[t].wakeup # NoSession
        PROVE  /\ Waiting(ses[t].wakeup)'
               /\ ses'[t].user /\ ~ses'[t].authErr
               /\ Listed(t)' \/ pc'[t] \in {"fin2", "fin3"}
    <3>1. PICK x \in Sessions : x = ses[t].wakeup /\ x = ses'[t].wakeup
      BY <2>2, <2>7, <1>00
    <3>2. Waiting(x) /\ Waiting(x)'
      BY <3>1, <1>0, <2>5 DEF WakeInv
    <3>3. /\ ses[t].user /\ ~ses[t].authErr /\ (Listed(t) \/ pc[t] \in {"fin2", "fin3"})
      BY <3>1, <1>0 DEF WakeInv
    <3>4. QED
      BY <3>1, <3>2, <3>3, <2>1, <2>2, <2>4 DEF Waiting
  <2>8. QED
    BY <2>2, <2>5, <2>6, <2>7 DEF WakeInv
<1>4. QED
  BY <1>1, <1>2, <1>3

LEMMA WakeFinish ==
    ASSUME TypeOK, LifeInv, ListInv, WakeInv, NEW s \in Sessions, FinishWake(s)
    PROVE  WakeInv'
<1>0. NoSession \notin Sessions
  BY SessionAssumption
<1>1. /\ list' = list /\ pc[s] = "fin3" /\ pc'[s] = "rdStarting"
      /\ \A u \in Sessions : u # s => pc'[u] = pc[u]
  BY DEF FinishWake, At, TypeOK
<1>2. PICK x \in Sessions \cup {NoSession} : x = ses[s].wakeup
  BY DEF TypeOK, SessionRecord
<1>3. x # s /\ ~ses[s].woken
  BY <1>0, <1>1, <1>2 DEF WakeInv, Waiting
<1>4. \A u \in Sessions :
        /\ ses'[u].wakeup = IF u = s THEN NoSession ELSE ses[u].wakeup
        /\ ses'[u].woken = (ses[u].woken \/ u = x)
        /\ ses'[u].user = ses[u].user /\ ses'[u].authErr = ses[u].authErr
  BY <1>2, <1>3 DEF FinishWake, TypeOK, SessionRecord
<1>5. \A u \in Sessions : Listed(u)' <=> Listed(u)
  BY <1>1 DEF Listed
<1>6. x # NoSession => Waiting(x) /\ x \in Sessions
  BY <1>2 DEF WakeInv
<1>7. \A u \in Sessions : Waiting(u)' <=> Waiting(u) /\ u # x
  BY <1>1, <1>4 DEF Waiting
<1>8. \A u \in Sessions : ses'[u].woken => pc'[u] = "asleep"
  <2> SUFFICES ASSUME NEW u \in Sessions, ses'[u].woken PROVE pc'[u] = "asleep"
    OBVIOUS
  <2>1. u # s
    BY <1>3, <1>4
  <2>2. CASE u = x
    BY <2>1, <2>2, <1>0, <1>1, <1>6 DEF Waiting
  <2>3. CASE u # x
    <3>1. ses[u].woken
      BY <2>3, <1>4
    <3>2. pc[u] = "asleep"
      BY <3>1 DEF WakeInv
    <3>3. QED
      BY <2>1, <3>2, <1>1
  <2>4. QED
    BY <2>2, <2>3
<1>9. ASSUME NEW u \in Sessions, Waiting(u)' PROVE \E t \in Sessions : ses'[t].wakeup = u
  <2>1. PICK t \in Sessions : ses[t].wakeup = u
    BY <1>7, <1>9 DEF WakeInv
  <2>2. t # s
    BY <2>1, <1>2, <1>7, <1>9
  <2>3. QED
    BY <2>1, <2>2, <1>4
<1>10. ASSUME NEW t \in Sessions, ses'[t].wakeup # NoSession
       PROVE  /\ Waiting(ses[t].wakeup)'
              /\ ses'[t].user /\ ~ses'[t].authErr
              /\ Listed(t)' \/ pc'[t] \in {"fin2", "fin3"}
  <2>1. t # s /\ ses'[t].wakeup = ses[t].wakeup
    BY <1>4, <1>10
  <2>2. PICK y \in Sessions : y = ses[t].wakeup /\ y = ses'[t].wakeup
    BY <2>1, <1>10 DEF TypeOK, SessionRecord
  <2>3. y # x
    BY <2>1, <2>2, <1>0, <1>2 DEF WakeInv
  <2>4. Waiting(y)'
    BY <2>2, <2>3, <1>0, <1>7 DEF WakeInv
  <2>5. /\ ses[t].user /\ ~ses[t].authErr /\ (Listed(t) \/ pc[t] \in {"fin2", "fin3"})
    BY <2>2, <1>0 DEF WakeInv
  <2>6. QED
    BY <2>1, <2>2, <2>4, <2>5, <1>1, <1>4, <1>5 DEF Waiting
<1>11. \A t, u \in Sessions :
         ses'[t].wakeup = ses'[u].wakeup => t = u \/ ses'[t].wakeup = NoSession
  BY <1>4 DEF WakeInv
<1>12. QED
  BY <1>8, <1>9, <1>10, <1>11 DEF WakeInv

LEMMA WakeUnlink ==
    ASSUME TypeOK, LifeInv, ListInv, ListInv', WakeInv, NEW s \in Sessions, FinishUnlink(s)
    PROVE  WakeInv'
<1>1. /\ pc[s] = "fin1" /\ ses' = ses
      /\ pc'[s] = IF Listed(s) THEN "fin2" ELSE "gone"
      /\ \A u \in Sessions : u # s => pc'[u] = pc[u]
  BY DEF FinishUnlink, At, TypeOK
<1>2. ASSUME NEW u \in Sessions, u # s, Listed(u) PROVE Listed(u)'
  <2>1. CASE ~Listed(s)
    BY <2>1, <1>2 DEF FinishUnlink, Listed
  <2>2. CASE Listed(s)
    <3>1. PICK i \in 1..Len(list) : list[i] = s /\ list' = RemoveAt(list, i)
      BY <2>2 DEF FinishUnlink
    <3>2. list \in Seq(Sessions) /\ Len(list) \in Nat
      BY DEF TypeOK
    <3>3. /\ Len(list') = Len(list) - 1
          /\ \A j \in 1..(Len(list) - 1) : list'[j] = IF j < i THEN list[j] ELSE list[j + 1]
      BY <3>1, <3>2, RemoveAtFacts
    <3>4. PICK j \in 1..Len(list) : list[j] = u
      BY <1>2 DEF Listed
    <3>5. j # i
      BY <3>1, <3>4, <1>2
    <3>6. CASE j < i
      BY <3>2, <3>3, <3>4, <3>6 DEF Listed
    <3>7. CASE j > i
      <4>1. j - 1 \in 1..Len(list') /\ list'[j - 1] = list[(j - 1) + 1]
        BY <3>2, <3>3, <3>7
      <4>2. QED
        BY <4>1, <3>4 DEF Listed
    <3>8. QED
      BY <3>2, <3>5, <3>6, <3>7
  <2>3. QED
    BY <2>1, <2>2
<1>3. QED
  BY <1>1, <1>2, WakeKept

LEMMA WakeNext == SInv /\ [Next]_vars => WakeInv'
<1> SUFFICES ASSUME TypeOK, LifeInv, ListInv, WakeInv, [Next]_vars PROVE WakeInv'
  BY DEF SInv
<1>1. CASE UNCHANGED vars
  BY <1>1, WakeKept DEF vars, Listed
<1>2. CASE Stop
  <2>1. UNCHANGED <<pc, ses, list>>
    BY <1>2, StopFrame
  <2>2. QED
    BY <2>1, WakeKept DEF Listed
<1>3. ASSUME NEW s \in Sessions, NEW f \in BOOLEAN,
             \/ RecvPadr(s) \/ PadrCheckSlot(s) \/ PadrTakeSlot(s, f) \/ Accept(s)
             \/ StartCheck(s) \/ StartCount(s)
      PROVE  WakeInv'
  <2>1. /\ list' = list /\ pc[s] \in Before /\ pc'[s] \in Before \cup {"counted", "idle", "gone"}
        /\ \A u \in Sessions : u # s => pc'[u] = pc[u]
    BY <1>3 DEF RecvPadr, PadrCheckSlot, PadrTakeSlot, Accept, StartCheck, StartCount, At,
                TypeOK, Before
  <2>2. /\ \A u \in Sessions : u # s => ses'[u] = ses[u]
        /\ ses'[s].wakeup = ses[s].wakeup /\ ses'[s].woken = ses[s].woken
        /\ ses'[s].user = ses[s].user /\ ses'[s].authErr = ses[s].authErr
    BY <1>3 DEF RecvPadr, PadrCheckSlot, PadrTakeSlot, Accept, StartCheck, StartCount, SetSes,
                TypeOK, SessionRecord
  <2>3. QED
    BY <2>1, <2>2, WakeStep DEF Before
<1>4. ASSUME NEW s \in Sessions, StartLink(s) PROVE WakeInv'
  <2>1. /\ list' = Append(list, s) /\ ses' = ses /\ pc[s] = "counted" /\ pc'[s] = "idle"
        /\ \A u \in Sessions : u # s => pc'[u] = pc[u]
    BY <1>4 DEF StartLink, At, TypeOK
  <2>2. \A u \in Sessions : Listed(u) => Listed(u)'
    BY <2>1 DEF Listed, TypeOK
  <2>3. QED
    BY <2>1, <2>2, WakeKept
<1>5. ASSUME NEW s \in Sessions, NEW b \in BOOLEAN,
             \/ RunCall(s) \/ PeerLeaves(s, b) \/ LowerFinished(s)
             \/ TerminateCount(s) \/ TerminateIncoming(s) \/ TerminateLower(s, b)
      PROVE  WakeInv'
  <2>1. /\ list' = list /\ pc[s] \in {"idle", "term1", "term2", "lower"}
        /\ pc'[s] \in {"idle", "term1", "term2", "lower", "fin1"}
        /\ \A u \in Sessions : u # s => pc'[u] = pc[u]
    BY <1>5 DEF RunCall, PeerLeaves, LowerFinished, TerminateCount, TerminateIncoming,
         TerminateLower, TerminateStep, At, TypeOK
  <2>2. /\ \A u \in Sessions : u # s => ses'[u] = ses[u]
        /\ ses'[s].wakeup = ses[s].wakeup /\ ses'[s].woken = ses[s].woken
        /\ ses'[s].user = ses[s].user /\ ses'[s].authErr = ses[s].authErr
    BY <1>5 DEF RunCall, PeerLeaves, LowerFinished, TerminateCount, TerminateIncoming,
         TerminateLower, TerminateStep, SetSes, TypeOK, SessionRecord
  <2>3. QED
    BY <2>1, <2>2, WakeStep
<1>6. ASSUME NEW s \in Sessions,
             \/ Activate(s) \/ IpoeStarting(s) \/ IpoeIncoming(s)
             \/ ActivateStarting(s) \/ ActivateIncoming(s) \/ ActivateActive(s)
      PROVE  WakeInv'
  <2>1. /\ list' = list /\ pc[s] \in {"idle", "ipoe1", "ipoe2", "act1", "act2", "act3"}
        /\ pc'[s] \in {"idle", "ipoe1", "ipoe2", "act1", "act2", "act3"}
        /\ \A u \in Sessions : u # s => pc'[u] = pc[u]
    BY <1>6 DEF Activate, IpoeStarting, IpoeIncoming, ActivateStarting, ActivateIncoming,
         ActivateActive, ActivateFrom, At, TypeOK
  <2>2. /\ \A u \in Sessions : u # s => ses'[u] = ses[u]
        /\ ses'[s].wakeup = ses[s].wakeup /\ ses'[s].woken = ses[s].woken
        /\ ses'[s].user = ses[s].user /\ ses'[s].authErr = ses[s].authErr
    BY <1>6 DEF Activate, IpoeStarting, IpoeIncoming, ActivateStarting, ActivateIncoming,
         ActivateActive, SetSes, TypeOK, SessionRecord
  <2>3. QED
    BY <2>1, <2>2, WakeStep
<1>7. ASSUME NEW s \in Sessions, FinishCount(s) \/ FinishRead(s) PROVE WakeInv'
  <2>1. /\ list' = list /\ ses' = ses /\ pc[s] \in {"fin2"} \cup Reading
        /\ pc'[s] \in {"fin3", "gone"} \cup Reading
        /\ pc[s] = "fin2" => pc'[s] = "fin3"
        /\ \A u \in Sessions : u # s => pc'[u] = pc[u]
    BY <1>7 DEF FinishCount, FinishRead, At, TypeOK, ReadsNext, Reading
  <2>2. QED
    BY <2>1, WakeStep DEF Reading
<1>8. ASSUME NEW s \in Sessions, FinishUnlink(s) PROVE WakeInv'
  BY <1>8, WakeUnlink, ListNext
<1>9. QED
  BY <1>1, <1>2, <1>3, <1>4, <1>5, <1>6, <1>7, <1>8, WakeName, WakeFinish
  DEF Next, Stop, Runs, Stops, Starts, Discovers, Finishes, SetUsername

-----------------------------------------------------------------------------
LEMMA SInvInit == Init => SInv
<1> SUFFICES ASSUME Init PROVE SInv
  OBVIOUS
<1>1. TypeOK
  BY TypeInit
<1>2. ASSUME NEW s \in Sessions PROVE Life(s) /\ TokenOnce(s)
  <2>1. /\ pc[s] = IF s \in conf.arrive THEN "none" ELSE "gone"
        /\ ses[s] = NewSession /\ calls[s] = <<>>
    BY DEF Init
  <2>2. /\ ses[s].state = "none" /\ ~ses[s].user /\ ~ses[s].authErr /\ ~ses[s].authed
    BY <2>1 DEF NewSession
  <2>3. ~HasAuth(s) /\ ~Token(s)
    BY <2>1, <2>2 DEF HasAuth, Token
  <2>4. TokenOnce(s)
    BY <2>1, <2>2, <2>3 DEF TokenOnce
  <2>5. Life(s)
    BY <2>1, <2>2, <2>3 DEF Life, Before, Linked, Reading
  <2>6. QED
    BY <2>4, <2>5
<1>3. ListInv
  BY DEF Init, ListInv, Listed, Linked
<1>4. WakeInv
  BY DEF Init, WakeInv, Waiting, NewSession
<1>5. QED
  BY <1>1, <1>2, <1>3, <1>4 DEF SInv, LifeInv

LEMMA LifeNext == TypeOK /\ LifeInv /\ [Next]_vars => LifeInv'
<1> SUFFICES ASSUME TypeOK, LifeInv, [Next]_vars PROVE LifeInv'
  OBVIOUS
<1>1. CASE UNCHANGED vars
  BY <1>1 DEF vars, LifeInv, Life, TokenOnce, Token, HasAuth
<1>2. ASSUME NEW s \in Sessions, Discovers(s) \/ Accept(s) \/ Starts(s)
      PROVE  LifeInv'
  BY <1>2, LifeArrival DEF Discovers, Starts
<1>3. ASSUME NEW s \in Sessions, SetUsername(s) \/ Resume(s) \/ AuthFailed(s)
      PROVE  LifeInv'
  BY <1>3, LifeName DEF SetUsername
<1>4. ASSUME NEW s \in Sessions,
             RunCall(s) \/ Finishes(s) \/ LowerFinished(s) \/ \E b \in BOOLEAN : PeerLeaves(s, b)
      PROVE  LifeInv'
  BY <1>4, LifeTerminate, LifeFinish DEF Finishes
<1>5. QED
  BY <1>1, <1>2, <1>3, <1>4, LifeActivate, LifeStop DEF Next, Runs, Stops, Stop

LEMMA SInvNext == SInv /\ [Next]_vars => SInv'
BY TypeNext, LifeNext, ListNext, WakeNext DEF SInv

(* The life of a session, the list and the wakeups, for any sessions and   *)
(* any configuration: each session is in ses_list exactly while its        *)
(* handlers may use it, is permitted to start its network once, and its    *)
(* waiter sleeps until it has finished.                                    *)
THEOREM SessionInvariant == Spec => []SInv
BY SInvInit, SInvNext, PTL DEF Spec

(* No wakeup is lost: a session that sleeps in ap_session_set_username is  *)
(* registered with a session of its name that has still to come to the     *)
(* wakeup in ap_session_finished, however many sessions replace each other.*)
THEOREM WaitersAreArmed == Spec => []WaiterIsArmed
<1>1. SInv => WaiterIsArmed
  <2> SUFFICES ASSUME SInv, NEW s \in Sessions, Waiting(s)
               PROVE  \E t \in Sessions : ses[t].wakeup = s /\ pc[t] \notin Reading \cup {"gone"}
    BY DEF WaiterIsArmed, Waiting
  <2>1. PICK t \in Sessions : ses[t].wakeup = s
    BY DEF SInv, WakeInv
  <2>2. Listed(t) \/ pc[t] \in {"fin2", "fin3"}
    BY <2>1, SessionAssumption DEF SInv, WakeInv
  <2>3. QED
    BY <2>1, <2>2 DEF SInv, ListInv, Linked, Reading
<1>2. QED
  BY <1>1, SessionInvariant, PTL

-----------------------------------------------------------------------------
(* The counters.                                                           *)

PppoeOnly == \A s \in conf.arrive : Kind[s] = "pppoe"

StartingSet == {s \in Sessions : InStarting(s)}
IncomingSet == {s \in Sessions : InIncoming(s)}
ActiveSet == {s \in Sessions : InActive(s)}
FinishingSet == {s \in Sessions : InFinishing(s)}

LEMMA CountsDef ==
    CountsAgree <=> /\ cnt["starting"] = Cardinality(StartingSet)
                    /\ cnt["incoming"] = Cardinality(IncomingSet)
                    /\ cnt["active"] = Cardinality(ActiveSet)
                    /\ cnt["finishing"] = Cardinality(FinishingSet)
BY DEF CountsAgree, Number, StartingSet, IncomingSet, ActiveSet, FinishingSet

(* Counter c follows session s in or out of the set it counts.             *)
Follows(c, was, is) ==
    \/ (was <=> is) /\ cnt'[c] = cnt[c]
    \/ ~was /\ is /\ cnt'[c] = (cnt[c] + 1) % UIntMod
    \/ was /\ ~is /\ cnt'[c] = (cnt[c] + UIntMod - 1) % UIntMod

LEMMA SetFollows ==
    ASSUME NEW A \in SUBSET Sessions, NEW B \in SUBSET Sessions, NEW s \in Sessions,
           \A u \in Sessions : u # s => (u \in A <=> u \in B),
           NEW c, cnt[c] = Cardinality(A), Follows(c, s \in A, s \in B)
    PROVE  /\ cnt'[c] = Cardinality(B)
           /\ cnt'[c] <= cnt[c] + 1
           /\ (s \in B => s \in A) => cnt'[c] <= cnt[c]
<1>1. IsFiniteSet(A) /\ IsFiniteSet(B)
  BY FS_Subset, SessionAssumption
<1>2. Cardinality(A) \in 0..Cardinality(Sessions) /\ Cardinality(B) \in 0..Cardinality(Sessions)
  BY FS_Subset, FS_CardinalityType, SessionAssumption
<1>3. UIntMod \in Nat \ {0} /\ Cardinality(A) \in 0..(UIntMod - 1) /\ Cardinality(B) \in 0..(UIntMod - 1)
  BY <1>2, UIntModType
<1>4. CASE (s \in A <=> s \in B) /\ cnt'[c] = cnt[c]
  <2>1. A = B
    BY <1>4
  <2>2. QED
    BY <2>1, <1>3, <1>4
<1>5. CASE s \notin A /\ s \in B /\ cnt'[c] = (cnt[c] + 1) % UIntMod
  <2>1. B = A \cup {s}
    BY <1>5
  <2>2. Cardinality(B) = Cardinality(A) + 1
    BY <2>1, <1>1, <1>5, FS_AddElement
  <2>3. cnt'[c] = Cardinality(B)
    BY <2>2, <1>3, <1>5, ModInside
  <2>4. QED
    BY <2>2, <2>3, <1>3, <1>5
<1>6. CASE s \in A /\ s \notin B /\ cnt'[c] = (cnt[c] + UIntMod - 1) % UIntMod
  <2>1. B = A \ {s}
    BY <1>6
  <2>2. Cardinality(B) = Cardinality(A) - 1
    BY <2>1, <1>1, <1>6, FS_RemoveElement
  <2>3. cnt[c] + UIntMod - 1 = Cardinality(B) + UIntMod
    BY <2>2, <1>3
  <2>4. cnt'[c] = Cardinality(B)
    BY <2>3, <1>3, <1>6, ModInside
  <2>5. QED
    BY <2>2, <2>4, <1>3
<1>7. QED
  BY <1>4, <1>5, <1>6 DEF Follows

LEMMA CountStep ==
    ASSUME CountsAgree, NEW s \in Sessions,
           \A u \in Sessions : u # s => pc'[u] = pc[u] /\ ses'[u].state = ses[u].state,
           Follows("starting", InStarting(s), InStarting(s)'),
           Follows("incoming", InIncoming(s), InIncoming(s)'),
           Follows("active", InActive(s), InActive(s)'),
           Follows("finishing", InFinishing(s), InFinishing(s)')
    PROVE  /\ CountsAgree'
           /\ cnt'["incoming"] <= cnt["incoming"] + 1
           /\ (InIncoming(s)' => InIncoming(s)) => cnt'["incoming"] <= cnt["incoming"]
<1>1. \A u \in Sessions : u # s =>
        /\ InStarting(u)' <=> InStarting(u)
        /\ InIncoming(u)' <=> InIncoming(u)
        /\ InActive(u)' <=> InActive(u)
        /\ InFinishing(u)' <=> InFinishing(u)
  BY DEF InStarting, InIncoming, InActive, InFinishing
<1>2. cnt'["starting"] = Cardinality(StartingSet')
  <2> DEFINE A == StartingSet
             B == StartingSet'
  <2>1. A \in SUBSET Sessions /\ B \in SUBSET Sessions
    BY DEF StartingSet
  <2>2. (s \in A <=> InStarting(s)) /\ (s \in B <=> InStarting(s)')
    BY DEF StartingSet
  <2>3. \A u \in Sessions : u # s => (u \in A <=> u \in B)
    BY <1>1 DEF StartingSet
  <2>4. cnt["starting"] = Cardinality(A) /\ Follows("starting", s \in A, s \in B)
    BY <2>2, CountsDef DEF Follows
  <2> HIDE DEF A, B
  <2>5. cnt'["starting"] = Cardinality(B)
    BY <2>1, <2>3, <2>4, SetFollows
  <2>6. QED
    BY <2>5 DEF B
<1>3. /\ cnt'["incoming"] = Cardinality(IncomingSet')
      /\ cnt'["incoming"] <= cnt["incoming"] + 1
      /\ (InIncoming(s)' => InIncoming(s)) => cnt'["incoming"] <= cnt["incoming"]
  <2> DEFINE A == IncomingSet
             B == IncomingSet'
  <2>1. A \in SUBSET Sessions /\ B \in SUBSET Sessions
    BY DEF IncomingSet
  <2>2. (s \in A <=> InIncoming(s)) /\ (s \in B <=> InIncoming(s)')
    BY DEF IncomingSet
  <2>3. \A u \in Sessions : u # s => (u \in A <=> u \in B)
    BY <1>1 DEF IncomingSet
  <2>4. cnt["incoming"] = Cardinality(A) /\ Follows("incoming", s \in A, s \in B)
    BY <2>2, CountsDef DEF Follows
  <2> HIDE DEF A, B
  <2>5. /\ cnt'["incoming"] = Cardinality(B)
        /\ cnt'["incoming"] <= cnt["incoming"] + 1
        /\ (s \in B => s \in A) => cnt'["incoming"] <= cnt["incoming"]
    BY <2>1, <2>3, <2>4, SetFollows
  <2>6. QED
    BY <2>2, <2>5 DEF B
<1>4. cnt'["active"] = Cardinality(ActiveSet')
  <2> DEFINE A == ActiveSet
             B == ActiveSet'
  <2>1. A \in SUBSET Sessions /\ B \in SUBSET Sessions
    BY DEF ActiveSet
  <2>2. (s \in A <=> InActive(s)) /\ (s \in B <=> InActive(s)')
    BY DEF ActiveSet
  <2>3. \A u \in Sessions : u # s => (u \in A <=> u \in B)
    BY <1>1 DEF ActiveSet
  <2>4. cnt["active"] = Cardinality(A) /\ Follows("active", s \in A, s \in B)
    BY <2>2, CountsDef DEF Follows
  <2> HIDE DEF A, B
  <2>5. cnt'["active"] = Cardinality(B)
    BY <2>1, <2>3, <2>4, SetFollows
  <2>6. QED
    BY <2>5 DEF B
<1>5. cnt'["finishing"] = Cardinality(FinishingSet')
  <2> DEFINE A == FinishingSet
             B == FinishingSet'
  <2>1. A \in SUBSET Sessions /\ B \in SUBSET Sessions
    BY DEF FinishingSet
  <2>2. (s \in A <=> InFinishing(s)) /\ (s \in B <=> InFinishing(s)')
    BY DEF FinishingSet
  <2>3. \A u \in Sessions : u # s => (u \in A <=> u \in B)
    BY <1>1 DEF FinishingSet
  <2>4. cnt["finishing"] = Cardinality(A) /\ Follows("finishing", s \in A, s \in B)
    BY <2>2, CountsDef DEF Follows
  <2> HIDE DEF A, B
  <2>5. cnt'["finishing"] = Cardinality(B)
    BY <2>1, <2>3, <2>4, SetFollows
  <2>6. QED
    BY <2>5 DEF B
<1>6. CountsAgree'
  BY <1>2, <1>3, <1>4, <1>5
  DEF CountsAgree, Number, StartingSet, IncomingSet, ActiveSet, FinishingSet
<1>7. QED
  BY <1>3, <1>6

(* No session of an arriving kind but PPPoE ever runs.                     *)
LEMMA RunsPppoe ==
    ASSUME LifeInv, PppoeOnly, NEW s \in Sessions, pc[s] # "gone"
    PROVE  Kind[s] = "pppoe" /\ Life(s)
BY DEF LifeInv, Life, PppoeOnly

Shrinks == cnt'["incoming"] <= cnt["incoming"]

LEMMA CountNothing ==
    ASSUME TypeOK, CountsAgree, cnt' = cnt, pc' = pc,
           \A u \in Sessions : ses'[u].state = ses[u].state
    PROVE  CountsAgree' /\ Shrinks
<1>1. \A u \in Sessions :
        /\ InStarting(u)' <=> InStarting(u)
        /\ InIncoming(u)' <=> InIncoming(u)
        /\ InActive(u)' <=> InActive(u)
        /\ InFinishing(u)' <=> InFinishing(u)
  BY DEF InStarting, InIncoming, InActive, InFinishing
<1>2. /\ StartingSet' = StartingSet /\ IncomingSet' = IncomingSet
      /\ ActiveSet' = ActiveSet /\ FinishingSet' = FinishingSet
  BY <1>1 DEF StartingSet, IncomingSet, ActiveSet, FinishingSet
<1>3. CountsAgree'
  BY <1>2, CountsDef
  DEF CountsAgree, Number, StartingSet, IncomingSet, ActiveSet, FinishingSet
<1>4. Shrinks
  BY DEF Shrinks, TypeOK, Counter
<1>5. QED
  BY <1>3, <1>4

LEMMA CountTakeSlot ==
    ASSUME TypeOK, LifeInv, CountsAgree, PppoeOnly, NEW s \in Sessions, NEW f \in BOOLEAN,
           PadrTakeSlot(s, f)
    PROVE  CountsAgree' /\ cnt'["incoming"] <= cnt["incoming"] + 1
<1>1. /\ pc[s] = "slot" /\ ses' = ses /\ \A u \in Sessions : u # s => pc'[u] = pc[u]
  BY DEF PadrTakeSlot, At, TypeOK
<1>2. ses[s].state = "none" /\ Kind[s] = "pppoe"
  BY <1>1, RunsPppoe DEF Life, Before
<1>3. IF f THEN pc'[s] = "conn" /\ Inc("incoming") ELSE pc'[s] = "gone" /\ UNCHANGED cnt
  BY DEF PadrTakeSlot, At, TypeOK
<1>4. /\ Follows("starting", InStarting(s), InStarting(s)')
      /\ Follows("incoming", InIncoming(s), InIncoming(s)')
      /\ Follows("active", InActive(s), InActive(s)')
      /\ Follows("finishing", InFinishing(s), InFinishing(s)')
  BY <1>1, <1>2, <1>3 DEF Follows, Inc, Counter, TypeOK, InStarting, InIncoming, InActive, InFinishing
<1>5. QED
  BY <1>1, <1>4, CountStep

(* The handlers that change no counter.                                    *)
LEMMA CountQuiet ==
    ASSUME TypeOK, LifeInv, ListInv, CountsAgree, PppoeOnly, NEW s \in Sessions, NEW b \in BOOLEAN,
           NEW w \in Sessions \cup {NoSession},
           \/ RecvPadr(s) \/ PadrCheckSlot(s) \/ Accept(s) \/ StartLink(s)
           \/ DenyUsername(s) \/ TakeUsername(s, w) \/ Resume(s) \/ AuthFailed(s)
           \/ Activate(s) \/ RunCall(s) \/ PeerLeaves(s, b) \/ LowerFinished(s)
           \/ FinishUnlink(s) \/ FinishWake(s) \/ FinishRead(s)
    PROVE  CountsAgree' /\ Shrinks
<1>1. cnt' = cnt /\ pc[s] # "gone"
  BY DEF RecvPadr, PadrCheckSlot, Accept, StartLink, DenyUsername, TakeUsername, Resume,
         AuthFailed, Activate, RunCall, PeerLeaves, LowerFinished, FinishUnlink, FinishWake,
         FinishRead, At, Authenticating, Reading
<1>2. Kind[s] = "pppoe" /\ Life(s)
  BY <1>1, RunsPppoe
<1>3. \A u \in Sessions : u # s => pc'[u] = pc[u]
  BY DEF RecvPadr, PadrCheckSlot, Accept, StartLink, DenyUsername, TakeUsername, Resume,
         AuthFailed, Activate, RunCall, PeerLeaves, TerminateStep, LowerFinished, FinishUnlink,
         FinishWake, FinishRead, At, TypeOK
<1>4. \A u \in Sessions : ses'[u].state = ses[u].state
  <2>1. CASE TakeUsername(s, w)
    BY <2>1 DEF TakeUsername, TypeOK, SessionRecord
  <2>2. CASE FinishWake(s)
    BY <2>2 DEF FinishWake, TypeOK, SessionRecord
  <2>3. CASE \/ RecvPadr(s) \/ PadrCheckSlot(s) \/ Accept(s) \/ StartLink(s)
             \/ LowerFinished(s) \/ FinishUnlink(s) \/ FinishRead(s)
    <3>1. ses' = ses
      BY <2>3 DEF RecvPadr, PadrCheckSlot, Accept, StartLink, LowerFinished, FinishUnlink, FinishRead
    <3>2. QED
      BY <3>1
  <2>4. CASE DenyUsername(s) \/ Resume(s) \/ AuthFailed(s) \/ Activate(s)
    <3>1. \A u \in Sessions : u # s => ses'[u] = ses[u]
      BY <2>4 DEF DenyUsername, Resume, AuthFailed, Activate, SetSes, TypeOK
    <3>2. ses'[s].state = ses[s].state
      <4>1. CASE DenyUsername(s) \/ AuthFailed(s)
        BY <4>1 DEF DenyUsername, AuthFailed, SetSes, TypeOK, SessionRecord
      <4>2. CASE Resume(s)
        BY <4>2 DEF Resume, SetSes, TypeOK, SessionRecord
      <4>3. CASE Activate(s)
        BY <4>3 DEF Activate, SetSes, TypeOK, SessionRecord
      <4>4. QED
        BY <2>4, <4>1, <4>2, <4>3
    <3>3. QED
      BY <3>1, <3>2
  <2>5. CASE RunCall(s) \/ PeerLeaves(s, b)
    <3>1. \A u \in Sessions : u # s => ses'[u] = ses[u]
      BY <2>5 DEF RunCall, PeerLeaves, TerminateStep, SetSes, TypeOK
    <3>2. ses'[s].state = ses[s].state
      BY <2>5 DEF RunCall, PeerLeaves, TerminateStep, SetSes, TypeOK, SessionRecord
    <3>3. QED
      BY <3>1, <3>2
  <2>6. QED
    BY <2>1, <2>2, <2>3, <2>4, <2>5
<1>5. /\ InStarting(s)' <=> InStarting(s)
      /\ InIncoming(s)' <=> InIncoming(s)
      /\ InActive(s)' <=> InActive(s)
      /\ InFinishing(s)' <=> InFinishing(s)
  <2>1. CASE RecvPadr(s) \/ PadrCheckSlot(s)
    <3>1. /\ pc[s] \in {"none", "padr"} /\ pc'[s] \in {"none", "padr", "slot"}
      BY <2>1 DEF RecvPadr, PadrCheckSlot, At, TypeOK
    <3>2. QED
      BY <3>1, <1>2, <1>4 DEF Life, Before, InStarting, InIncoming, InActive, InFinishing
  <2>2. CASE Accept(s)
    BY <2>2, <1>2 DEF Accept
  <2>3. CASE StartLink(s)
    <3>1. pc[s] = "counted" /\ pc'[s] = "idle"
      BY <2>3 DEF StartLink, At, TypeOK
    <3>2. QED
      BY <3>1, <1>2, <1>4 DEF Life, InStarting, InIncoming, InActive, InFinishing, Reading
  <2>4. CASE DenyUsername(s) \/ TakeUsername(s, w) \/ Resume(s) \/ AuthFailed(s)
    <3>1. /\ pc[s] \in {"idle", "asleep"} /\ pc'[s] \in {"idle", "asleep", "term1"}
          /\ ses[s].state \in {"starting", "none"}
      BY <2>4, <1>2 DEF DenyUsername, TakeUsername, Resume, AuthFailed, Authenticating, At, TypeOK, Life
    <3>2. QED
      BY <3>1, <1>2, <1>4 DEF InStarting, InIncoming, InActive, InFinishing, Reading
  <2>5. CASE Activate(s)
    <3>1. /\ pc[s] = "idle" /\ pc'[s] \in {"idle", "act1"}
      BY <2>5, <1>2 DEF Activate, ActivateFrom, At, TypeOK
    <3>2. QED
      BY <3>1, <1>2, <1>4 DEF InStarting, InIncoming, InActive, InFinishing, Reading
  <2>6. CASE RunCall(s) \/ PeerLeaves(s, b) \/ LowerFinished(s)
    <3>1. /\ pc[s] = "idle" /\ pc'[s] \in {"idle", "term1", "lower", "fin1"}
          /\ pc'[s] \in {"lower", "fin1"} => ses[s].state = "finishing"
      BY <2>6 DEF RunCall, PeerLeaves, LowerFinished, TerminateStep, At, TypeOK
    <3>2. QED
      BY <3>1, <1>2, <1>4 DEF InStarting, InIncoming, InActive, InFinishing, Reading
  <2>7. CASE FinishUnlink(s)
    <3>1. pc[s] = "fin1" /\ Listed(s)
      BY <2>7, <1>2 DEF FinishUnlink, At, ListInv, Linked
    <3>2. pc'[s] = "fin2" /\ ses[s].state = "finishing"
      BY <3>1, <2>7, <1>2 DEF FinishUnlink, At, TypeOK, Life
    <3>3. QED
      BY <3>1, <3>2, <1>4 DEF InStarting, InIncoming, InActive, InFinishing, Reading
  <2>8. CASE FinishWake(s) \/ FinishRead(s)
    <3>1. /\ pc[s] \in {"fin3"} \cup Reading /\ pc'[s] \in {"gone"} \cup Reading
      BY <2>8 DEF FinishWake, FinishRead, At, TypeOK, Reading, ReadsNext
    <3>2. ses[s].state = "finishing"
      BY <3>1, <1>2 DEF Life
    <3>3. QED
      BY <3>1, <3>2, <1>4 DEF InStarting, InIncoming, InActive, InFinishing, Reading
  <2>9. QED
    BY <2>1, <2>2, <2>3, <2>4, <2>5, <2>6, <2>7, <2>8
<1>6. /\ Follows("starting", InStarting(s), InStarting(s)')
      /\ Follows("incoming", InIncoming(s), InIncoming(s)')
      /\ Follows("active", InActive(s), InActive(s)')
      /\ Follows("finishing", InFinishing(s), InFinishing(s)')
  BY <1>1, <1>5 DEF Follows
<1>7. QED
  BY <1>3, <1>4, <1>5, <1>6, CountStep DEF Shrinks

(* The handlers that change one.                                           *)
LEMMA CountLoud ==
    ASSUME TypeOK, LifeInv, ListInv, CountsAgree, PppoeOnly, NEW s \in Sessions, NEW b \in BOOLEAN,
           \/ StartCheck(s) \/ StartCount(s) \/ IpoeStarting(s) \/ IpoeIncoming(s)
           \/ ActivateStarting(s) \/ ActivateIncoming(s) \/ ActivateActive(s)
           \/ TerminateCount(s) \/ TerminateIncoming(s) \/ TerminateLower(s, b)
           \/ FinishCount(s)
    PROVE  CountsAgree' /\ Shrinks
<1>1. pc[s] # "gone"
  BY DEF StartCheck, StartCount, IpoeStarting, IpoeIncoming, ActivateStarting, ActivateIncoming,
         ActivateActive, TerminateCount, TerminateIncoming, TerminateLower, FinishCount, At
<1>2. Kind[s] = "pppoe" /\ Life(s)
  BY <1>1, RunsPppoe
<1>3. \A u \in Sessions : u # s => pc'[u] = pc[u]
  BY DEF StartCheck, StartCount, IpoeStarting, IpoeIncoming, ActivateStarting, ActivateIncoming,
         ActivateActive, TerminateCount, TerminateIncoming, TerminateLower, FinishCount, At, TypeOK
<1>4. \A u \in Sessions : u # s => ses'[u] = ses[u]
  BY DEF StartCheck, StartCount, IpoeStarting, IpoeIncoming, ActivateStarting, ActivateIncoming,
         ActivateActive, TerminateCount, TerminateIncoming, TerminateLower, FinishCount, SetSes, TypeOK
<1>5. ses[s].state \in {"none", "starting", "active", "finishing"}
  BY DEF TypeOK, SessionRecord
<1> DEFINE F == /\ Follows("starting", InStarting(s), InStarting(s)')
                /\ Follows("incoming", InIncoming(s), InIncoming(s)')
                /\ Follows("active", InActive(s), InActive(s)')
                /\ Follows("finishing", InFinishing(s), InFinishing(s)')
                /\ InIncoming(s)' => InIncoming(s)
<1>6. CASE StartCheck(s)
  <2>1. pc[s] = "conn" /\ ses' = ses /\ pc'[s] = IF shutdown THEN "gone" ELSE "checked"
    BY <1>2, <1>6 DEF StartCheck, At, TypeOK
  <2>2. ses[s].state = "none"
    BY <2>1, <1>2 DEF Life, Before
  <2>3. cnt["incoming"] > 0
    <3>1. s \in IncomingSet
      BY <2>1, <1>2 DEF IncomingSet, InIncoming
    <3>2. IsFiniteSet(IncomingSet)
      BY FS_Subset, SessionAssumption DEF IncomingSet
    <3>3. Cardinality(IncomingSet) \in Nat /\ Cardinality(IncomingSet) # 0
      BY <3>1, <3>2, FS_EmptySet, FS_CardinalityType
    <3>4. QED
      BY <3>3, CountsDef
  <2>4. IF shutdown THEN Dec("incoming") ELSE UNCHANGED cnt
    BY <2>3, <1>2, <1>6 DEF StartCheck
  <2>5. F
    BY <2>1, <2>2, <2>4, <1>2 DEF Follows, Dec, Counter, TypeOK, InStarting, InIncoming, InActive, InFinishing
  <2>6. QED
    BY <2>5, <1>3, <1>4, CountStep DEF Shrinks
<1>7. CASE StartCount(s)
  <2>1. pc[s] = "checked" /\ pc'[s] = "counted" /\ ses'[s].state = "starting" /\ Inc("starting")
    BY <1>7 DEF StartCount, At, SetSes, TypeOK, SessionRecord
  <2>2. ses[s].state = "none"
    BY <2>1, <1>2 DEF Life, Before
  <2>3. F
    BY <2>1, <2>2, <1>2 DEF Follows, Inc, Counter, TypeOK, InStarting, InIncoming, InActive, InFinishing
  <2>4. QED
    BY <2>3, <1>3, <1>4, CountStep DEF Shrinks
<1>8. CASE IpoeStarting(s) \/ IpoeIncoming(s)
  BY <1>2, <1>8 DEF Life, IpoeStarting, IpoeIncoming, At
<1>9. CASE ActivateStarting(s)
  <2>1. pc[s] = "act1" /\ pc'[s] = "act2" /\ ses'[s].state = "active" /\ Dec("starting")
    BY <1>9 DEF ActivateStarting, At, SetSes, TypeOK, SessionRecord
  <2>2. ses[s].state = "starting"
    BY <2>1, <1>2 DEF Life, Linked
  <2>3. F
    BY <2>1, <2>2, <1>2 DEF Follows, Dec, Counter, TypeOK, InStarting, InIncoming, InActive, InFinishing
  <2>4. QED
    BY <2>3, <1>3, <1>4, CountStep DEF Shrinks
<1>10. CASE ActivateIncoming(s) \/ ActivateActive(s)
  <2>1. /\ ses' = ses /\ ses[s].state = "active"
        /\ \/ pc[s] = "act2" /\ pc'[s] = "act3" /\ Dec("incoming")
           \/ pc[s] = "act3" /\ pc'[s] = "idle" /\ Inc("active")
    BY <1>2, <1>10 DEF ActivateIncoming, ActivateActive, At, TypeOK, Life
  <2>2. F
    BY <2>1, <1>2 DEF Follows, Inc, Dec, Counter, TypeOK, InStarting, InIncoming, InActive, InFinishing
  <2>3. QED
    BY <2>2, <1>3, <1>4, CountStep DEF Shrinks
<1>11. CASE TerminateCount(s)
  <2>1. /\ pc[s] = "term1" /\ ses' = ses
        /\ \/ ses[s].state = "active" /\ pc'[s] = "lower" /\ Dec("active")
           \/ ses[s].state # "active" /\ pc'[s] = "term2" /\ Dec("starting")
    BY <1>11 DEF TerminateCount, At, TypeOK
  <2>2. ses[s].state \in {"starting", "active"}
    BY <2>1, <1>2, <1>5 DEF Life, Linked
  <2>3. F
    BY <2>1, <2>2, <1>2 DEF Follows, Dec, Counter, TypeOK, InStarting, InIncoming, InActive, InFinishing
  <2>4. QED
    BY <2>3, <1>3, <1>4, CountStep DEF Shrinks
<1>12. CASE TerminateIncoming(s)
  <2>1. pc[s] = "term2" /\ ses' = ses /\ pc'[s] = "lower" /\ Dec("incoming")
    BY <1>12 DEF TerminateIncoming, At, TypeOK
  <2>2. ses[s].state = "starting"
    BY <2>1, <1>2 DEF Life, Linked
  <2>3. F
    BY <2>1, <2>2, <1>2 DEF Follows, Dec, Counter, TypeOK, InStarting, InIncoming, InActive, InFinishing
  <2>4. QED
    BY <2>3, <1>3, <1>4, CountStep DEF Shrinks
<1>13. CASE TerminateLower(s, b)
  <2>1. /\ pc[s] = "lower" /\ pc'[s] \in {"fin1", "idle"} /\ ses'[s].state = "finishing"
        /\ IF ses[s].state = "finishing" THEN UNCHANGED cnt ELSE Inc("finishing")
    BY <1>13 DEF TerminateLower, At, SetSes, TypeOK, SessionRecord
  <2>2. F
    BY <2>1, <1>2 DEF Follows, Inc, Counter, TypeOK, InStarting, InIncoming, InActive, InFinishing, Reading
  <2>3. QED
    BY <2>2, <1>3, <1>4, CountStep DEF Shrinks
<1>14. CASE FinishCount(s)
  <2>1. pc[s] = "fin2" /\ pc'[s] = "fin3" /\ ses' = ses
    BY <1>14 DEF FinishCount, At, TypeOK
  <2>2. ses[s].state = "finishing"
    BY <2>1, <1>2 DEF Life
  <2>3. FinishedCounters(ses[s].state) = {"finishing"}
    BY <2>2 DEF FinishedCounters
  <2>4. \A c \in Counter : cnt'[c] = IF c = "finishing" THEN (cnt[c] + UIntMod - 1) % UIntMod ELSE cnt[c]
    BY <2>3, <1>14 DEF FinishCount
  <2>5. F
    BY <2>1, <2>2, <2>4, <1>2 DEF Follows, Counter, InStarting, InIncoming, InActive, InFinishing, Reading
  <2>6. QED
    BY <2>5, <1>3, <1>4, CountStep DEF Shrinks
<1>15. QED
  BY <1>6, <1>7, <1>8, <1>9, <1>10, <1>11, <1>12, <1>13, <1>14

LEMMA CountNext ==
    ASSUME SInv, CountsAgree, PppoeOnly, [Next]_vars
    PROVE  /\ CountsAgree'
           /\ Shrinks \/ \E s \in Sessions : PadrTakeSlot(s, TRUE) \/ PadrTakeSlot(s, FALSE)
<1> USE DEF SInv
<1>1. CASE UNCHANGED vars
  <2>1. cnt' = cnt /\ pc' = pc /\ ses' = ses
    BY <1>1 DEF vars
  <2>2. QED
    BY <2>1, CountNothing
<1>2. CASE Stop
  <2>1. cnt' = cnt /\ pc' = pc /\ ses' = ses
    BY <1>2, StopFrame
  <2>2. QED
    BY <2>1, CountNothing
<1>3. ASSUME NEW s \in Sessions, NEW f \in BOOLEAN, PadrTakeSlot(s, f)
      PROVE  /\ CountsAgree'
             /\ \E u \in Sessions : PadrTakeSlot(u, TRUE) \/ PadrTakeSlot(u, FALSE)
  <2>1. CountsAgree'
    BY <1>3, CountTakeSlot
  <2>2. PadrTakeSlot(s, TRUE) \/ PadrTakeSlot(s, FALSE)
    BY <1>3
  <2>3. QED
    BY <2>1, <2>2
<1>4. ASSUME NEW s \in Sessions,
             RecvPadr(s) \/ PadrCheckSlot(s) \/ Accept(s) \/ Runs(s) \/ SetUsername(s)
             \/ AuthFailed(s) \/ Activate(s) \/ LowerFinished(s)
             \/ \E b \in BOOLEAN : PeerLeaves(s, b)
      PROVE  CountsAgree' /\ Shrinks
  <2>1. CASE StartCheck(s) \/ StartCount(s) \/ IpoeStarting(s) \/ IpoeIncoming(s)
             \/ ActivateStarting(s) \/ ActivateIncoming(s) \/ ActivateActive(s)
             \/ TerminateCount(s) \/ TerminateIncoming(s) \/ FinishCount(s)
             \/ \E now \in BOOLEAN : TerminateLower(s, now)
    BY <2>1, CountLoud
  <2>2. CASE SetUsername(s)
    BY <2>2, CountQuiet DEF SetUsername
  <2>3. CASE \E b \in BOOLEAN : PeerLeaves(s, b)
    BY <2>3, CountQuiet
  <2>4. CASE \/ RecvPadr(s) \/ PadrCheckSlot(s) \/ Accept(s) \/ StartLink(s)
             \/ Resume(s) \/ AuthFailed(s) \/ Activate(s) \/ RunCall(s) \/ LowerFinished(s)
             \/ FinishUnlink(s) \/ FinishWake(s) \/ FinishRead(s)
    BY <2>4, CountQuiet
  <2>5. QED
    BY <1>4, <2>1, <2>2, <2>3, <2>4 DEF Runs, Starts, Finishes
<1>5. QED
  BY <1>1, <1>2, <1>3, <1>4 DEF Next, Stops, Stop, Discovers

LEMMA CountsInit == Init => CountsAgree
<1> SUFFICES ASSUME Init PROVE CountsAgree
  OBVIOUS
<1>1. \A s \in Sessions : ses[s].state = "none" /\ pc[s] \in {"none", "gone"}
  BY DEF Init, NewSession
<1>2. StartingSet = {} /\ IncomingSet = {} /\ ActiveSet = {} /\ FinishingSet = {}
  BY <1>1 DEF StartingSet, IncomingSet, ActiveSet, FinishingSet, InStarting, InIncoming,
              InActive, InFinishing
<1>3. \A c \in Counter : cnt[c] = 0
  BY DEF Init
<1>4. QED
  BY <1>2, <1>3, FS_EmptySet, CountsDef DEF Counter

(* The place found free in PadrCheckSlot is still free in PadrTakeSlot,    *)
(* for a single discovery context handles one PADR at a time.              *)
OneContext == \A s, t \in Sessions : Server[s] = Server[t]

SlotInv ==
    /\ \A s, t \in Sessions : pc[s] \in {"padr", "slot"} /\ pc[t] \in {"padr", "slot"} => s = t
    /\ PppoeOnly /\ conf.max_starting > 0 =>
          /\ cnt["incoming"] <= conf.max_starting
          /\ \A s \in Sessions : pc[s] = "slot" => cnt["incoming"] < conf.max_starting

(* Who handles a PADR.                                                     *)
LEMMA SlotPlaces ==
    ASSUME TypeOK, [Next]_vars, NEW s \in Sessions, pc'[s] \in {"padr", "slot"}
    PROVE  \/ pc'[s] = pc[s]
           \/ RecvPadr(s) /\ pc'[s] = "padr"
           \/ PadrCheckSlot(s) /\ SlotFree /\ pc[s] = "padr" /\ cnt' = cnt /\ conf' = conf
<1>1. CASE UNCHANGED vars
  BY <1>1 DEF vars
<1>2. CASE Stop
  BY <1>2, StopFrame
<1>3. ASSUME NEW u \in Sessions, RecvPadr(u) PROVE (u = s /\ pc'[s] = "padr") \/ pc'[s] = pc[s]
  BY <1>3 DEF RecvPadr, At, TypeOK
<1>4. ASSUME NEW u \in Sessions, PadrCheckSlot(u)
      PROVE  (u = s /\ SlotFree /\ pc[s] = "padr" /\ cnt' = cnt /\ conf' = conf) \/ pc'[s] = pc[s]
  BY <1>4 DEF PadrCheckSlot, At, TypeOK, admin
<1>5. ASSUME NEW u \in Sessions, NEW f \in BOOLEAN,
             PadrTakeSlot(u, f) \/ Accept(u) \/ Starts(u) \/ Finishes(u)
      PROVE  pc'[s] = pc[s]
  BY <1>5 DEF PadrTakeSlot, Accept, Starts, StartCheck, StartCount, StartLink, Finishes,
       TerminateCount, TerminateIncoming, TerminateLower, FinishUnlink, FinishCount, FinishWake,
       FinishRead, ReadsNext, At, TypeOK
<1>6. ASSUME NEW u \in Sessions, NEW w \in Sessions \cup {NoSession},
             DenyUsername(u) \/ TakeUsername(u, w) \/ Resume(u) \/ AuthFailed(u)
      PROVE  pc'[s] = pc[s]
  BY <1>6 DEF DenyUsername, TakeUsername, Resume, AuthFailed, At, TypeOK
<1>7. ASSUME NEW u \in Sessions, NEW b \in BOOLEAN,
             \/ Activate(u) \/ IpoeStarting(u) \/ IpoeIncoming(u)
             \/ ActivateStarting(u) \/ ActivateIncoming(u) \/ ActivateActive(u)
             \/ RunCall(u) \/ PeerLeaves(u, b) \/ LowerFinished(u)
      PROVE  pc'[s] = pc[s]
  BY <1>7 DEF Activate, ActivateFrom, IpoeStarting, IpoeIncoming, ActivateStarting,
       ActivateIncoming, ActivateActive, RunCall, PeerLeaves, LowerFinished, TerminateStep, At, TypeOK
<1>8. QED
  BY <1>1, <1>2, <1>3, <1>4, <1>5, <1>6, <1>7
  DEF Next, Stop, Runs, Stops, Discovers, SetUsername

LEMMA ConfKept == [Next]_vars => conf' = conf
<1>1. ASSUME NEW s \in Sessions, NEW b \in BOOLEAN,
             Discovers(s) \/ Accept(s) \/ Starts(s) \/ Resume(s) \/ RunCall(s) \/ PeerLeaves(s, b)
      PROVE  conf' = conf
  BY <1>1 DEF admin, Discovers, RecvPadr, PadrCheckSlot, PadrTakeSlot, Accept, Starts, StartCheck,
         StartCount, StartLink, Resume, RunCall, PeerLeaves
<1>2. ASSUME NEW s \in Sessions,
             \/ IpoeStarting(s) \/ IpoeIncoming(s) \/ ActivateStarting(s) \/ ActivateIncoming(s)
             \/ ActivateActive(s) \/ Activate(s) \/ LowerFinished(s) \/ Finishes(s)
      PROVE  conf' = conf
  BY <1>2 DEF admin, IpoeStarting, IpoeIncoming, ActivateStarting, ActivateIncoming, ActivateActive,
         Activate, LowerFinished, Finishes, TerminateCount, TerminateIncoming, TerminateLower,
         FinishUnlink, FinishCount, FinishWake, FinishRead
<1>3. ASSUME NEW s \in Sessions, SetUsername(s) \/ AuthFailed(s) PROVE conf' = conf
  BY <1>3 DEF admin, SetUsername, DenyUsername, TakeUsername, AuthFailed
<1>4. CASE SigTerm \/ MainShutdown \/ CliCancel \/ \E o \in {"soft", "default", "hard"} : CliShutdown(o)
  BY <1>4 DEF SigTerm, MainShutdown, CliCancel, CliShutdown
<1>5. ASSUME NEW t \in Stoppers, Stops(t) PROVE conf' = conf
  BY <1>5 DEF Stops, ShutdownRead, ShutdownWalk
<1>6. CASE UNCHANGED vars
  BY <1>6 DEF vars
<1>7. QED
  BY <1>1, <1>2, <1>3, <1>4, <1>5, <1>6 DEF Next, Runs


LEMMA SlotNext ==
    ASSUME OneContext, SInv, SlotInv, PppoeOnly => CountsAgree, [Next]_vars
    PROVE  SlotInv'
<1>0. TypeOK /\ LifeInv
  BY DEF SInv
<1>1. ASSUME NEW s \in Sessions, NEW t \in Sessions,
             pc'[s] \in {"padr", "slot"}, pc'[t] \in {"padr", "slot"}, s # t
      PROVE  FALSE
  <2>1. CASE RecvPadr(s) \/ RecvPadr(t)
    <3>1. ASSUME NEW x \in Sessions, NEW y \in Sessions, x # y, RecvPadr(x), pc'[y] \in {"padr", "slot"}
          PROVE  FALSE
      <4>1. pc'[y] = pc[y]
        BY <3>1, <1>0 DEF RecvPadr, At, TypeOK
      <4>2. QED
        BY <3>1, <4>1 DEF RecvPadr, OneContext
    <3>2. QED
      BY <2>1, <3>1, <1>1
  <2>2. CASE ~RecvPadr(s) /\ ~RecvPadr(t)
    <3>1. pc[s] \in {"padr", "slot"} /\ pc[t] \in {"padr", "slot"}
      BY <2>2, <1>0, <1>1, SlotPlaces
    <3>2. QED
      BY <3>1, <1>1 DEF SlotInv
  <2>3. QED
    BY <2>1, <2>2
<1>2. ASSUME PppoeOnly, conf.max_starting > 0
      PROVE  /\ cnt'["incoming"] <= conf.max_starting
             /\ \A s \in Sessions : pc'[s] = "slot" => cnt'["incoming"] < conf.max_starting
  <2>1. /\ cnt["incoming"] <= conf.max_starting /\ CountsAgree
        /\ \A s \in Sessions : pc[s] = "slot" => cnt["incoming"] < conf.max_starting
    BY <1>2 DEF SlotInv
  <2>2. cnt["incoming"] \in Nat /\ cnt'["incoming"] \in Nat /\ conf.max_starting \in Nat
    <3>1. TypeOK'
      BY <1>0, TypeNext
    <3>2. cnt["incoming"] \in 0..(UIntMod - 1) /\ cnt'["incoming"] \in 0..(UIntMod - 1)
      BY <1>0, <3>1 DEF TypeOK, Counter
    <3>3. conf.max_starting \in Nat
      BY <1>0, SessionAssumption DEF TypeOK
    <3>4. QED
      BY <3>2, <3>3, UIntModType
  <2>3. CASE Shrinks
    <3>1. ASSUME NEW s \in Sessions, pc'[s] = "slot" PROVE cnt["incoming"] < conf.max_starting
      <4>1. CASE pc[s] = "slot"
        BY <4>1, <2>1
      <4>2. CASE pc[s] # "slot"
        <5>1. SlotFree
          BY <4>2, <3>1, <1>0, SlotPlaces
        <5>2. QED
          BY <5>1, <1>2, <2>2 DEF SlotFree
      <4>3. QED
        BY <4>1, <4>2
    <3>2. QED
      BY <3>1, <2>1, <2>2, <2>3 DEF Shrinks
  <2>4. ASSUME NEW s \in Sessions, NEW f \in BOOLEAN, PadrTakeSlot(s, f)
        PROVE  /\ cnt'["incoming"] <= conf.max_starting
               /\ \A t \in Sessions : pc'[t] = "slot" => cnt'["incoming"] < conf.max_starting
    <3>1. pc[s] = "slot" /\ pc'[s] # "slot" /\ \A t \in Sessions : t # s => pc'[t] = pc[t]
      BY <2>4, <1>0 DEF PadrTakeSlot, At, TypeOK
    <3>2. cnt["incoming"] < conf.max_starting /\ cnt'["incoming"] <= cnt["incoming"] + 1
      BY <3>1, <2>1, <2>4, <1>0, <1>2, CountTakeSlot
    <3>3. \A t \in Sessions : pc'[t] # "slot"
      BY <3>1 DEF SlotInv
    <3>4. QED
      BY <3>2, <3>3, <2>2
  <2>5. QED
    BY <2>1, <2>3, <2>4, <1>2, CountNext
<1>3. conf' = conf
  BY ConfKept
<1>4. QED
  BY <1>1, <1>2, <1>3 DEF SlotInv, PppoeOnly

(* Where only PPPoE sessions arrive, and whatever their number and the     *)
(* interleaving of their handlers, each counter of ap_session_stat is the  *)
(* number of sessions it stands for; with a single discovery context no    *)
(* more sessions are being set up than max-starting allows.                *)
THEOREM CountersAreExact == OneContext /\ Spec => []CountersExact
<1> SUFFICES ASSUME OneContext PROVE Spec => []CountersExact
  OBVIOUS
<1> DEFINE Inv == SInv /\ (PppoeOnly => CountsAgree) /\ SlotInv
<1>1. Init => Inv
  <2> SUFFICES ASSUME Init PROVE Inv
    OBVIOUS
  <2>1. SlotInv
    <3>1. /\ \A s \in Sessions : pc[s] \notin {"padr", "slot"}
          /\ cnt["incoming"] = 0 /\ conf \in Scenarios
      BY DEF Init, Counter
    <3>2. conf.max_starting \in Nat
      BY <3>1, SessionAssumption
    <3>3. QED
      BY <3>1, <3>2 DEF SlotInv
  <2>2. QED
    BY <2>1, SInvInit, CountsInit
<1>2. Inv /\ [Next]_vars => Inv'
  <2> SUFFICES ASSUME Inv, [Next]_vars PROVE Inv'
    OBVIOUS
  <2>1. SInv'
    BY SInvNext
  <2>2. SlotInv'
    BY SlotNext
  <2>3. conf' = conf
    BY ConfKept
  <2>4. ASSUME PppoeOnly' PROVE CountsAgree'
    <3>1. PppoeOnly
      BY <2>3, <2>4 DEF PppoeOnly
    <3>2. QED
      BY <3>1, CountNext
  <2>5. QED
    BY <2>1, <2>2, <2>4
<1>3. Inv => CountersExact
  <2> SUFFICES ASSUME Inv PROVE CountersExact
    OBVIOUS
  <2>1. ASSUME PppoeOnly PROVE CountsAgree /\ StartingWithinLimit
    <3>1. CountsAgree /\ cnt["incoming"] = Cardinality(IncomingSet)
      BY <2>1, CountsDef
    <3>2. conf.max_starting > 0 => Cardinality(IncomingSet) <= conf.max_starting
      BY <2>1, <3>1 DEF SlotInv
    <3>3. StartingWithinLimit
      BY <3>2 DEF StartingWithinLimit, Number, IncomingSet
    <3>4. QED
      BY <3>1, <3>3
  <2>2. QED
    BY <2>1 DEF CountersExact, PppoeOnly, SInv
<1>4. QED
  BY <1>1, <1>2, <1>3, PTL DEF Spec
-----------------------------------------------------------------------------
(***************************************************************************)
(* single-session: no two sessions of one name are active together.        *)
(*                                                                         *)
(* Sessions of one name that are in ses_list form a chain: the first one   *)
(* runs, every other one sleeps in ap_session_set_username and is the      *)
(* wakeup of the one before it.  A new session is appended at the end, and *)
(* the first one is taken away when it has finished.  The chain is broken  *)
(* by an IPoE session that goes on although ap_session_starting failed: it *)
(* has a name and is not in the list.  This needs a shutdown, during which *)
(* no session is activated, so it does harm only if the shutdown is        *)
(* cancelled.                                                              *)
(***************************************************************************)

(* No IPoE session arrives where a shutdown may be cancelled.              *)
CancelIsSafe ==
    \A c \in Scenarios : "cancel" \in c.ops => \A s \in c.arrive : Kind[s] # "ipoe"

Trusted == shutdown => \A s \in conf.arrive : Kind[s] # "ipoe"

(* A finished session stays in the chain until it has woken the next one.  *)
InChain(s) ==
    /\ ses[s].user /\ ~ses[s].authErr
    /\ Listed(s) \/ (pc[s] \in {"fin2", "fin3"} /\ ses[s].wakeup # NoSession)

NameChain(n, k, q) ==
    /\ \A i, j \in 1..k : q[i] = q[j] => i = j
    /\ \A s \in Sessions : (User[s] = n /\ InChain(s)) <=> \E i \in 1..k : q[i] = s
    /\ \A i \in 1..k : ses[q[i]].wakeup = IF i < k THEN q[i + 1] ELSE NoSession
    /\ \A i \in 1..k : Waiting(q[i]) <=> i > 1

HasChain(n) == \E k \in Nat : \E q \in [1..k -> Sessions] : NameChain(n, k, q)

ChainInv == \A x \in Sessions : HasChain(User[x])

AllListed == \A s \in Sessions : pc[s] \in Linked => Listed(s)

(* Active, or on the way there and past the test of ap_shutdown.           *)
Live(s) == ses[s].state = "active" \/ pc[s] = "act1"

LiveInv == \A s, t \in Sessions : User[s] = User[t] /\ Live(s) /\ Live(t) => s = t

NameInv ==
    conf.single # "off" =>
        /\ LiveInv
        /\ Trusted => ChainInv /\ AllListed

-----------------------------------------------------------------------------
LEMMA NameInit == Init => NameInv
<1> SUFFICES ASSUME Init PROVE NameInv
  OBVIOUS
<1>1. \A s \in Sessions : /\ pc[s] \in {"none", "gone"} /\ ses[s].state = "none"
                          /\ ~ses[s].user
  BY DEF Init, NewSession
<1>2. LiveInv
  BY <1>1 DEF LiveInv, Live
<1>3. AllListed
  BY <1>1 DEF AllListed, Linked
<1>4. ASSUME NEW x \in Sessions PROVE HasChain(User[x])
  <2>1. PICK q \in [1..0 -> Sessions] : TRUE
    <3>1. [i \in 1..0 |-> x] \in [1..0 -> Sessions]
      OBVIOUS
    <3>2. QED
      BY <3>1
  <2>2. NameChain(User[x], 0, q)
    BY <1>1 DEF NameChain, InChain
  <2>3. QED
    BY <2>2 DEF HasChain
<1>5. QED
  BY <1>2, <1>3, <1>4 DEF NameInv, ChainInv

(* Trust is not regained.                                                  *)
LEMMA TrustStep ==
    ASSUME CancelIsSafe, TypeOK, [Next]_vars, Trusted'
    PROVE  Trusted
<1>1. conf' = conf
  BY ConfKept
<1>2. CASE CliCancel
  BY <1>2 DEF CliCancel, CancelIsSafe, TypeOK, Trusted
<1>3. CASE ~CliCancel
  <2>1. ASSUME NEW s \in Sessions, NEW b \in BOOLEAN,
               Discovers(s) \/ Accept(s) \/ Starts(s) \/ Resume(s) \/ RunCall(s) \/ PeerLeaves(s, b)
        PROVE  shutdown' = shutdown
    BY <2>1 DEF admin, Discovers, RecvPadr, PadrCheckSlot, PadrTakeSlot, Accept, Starts, StartCheck,
           StartCount, StartLink, Resume, RunCall, PeerLeaves
  <2>2. ASSUME NEW s \in Sessions,
               \/ IpoeStarting(s) \/ IpoeIncoming(s) \/ ActivateStarting(s) \/ ActivateIncoming(s)
               \/ ActivateActive(s) \/ Activate(s) \/ LowerFinished(s) \/ Finishes(s)
        PROVE  shutdown' = shutdown
    BY <2>2 DEF admin, IpoeStarting, IpoeIncoming, ActivateStarting, ActivateIncoming,
           ActivateActive, Activate, LowerFinished, Finishes, TerminateCount, TerminateIncoming,
           TerminateLower, FinishUnlink, FinishCount, FinishWake, FinishRead
  <2>3. ASSUME NEW s \in Sessions, SetUsername(s) \/ AuthFailed(s) PROVE shutdown' = shutdown
    BY <2>3 DEF admin, SetUsername, DenyUsername, TakeUsername, AuthFailed
  <2>4. CASE SigTerm \/ MainShutdown \/ \E o \in {"soft", "default", "hard"} : CliShutdown(o)
    BY <2>4, <1>1 DEF SigTerm, MainShutdown, CliShutdown, Trusted
  <2>5. ASSUME NEW t \in Stoppers, Stops(t) PROVE shutdown' = shutdown
    BY <2>5 DEF Stops, ShutdownRead, ShutdownWalk
  <2>6. CASE UNCHANGED vars
    BY <2>6, <1>1 DEF vars, Trusted
  <2>7. CASE shutdown' = shutdown
    BY <2>7, <1>1 DEF Trusted
  <2>8. QED
    BY <1>3, <2>1, <2>2, <2>3, <2>4, <2>5, <2>6, <2>7 DEF Next, Runs
<1>4. QED
  BY <1>2, <1>3

(* How a session comes into the list and out of it.                        *)
LEMMA UnlinkList ==
    ASSUME TypeOK, ListInv, NEW s \in Sessions, FinishUnlink(s), NEW u \in Sessions
    PROVE  Listed(u)' <=> Listed(u) /\ u # s
<1>1. CASE ~Listed(s)
  BY <1>1 DEF FinishUnlink, Listed
<1>2. CASE Listed(s)
  <2>1. PICK i \in 1..Len(list) : list[i] = s /\ list' = RemoveAt(list, i)
    BY <1>2 DEF FinishUnlink
  <2>2. list \in Seq(Sessions) /\ Len(list) \in Nat
    BY DEF TypeOK
  <2>3. /\ Len(list') = Len(list) - 1
        /\ \A j \in 1..(Len(list) - 1) : list'[j] = IF j < i THEN list[j] ELSE list[j + 1]
    BY <2>1, <2>2, RemoveAtFacts
  <2>4. ASSUME NEW j \in 1..Len(list'), list'[j] = u PROVE Listed(u) /\ u # s
    <3> DEFINE J == IF j < i THEN j ELSE j + 1
    <3>1. J \in 1..Len(list) /\ list[J] = u /\ J # i
      BY <2>2, <2>3, <2>4
    <3>2. QED
      BY <3>1, <2>1 DEF ListInv, Listed
  <2>5. ASSUME NEW j \in 1..Len(list), list[j] = u, u # s PROVE Listed(u)'
    <3>1. j # i
      BY <2>1, <2>5
    <3>2. CASE j < i
      BY <3>2, <2>2, <2>3, <2>5 DEF Listed
    <3>3. CASE j > i
      <4>1. j - 1 \in 1..Len(list') /\ list'[j - 1] = list[(j - 1) + 1]
        BY <3>3, <2>2, <2>3
      <4>2. QED
        BY <4>1, <2>5 DEF Listed
    <3>4. QED
      BY <3>1, <3>2, <3>3
  <2>6. QED
    BY <2>4, <2>5 DEF Listed
<1>3. QED
  BY <1>1, <1>2

LEMMA LinkList ==
    ASSUME TypeOK, NEW s \in Sessions, StartLink(s), NEW u \in Sessions
    PROVE  Listed(u)' <=> Listed(u) \/ u = s
<1>1. list' = Append(list, s) /\ list \in Seq(Sessions)
  BY DEF StartLink, TypeOK
<1>2. /\ Len(list') = Len(list) + 1 /\ list'[Len(list) + 1] = s /\ Len(list) \in Nat
      /\ \A i \in 1..Len(list) : list'[i] = list[i]
  BY <1>1
<1>3. QED
  BY <1>2 DEF Listed

-----------------------------------------------------------------------------
(* Steps that leave the chains alone.                                      *)
LEMMA ChainKept ==
    ASSUME NEW n, HasChain(n),
           \A u \in Sessions : User[u] = n =>
              /\ InChain(u)' <=> InChain(u)
              /\ InChain(u) => ses'[u].wakeup = ses[u].wakeup /\ (Waiting(u)' <=> Waiting(u))
    PROVE  HasChain(n)'
<1>1. PICK k \in Nat : \E q \in [1..k -> Sessions] : NameChain(n, k, q)
  BY DEF HasChain
<1>2. PICK q \in [1..k -> Sessions] : NameChain(n, k, q)
  BY <1>1
<1>3. \A i \in 1..k : q[i] \in Sessions /\ User[q[i]] = n /\ InChain(q[i])
  BY <1>2 DEF NameChain
<1>4. \A s \in Sessions : (User[s] = n /\ InChain(s)') <=> \E i \in 1..k : q[i] = s
  BY <1>2 DEF NameChain
<1>5. \A i \in 1..k : ses'[q[i]].wakeup = IF i < k THEN q[i + 1] ELSE NoSession
  BY <1>2, <1>3 DEF NameChain
<1>6. \A i \in 1..k : Waiting(q[i])' <=> i > 1
  BY <1>2, <1>3 DEF NameChain
<1>7. NameChain(n, k, q)'
  BY <1>2, <1>4, <1>5, <1>6 DEF NameChain
<1>8. QED
  BY <1>7 DEF HasChain

(* A step of s that is no sleep, no waking, no naming and no unlinking.    *)
LEMMA ChainStep ==
    ASSUME SInv, ChainInv, NEW s \in Sessions, list' = list,
           \A u \in Sessions : u # s => pc'[u] = pc[u] /\ ses'[u] = ses[u],
           ses'[s].wakeup = ses[s].wakeup,
           ses'[s].user /\ ~ses'[s].authErr <=> ses[s].user /\ ~ses[s].authErr,
           pc'[s] = "asleep" /\ ~ses'[s].woken <=> pc[s] = "asleep" /\ ~ses[s].woken,
           pc[s] \in {"fin2", "fin3"} <=> pc'[s] \in {"fin2", "fin3"}
    PROVE  ChainInv'
<1>1. \A u \in Sessions : Listed(u)' <=> Listed(u)
  BY DEF Listed
<1>2. \A u \in Sessions :
        /\ InChain(u)' <=> InChain(u)
        /\ ses'[u].wakeup = ses[u].wakeup
        /\ Waiting(u)' <=> Waiting(u)
  BY <1>1 DEF InChain, Waiting
<1>3. QED
  BY <1>2, ChainKept DEF ChainInv

-----------------------------------------------------------------------------
(* A session takes its name: it is appended to the chain.                  *)
LEMMA ChainTake ==
    ASSUME SInv, ChainInv, AllListed, conf.single # "off", NEW s \in Sessions,
           NEW w \in Sessions \cup {NoSession}, TakeUsername(s, w)
    PROVE  ChainInv'
<1>0. TypeOK /\ LifeInv /\ ListInv /\ WakeInv /\ NoSession \notin Sessions
      /\ conf.single \in {"deny", "replace"}
  BY SessionAssumption DEF SInv, TypeOK
<1>1. /\ pc[s] = "idle" /\ ~ses[s].user /\ list' = list /\ Listed(s) /\ ~ses[s].woken
      /\ ses[s].wakeup = NoSession /\ ~ses[s].authErr
  BY <1>0 DEF TakeUsername, Authenticating, AllListed, Linked, WakeInv, LifeInv, Life
<1>2. \A u \in Sessions : Listed(u)' <=> Listed(u)
  BY <1>1 DEF Listed
<1>3. \A u \in Sessions : u # s => pc'[u] = pc[u]
  BY <1>0 DEF TakeUsername, TypeOK
<1>4. w # NoSession => Duplicate(s, w) /\ ses[w].wakeup = NoSession /\ Listed(w) /\ w \in Sessions
  BY <1>0 DEF TakeUsername, WaitsFor, First, Listed
<1>5. w # s
  BY <1>0, <1>1, <1>4 DEF Duplicate
<1>6. \A u \in Sessions :
        /\ ses'[u].wakeup = IF u = w THEN s ELSE ses[u].wakeup
        /\ ses'[u].woken = ses[u].woken
        /\ u # s => ses'[u].user = ses[u].user
        /\ ses'[u].authErr = ses[u].authErr
  <2> SUFFICES ASSUME NEW u \in Sessions
               PROVE  /\ ses'[u].wakeup = IF u = w THEN s ELSE ses[u].wakeup
                      /\ ses'[u].woken = ses[u].woken
                      /\ u # s => ses'[u].user = ses[u].user
                      /\ ses'[u].authErr = ses[u].authErr
    OBVIOUS
  <2>1. ses[u] \in SessionRecord
    BY <1>0 DEF TypeOK
  <2>2. CASE u = s
    <3>1. PICK b : ses'[u] = [ses[u] EXCEPT !.user = TRUE, !.authed = b]
      BY <2>2 DEF TakeUsername
    <3>2. QED
      BY <3>1, <2>1, <2>2, <1>5 DEF SessionRecord
  <2>3. CASE u # s
    BY <2>1, <2>3 DEF TakeUsername, SessionRecord
  <2>4. QED
    BY <2>2, <2>3
<1>7. ses'[s].user
  <2>1. ses[s] \in SessionRecord
    BY <1>0 DEF TypeOK
  <2>2. PICK b : ses'[s] = [ses[s] EXCEPT !.user = TRUE, !.authed = b]
    BY DEF TakeUsername
  <2>3. QED
    BY <2>1, <2>2 DEF SessionRecord
<1>8. pc'[s] = IF w = NoSession THEN "idle" ELSE "asleep"
  BY <1>0, <1>1 DEF TakeUsername, TypeOK
<1>9. ~InChain(s) /\ InChain(s)' /\ (Waiting(s)' <=> w # NoSession)
  BY <1>1, <1>2, <1>6, <1>7, <1>8 DEF InChain, Waiting
<1>10. \A u \in Sessions : u # s => (Waiting(u)' <=> Waiting(u))
  BY <1>3, <1>6 DEF Waiting
<1>11. \A u \in Sessions : u # s => (InChain(u)' <=> InChain(u))
  <2> SUFFICES ASSUME NEW u \in Sessions, u # s PROVE InChain(u)' <=> InChain(u)
    OBVIOUS
  <2>1. CASE u = w
    BY <2>1, <1>0, <1>2, <1>3, <1>4, <1>6 DEF InChain
  <2>2. CASE u # w
    BY <2>2, <1>2, <1>3, <1>6 DEF InChain
  <2>3. QED
    BY <2>1, <2>2
<1>12. ASSUME NEW x \in Sessions, User[x] # User[s] PROVE HasChain(User[x])'
  <2>1. w # NoSession => User[w] = User[s]
    BY <1>4 DEF Duplicate
  <2>2. \A u \in Sessions : User[u] = User[x] => u # s /\ u # w
    BY <2>1, <1>0, <1>12
  <2>3. HasChain(User[x])
    BY DEF ChainInv
  <2>4. QED
    BY <2>2, <2>3, <1>6, <1>10, <1>11, ChainKept
<1>13. HasChain(User[s])'
  <2> DEFINE n == User[s]
  <2>1. PICK k \in Nat : \E q \in [1..k -> Sessions] : NameChain(n, k, q)
    BY DEF HasChain, ChainInv
  <2>2. PICK q \in [1..k -> Sessions] : NameChain(n, k, q)
    BY <2>1
  <2>3. \A i \in 1..k : q[i] \in Sessions /\ User[q[i]] = n /\ InChain(q[i]) /\ q[i] # s
    BY <2>2, <1>9 DEF NameChain
  <2>4. IF k = 0 THEN w = NoSession ELSE w = q[k]
    <3>1. CASE k = 0
      <4>1. w # NoSession => InChain(w)
        BY <1>4 DEF Duplicate, InChain
      <4>2. w # NoSession => \E i \in 1..k : q[i] = w
        BY <4>1, <1>4, <2>2 DEF Duplicate, NameChain
      <4>3. QED
        BY <3>1, <4>2
    <3>2. CASE k # 0
      <4>1. k \in 1..k /\ ses[q[k]].wakeup = NoSession /\ q[k] \in Sessions
        BY <3>2, <2>2 DEF NameChain
      <4>2. Listed(q[k]) /\ Duplicate(s, q[k])
        BY <4>1, <2>3 DEF InChain, Duplicate
      <4>3. q[k] \in Duplicates(s)
        BY <4>1, <4>2 DEF Duplicates
      <4>4. conf.single = "replace"
        BY <4>3, <1>0 DEF TakeUsername, Denied
      <4>5. WaitsFor(s, w)
        BY <4>4 DEF TakeUsername
      <4>6. PICK i \in 1..Len(list) : list[i] = q[k]
        BY <4>2 DEF Listed
      <4>7. i \in {j \in 1..Len(list) : Duplicate(s, list[j]) /\ ses[list[j]].wakeup = NoSession}
        BY <4>1, <4>2, <4>6
      <4>8. w # NoSession
        <5>1. PICK j \in 1..Len(list) : w = list[j]
          BY <4>5, <4>7 DEF WaitsFor, First
        <5>2. list[j] \in Sessions
          BY <1>0 DEF TypeOK
        <5>3. QED
          BY <5>1, <5>2, <1>0
      <4>9. InChain(w) /\ User[w] = n
        BY <4>8, <1>4 DEF Duplicate, InChain
      <4>10. PICK j \in 1..k : q[j] = w
        BY <4>8, <4>9, <1>4, <2>2 DEF NameChain
      <4>11. j = k
        <5>1. ses[q[j]].wakeup = NoSession
          BY <4>8, <4>10, <1>4
        <5>2. ~(j < k)
          <6>1. j < k => q[j + 1] \in Sessions
            OBVIOUS
          <6>2. QED
            BY <6>1, <5>1, <2>2, <1>0 DEF NameChain
        <5>3. QED
          BY <5>2
      <4>12. QED
        BY <4>10, <4>11, <3>2
    <3>3. QED
      BY <3>1, <3>2
  <2> DEFINE r == [i \in 1..(k + 1) |-> IF i <= k THEN q[i] ELSE s]
  <2>5. r \in [1..(k + 1) -> Sessions] /\ k + 1 \in Nat
    BY <2>2
  <2>6. r[k + 1] = s /\ \A i \in 1..k : r[i] = q[i] /\ i \in 1..(k + 1)
    OBVIOUS
  <2>60. \A i \in 1..(k + 1) : i \in 1..k \/ i = k + 1
    OBVIOUS
  <2> HIDE DEF r
  <2>7. ASSUME NEW i \in 1..(k + 1), NEW j \in 1..(k + 1), r[i] = r[j] PROVE i = j
    <3>1. (i \in 1..k \/ i = k + 1) /\ (j \in 1..k \/ j = k + 1)
      BY <2>60
    <3>2. i \in 1..k /\ j \in 1..k => q[i] = q[j]
      BY <2>6, <2>7
    <3>3. ~(i \in 1..k /\ j = k + 1) /\ ~(j \in 1..k /\ i = k + 1)
      BY <2>3, <2>6, <2>7
    <3>4. QED
      BY <3>1, <3>2, <3>3, <2>2 DEF NameChain
  <2>8. ASSUME NEW u \in Sessions
        PROVE  (User[u] = n /\ InChain(u)') <=> \E i \in 1..(k + 1) : r[i] = u
    <3>1. CASE u = s
      <4>1. k + 1 \in 1..(k + 1)
        OBVIOUS
      <4>2. QED
        BY <3>1, <4>1, <2>6, <1>9
    <3>2. CASE u # s
      <4>1. (\E i \in 1..(k + 1) : r[i] = u) <=> \E i \in 1..k : q[i] = u
        BY <3>2, <2>6, <2>60
      <4>2. QED
        BY <3>2, <4>1, <2>2, <1>11 DEF NameChain
    <3>3. QED
      BY <3>1, <3>2
  <2>9. ASSUME NEW i \in 1..(k + 1)
        PROVE  ses'[r[i]].wakeup = IF i < k + 1 THEN r[i + 1] ELSE NoSession
    <3>1. CASE i = k + 1
      BY <3>1, <2>6, <1>1, <1>5, <1>6
    <3>2. CASE i \in 1..k /\ i = k
      <4>1. r[i] = w /\ w \in Sessions /\ r[i + 1] = s /\ i < k + 1
        BY <3>2, <2>3, <2>4, <2>6
      <4>2. QED
        BY <4>1, <1>6
    <3>3. CASE i \in 1..k /\ i # k
      <4>1. i + 1 \in 1..k /\ i < k /\ i < k + 1 /\ k \in 1..k /\ k # 0
        BY <3>3
      <4>2. r[i] = q[i] /\ r[i + 1] = q[i + 1] /\ q[i] \in Sessions
        BY <4>1, <3>3, <2>3, <2>6
      <4>3. q[i] # w
        BY <4>1, <3>3, <2>2, <2>4 DEF NameChain
      <4>4. ses'[q[i]].wakeup = ses[q[i]].wakeup
        BY <4>2, <4>3, <1>6
      <4>5. ses[q[i]].wakeup = q[i + 1]
        BY <4>1, <3>3, <2>2 DEF NameChain
      <4>6. QED
        BY <4>1, <4>2, <4>4, <4>5
    <3>4. QED
      BY <3>1, <3>2, <3>3, <2>60
  <2>10. ASSUME NEW i \in 1..(k + 1) PROVE Waiting(r[i])' <=> i > 1
    <3>1. CASE i = k + 1
      <4>1. w # NoSession <=> k # 0
        BY <2>3, <2>4, <1>0
      <4>2. QED
        BY <3>1, <4>1, <2>6, <1>9
    <3>2. CASE i \in 1..k
      <4>1. r[i] = q[i] /\ q[i] \in Sessions /\ q[i] # s
        BY <3>2, <2>3, <2>6
      <4>2. Waiting(q[i])' <=> Waiting(q[i])
        BY <4>1, <1>10
      <4>3. Waiting(q[i]) <=> i > 1
        BY <3>2, <2>2 DEF NameChain
      <4>4. QED
        BY <4>1, <4>2, <4>3
    <3>3. QED
      BY <3>1, <3>2, <2>60
  <2>11. NameChain(n, k + 1, r)'
    BY <2>7, <2>8, <2>9, <2>10 DEF NameChain
  <2>12. QED
    BY <2>5, <2>11 DEF HasChain
<1>14. ASSUME NEW x \in Sessions PROVE HasChain(User[x])'
  BY <1>12, <1>13
<1>15. QED
  BY <1>14 DEF ChainInv

-----------------------------------------------------------------------------
(* A session leaves the list.  It stays in the chain if somebody waits for *)
(* it; if nobody does, it was the only one of its name.                    *)
LEMMA ChainUnlink ==
    ASSUME SInv, ChainInv, AllListed, NEW s \in Sessions, FinishUnlink(s)
    PROVE  ChainInv'
<1>0. TypeOK /\ LifeInv /\ ListInv /\ WakeInv /\ NoSession \notin Sessions
  BY SessionAssumption DEF SInv
<1>1. /\ pc[s] = "fin1" /\ ses' = ses /\ Listed(s) /\ pc'[s] = "fin2"
      /\ \A u \in Sessions : u # s => pc'[u] = pc[u]
  BY <1>0 DEF FinishUnlink, At, TypeOK, AllListed, Linked
<1>2. \A u \in Sessions : Listed(u)' <=> Listed(u) /\ u # s
  BY <1>0, UnlinkList
<1>3. \A u \in Sessions : Waiting(u)' <=> Waiting(u)
  BY <1>1 DEF Waiting
<1>4. \A u \in Sessions : u # s => (InChain(u)' <=> InChain(u))
  BY <1>1, <1>2 DEF InChain
<1>5. CASE InChain(s)' <=> InChain(s)
  BY <1>1, <1>3, <1>4, <1>5, ChainKept DEF ChainInv
<1>6. CASE ~(InChain(s)' <=> InChain(s))
  <2>1. InChain(s) /\ ~InChain(s)' /\ ses[s].wakeup = NoSession /\ ~Waiting(s)
    BY <1>1, <1>2, <1>6 DEF InChain, Waiting
  <2>2. ASSUME NEW x \in Sessions, User[x] # User[s] PROVE HasChain(User[x])'
    <3>1. \A u \in Sessions : User[u] = User[x] => u # s
      BY <2>2
    <3>2. HasChain(User[x])
      BY DEF ChainInv
    <3>3. QED
      BY <3>1, <3>2, <1>1, <1>3, <1>4, ChainKept
  <2>3. HasChain(User[s])'
    <3> DEFINE n == User[s]
    <3>1. PICK k \in Nat : \E q \in [1..k -> Sessions] : NameChain(n, k, q)
      BY DEF HasChain, ChainInv
    <3>2. PICK q \in [1..k -> Sessions] : NameChain(n, k, q)
      BY <3>1
    <3>3. PICK j \in 1..k : q[j] = s
      BY <2>1, <3>2 DEF NameChain
    <3>4. j = 1
      BY <2>1, <3>2, <3>3 DEF NameChain
    <3>5. j = k
      <4>1. j < k => q[j + 1] \in Sessions
        OBVIOUS
      <4>2. ~(j < k)
        BY <4>1, <2>1, <3>2, <3>3, <1>0 DEF NameChain
      <4>3. QED
        BY <4>2
    <3>6. \A u \in Sessions : User[u] = n /\ InChain(u) => u = s
      BY <3>2, <3>3, <3>4, <3>5 DEF NameChain
    <3>7. \A u \in Sessions : ~(User[u] = n /\ InChain(u)')
      BY <3>6, <2>1, <1>4
    <3>8. PICK r \in [1..0 -> Sessions] : TRUE
      <4>1. [i \in 1..0 |-> s] \in [1..0 -> Sessions]
        OBVIOUS
      <4>2. QED
        BY <4>1
    <3>9. NameChain(n, 0, r)'
      BY <3>7 DEF NameChain
    <3>10. QED
      BY <3>9 DEF HasChain
  <2>4. ASSUME NEW x \in Sessions PROVE HasChain(User[x])'
    BY <2>2, <2>3
  <2>5. QED
    BY <2>4 DEF ChainInv
<1>7. QED
  BY <1>5, <1>6

(* The finished session wakes the next one, which becomes the first.       *)
LEMMA ChainWake ==
    ASSUME SInv, ChainInv, NEW s \in Sessions, FinishWake(s)
    PROVE  ChainInv'
<1>0. TypeOK /\ LifeInv /\ ListInv /\ WakeInv /\ NoSession \notin Sessions
  BY SessionAssumption DEF SInv
<1>1. /\ list' = list /\ pc[s] = "fin3" /\ pc'[s] = "rdStarting"
      /\ \A u \in Sessions : u # s => pc'[u] = pc[u]
  BY <1>0 DEF FinishWake, At, TypeOK
<1>2. PICK x \in Sessions \cup {NoSession} : x = ses[s].wakeup
  BY <1>0 DEF TypeOK, SessionRecord
<1>3. x # s /\ ~Listed(s) /\ ~Waiting(s)
  BY <1>0, <1>1, <1>2 DEF WakeInv, Waiting, ListInv, Linked
<1>4. \A u \in Sessions :
        /\ ses'[u].wakeup = IF u = s THEN NoSession ELSE ses[u].wakeup
        /\ ses'[u].woken = (ses[u].woken \/ u = x)
        /\ ses'[u].user = ses[u].user /\ ses'[u].authErr = ses[u].authErr
  <2>1. ses \in [Sessions -> SessionRecord]
    BY <1>0 DEF TypeOK
  <2>2. QED
    BY <2>1, <1>2, <1>3 DEF FinishWake, SessionRecord
<1>5. \A u \in Sessions : Listed(u)' <=> Listed(u)
  BY <1>1 DEF Listed
<1>6. \A u \in Sessions : Waiting(u)' <=> Waiting(u) /\ u # x
  BY <1>1, <1>4 DEF Waiting
<1>7. \A u \in Sessions : u # s => (InChain(u)' <=> InChain(u)) /\ ses'[u].wakeup = ses[u].wakeup
  BY <1>1, <1>4, <1>5 DEF InChain
<1>8. ~InChain(s)'
  BY <1>1, <1>3, <1>5 DEF InChain
<1>9. CASE x = NoSession
  <2>1. ~InChain(s)
    BY <1>1, <1>2, <1>3, <1>9 DEF InChain
  <2>2. \A u \in Sessions : Waiting(u)' <=> Waiting(u)
    BY <1>0, <1>6, <1>9
  <2>3. \A u \in Sessions :
          /\ InChain(u)' <=> InChain(u)
          /\ InChain(u) => ses'[u].wakeup = ses[u].wakeup /\ (Waiting(u)' <=> Waiting(u))
    BY <2>1, <2>2, <1>7, <1>8
  <2>4. QED
    BY <2>3, ChainKept DEF ChainInv
<1>10. CASE x # NoSession
  <2>0. x \in Sessions /\ ses[s].user /\ ~ses[s].authErr
    BY <1>0, <1>2, <1>10 DEF WakeInv
  <2>1. InChain(s)
    BY <2>0, <1>1, <1>2, <1>10 DEF InChain
  <2> DEFINE n == User[s]
  <2>2. PICK k \in Nat : \E q \in [1..k -> Sessions] : NameChain(n, k, q)
    BY DEF HasChain, ChainInv
  <2>3. PICK q \in [1..k -> Sessions] : NameChain(n, k, q)
    BY <2>2
  <2>4. PICK j \in 1..k : q[j] = s
    BY <2>1, <2>3 DEF NameChain
  <2>5. j = 1
    BY <1>3, <2>3, <2>4 DEF NameChain
  <2>6. 1 \in 1..k /\ q[1] = s
    BY <2>4, <2>5
  <2>7. k > 1 /\ q[2] = x
    <3>1. ses[q[1]].wakeup = IF 1 < k THEN q[1 + 1] ELSE NoSession
      BY <2>3, <2>6 DEF NameChain
    <3>2. QED
      BY <3>1, <2>6, <1>2, <1>10
  <2>8. 2 \in 1..k /\ User[x] = n
    BY <2>3, <2>7 DEF NameChain
  <2>9. ASSUME NEW y \in Sessions, User[y] # n PROVE HasChain(User[y])'
    <3>1. \A u \in Sessions : User[u] = User[y] => u # s /\ u # x
      BY <2>8, <2>9
    <3>2. HasChain(User[y])
      BY DEF ChainInv
    <3>3. QED
      BY <3>1, <3>2, <1>6, <1>7, ChainKept
  <2>10. HasChain(n)'
    <3> DEFINE m == k - 1
               r == [i \in 1..m |-> q[i + 1]]
    <3>1. m \in Nat /\ r \in [1..m -> Sessions]
      BY <2>3, <2>7
    <3>2. \A i \in 1..m : r[i] = q[i + 1] /\ i + 1 \in 1..k /\ q[i + 1] \in Sessions
      BY <2>3, <2>7
    <3>3. \A i \in 1..k : i = 1 \/ (i - 1 \in 1..m /\ r[i - 1] = q[i])
      <4>1. \A i \in 1..k : i # 1 => i - 1 \in 1..m /\ (i - 1) + 1 = i
        BY <2>7
      <4>2. QED
        BY <4>1, <3>2
    <3> HIDE DEF r
    <3>4. ASSUME NEW i \in 1..m, NEW l \in 1..m, r[i] = r[l] PROVE i = l
      <4>1. i + 1 = l + 1
        BY <3>2, <3>4, <2>3 DEF NameChain
      <4>2. QED
        BY <4>1, <2>7
    <3>5. \A i \in 1..m : q[i + 1] # s
      <4>1. ASSUME NEW i \in 1..m, q[i + 1] = s PROVE FALSE
        <5>1. i + 1 = 1
          BY <4>1, <3>2, <2>3, <2>6 DEF NameChain
        <5>2. QED
          BY <5>1, <2>7
      <4>2. QED
        BY <4>1
    <3>6. ASSUME NEW u \in Sessions
          PROVE  (User[u] = n /\ InChain(u)') <=> \E i \in 1..m : r[i] = u
      <4>1. CASE u = s
        BY <4>1, <1>8, <3>2, <3>5
      <4>2. CASE u # s
        <5>1. (\E i \in 1..m : r[i] = u) <=> \E i \in 1..k : q[i] = u
          BY <4>2, <2>6, <3>2, <3>3
        <5>2. QED
          BY <4>2, <5>1, <2>3, <1>7 DEF NameChain
      <4>3. QED
        BY <4>1, <4>2
    <3>7. ASSUME NEW i \in 1..m
          PROVE  ses'[r[i]].wakeup = IF i < m THEN r[i + 1] ELSE NoSession
      <4>1. r[i] = q[i + 1] /\ q[i + 1] \in Sessions /\ q[i + 1] # s /\ i + 1 \in 1..k
        BY <3>2, <3>5
      <4>2. ses'[r[i]].wakeup = ses[q[i + 1]].wakeup
        BY <4>1, <1>7
      <4>3. ses[q[i + 1]].wakeup = IF i + 1 < k THEN q[(i + 1) + 1] ELSE NoSession
        BY <4>1, <2>3 DEF NameChain
      <4>4. i < m <=> i + 1 < k
        BY <2>7
      <4>5. i < m => i + 1 \in 1..m
        BY <2>7
      <4>6. i < m => r[i + 1] = q[(i + 1) + 1]
        BY <4>5, <3>2
      <4>7. QED
        BY <4>2, <4>3, <4>4, <4>6
    <3>8. ASSUME NEW i \in 1..m PROVE Waiting(r[i])' <=> i > 1
      <4>1. r[i] = q[i + 1] /\ q[i + 1] \in Sessions /\ i + 1 \in 1..k
        BY <3>2
      <4>2. Waiting(q[i + 1])
        <5>1. i + 1 > 1
          OBVIOUS
        <5>2. QED
          BY <4>1, <5>1, <2>3 DEF NameChain
      <4>3. Waiting(q[i + 1])' <=> q[i + 1] # x
        BY <4>1, <4>2, <1>6
      <4>4. q[i + 1] = x <=> i = 1
        <5>1. q[i + 1] = q[2] => i + 1 = 2
          BY <4>1, <2>8, <2>3 DEF NameChain
        <5>2. i = 1 => i + 1 = 2
          OBVIOUS
        <5>3. i + 1 = 2 => i = 1
          OBVIOUS
        <5>4. QED
          BY <5>1, <5>2, <5>3, <2>7
      <4>5. QED
        BY <4>1, <4>3, <4>4
    <3>9. NameChain(n, m, r)'
      BY <3>4, <3>6, <3>7, <3>8 DEF NameChain
    <3>10. QED
      BY <3>1, <3>9 DEF HasChain
  <2>11. ASSUME NEW y \in Sessions PROVE HasChain(User[y])'
    BY <2>9, <2>10
  <2>12. QED
    BY <2>11 DEF ChainInv
<1>11. QED
  BY <1>9, <1>10

-----------------------------------------------------------------------------
(* The other steps.                                                        *)

(* A step of a session without a name.                                     *)
LEMMA ChainNameless ==
    ASSUME SInv, ChainInv, NEW s \in Sessions,
           \A u \in Sessions : u # s =>
              pc'[u] = pc[u] /\ ses'[u] = ses[u] /\ (Listed(u)' <=> Listed(u)),
           ~(ses[s].user /\ ~ses[s].authErr), ~(ses'[s].user /\ ~ses'[s].authErr)
    PROVE  ChainInv'
<1>1. ~InChain(s) /\ ~InChain(s)'
  BY DEF InChain
<1>2. \A u \in Sessions : u # s =>
        /\ InChain(u)' <=> InChain(u)
        /\ ses'[u].wakeup = ses[u].wakeup
        /\ Waiting(u)' <=> Waiting(u)
  BY DEF InChain, Waiting
<1>3. QED
  BY <1>1, <1>2, ChainKept DEF ChainInv

LEMMA ChainNext ==
    ASSUME SInv, ChainInv, AllListed, conf.single # "off", [Next]_vars
    PROVE  ChainInv'
<1>0. TypeOK /\ LifeInv /\ ListInv /\ WakeInv /\ NoSession \notin Sessions
  BY SessionAssumption DEF SInv
<1>a. ses \in [Sessions -> SessionRecord] /\ pc \in [Sessions -> PC]
  BY <1>0 DEF TypeOK
<1>1. CASE UNCHANGED <<pc, ses, list>>
  <2>1. \A u \in Sessions :
          (InChain(u)' <=> InChain(u)) /\ ses'[u].wakeup = ses[u].wakeup
          /\ (Waiting(u)' <=> Waiting(u))
    BY <1>1 DEF InChain, Waiting, Listed
  <2>2. QED
    BY <2>1, ChainKept DEF ChainInv
<1>2. CASE Stop
  BY <1>0, <1>1, <1>2, StopFrame
<1>3. ASSUME NEW s \in Sessions, NEW f \in BOOLEAN,
             \/ RecvPadr(s) \/ PadrCheckSlot(s) \/ PadrTakeSlot(s, f) \/ Accept(s)
             \/ StartCheck(s) \/ StartCount(s)
      PROVE  ChainInv'
  <2>1. /\ list' = list /\ pc[s] \in Before
        /\ \A u \in Sessions : u # s => pc'[u] = pc[u]
    BY <1>3, <1>a DEF RecvPadr, PadrCheckSlot, PadrTakeSlot, Accept, StartCheck, StartCount, At, Before
  <2>2. \A u \in Sessions : u # s => ses'[u] = ses[u]
    BY <1>3, <1>a DEF RecvPadr, PadrCheckSlot, PadrTakeSlot, Accept, StartCheck, StartCount, SetSes
  <2>3. ses'[s].user = ses[s].user
    BY <1>3, <1>a DEF RecvPadr, PadrCheckSlot, PadrTakeSlot, Accept, StartCheck, StartCount, SetSes,
                      SessionRecord
  <2>4. ~ses[s].user
    BY <2>1, <1>0 DEF LifeInv, Life
  <2>5. QED
    BY <2>1, <2>2, <2>3, <2>4, ChainNameless DEF Listed
<1>4. ASSUME NEW s \in Sessions, StartLink(s) PROVE ChainInv'
  <2>1. /\ ses' = ses /\ pc[s] = "counted"
        /\ \A u \in Sessions : u # s => pc'[u] = pc[u]
    BY <1>4, <1>a DEF StartLink, At
  <2>2. ~ses[s].user
    BY <2>1, <1>0 DEF LifeInv, Life
  <2>3. \A u \in Sessions : u # s => (Listed(u)' <=> Listed(u))
    BY <1>0, <1>4, LinkList
  <2>4. QED
    BY <2>1, <2>2, <2>3, ChainNameless
<1>5. ASSUME NEW s \in Sessions, DenyUsername(s) \/ AuthFailed(s) PROVE ChainInv'
  <2>1. /\ list' = list /\ ~ses[s].user
        /\ \A u \in Sessions : u # s => pc'[u] = pc[u] /\ ses'[u] = ses[u]
    BY <1>5, <1>a DEF DenyUsername, AuthFailed, Authenticating, SetSes
  <2>2. ses'[s].authErr
    <3>1. CASE DenyUsername(s)
      BY <3>1, <1>a DEF DenyUsername, SetSes, SessionRecord
    <3>2. CASE AuthFailed(s)
      BY <3>2, <1>a DEF AuthFailed, SetSes, SessionRecord
    <3>3. QED
      BY <1>5, <3>1, <3>2
  <2>3. QED
    BY <2>1, <2>2, ChainNameless DEF Listed
<1>6. ASSUME NEW s \in Sessions, NEW b \in BOOLEAN,
             \/ RunCall(s) \/ PeerLeaves(s, b) \/ LowerFinished(s)
             \/ TerminateCount(s) \/ TerminateIncoming(s) \/ TerminateLower(s, b)
      PROVE  ChainInv'
  <2>1. /\ list' = list /\ pc[s] \in {"idle", "term1", "term2", "lower"}
        /\ pc'[s] \in {"idle", "term1", "term2", "lower", "fin1"}
        /\ \A u \in Sessions : u # s => pc'[u] = pc[u]
    BY <1>6, <1>a DEF RunCall, PeerLeaves, LowerFinished, TerminateCount, TerminateIncoming,
         TerminateLower, TerminateStep, At
  <2>2. \A u \in Sessions : u # s => ses'[u] = ses[u]
    BY <1>6, <1>a DEF RunCall, PeerLeaves, LowerFinished, TerminateCount, TerminateIncoming,
         TerminateLower, TerminateStep, SetSes
  <2>3. /\ ses'[s].wakeup = ses[s].wakeup /\ ses'[s].woken = ses[s].woken
        /\ ses'[s].user = ses[s].user /\ ses'[s].authErr = ses[s].authErr
    BY <1>6, <1>a DEF RunCall, PeerLeaves, LowerFinished, TerminateCount, TerminateIncoming,
         TerminateLower, TerminateStep, SetSes, SessionRecord
  <2>4. QED
    BY <2>1, <2>2, <2>3, ChainStep
<1>7. ASSUME NEW s \in Sessions,
             \/ Activate(s) \/ IpoeStarting(s) \/ IpoeIncoming(s)
             \/ ActivateStarting(s) \/ ActivateIncoming(s) \/ ActivateActive(s)
      PROVE  ChainInv'
  <2>1. /\ list' = list /\ pc[s] \in {"idle", "ipoe1", "ipoe2", "act1", "act2", "act3"}
        /\ pc'[s] \in {"idle", "ipoe1", "ipoe2", "act1", "act2", "act3"}
        /\ \A u \in Sessions : u # s => pc'[u] = pc[u]
    BY <1>7, <1>a DEF Activate, IpoeStarting, IpoeIncoming, ActivateStarting, ActivateIncoming,
         ActivateActive, ActivateFrom, At
  <2>2. \A u \in Sessions : u # s => ses'[u] = ses[u]
    BY <1>7, <1>a DEF Activate, IpoeStarting, IpoeIncoming, ActivateStarting, ActivateIncoming,
         ActivateActive, SetSes
  <2>3. /\ ses'[s].wakeup = ses[s].wakeup /\ ses'[s].woken = ses[s].woken
        /\ ses'[s].user = ses[s].user /\ ses'[s].authErr = ses[s].authErr
    BY <1>7, <1>a DEF Activate, IpoeStarting, IpoeIncoming, ActivateStarting, ActivateIncoming,
         ActivateActive, SetSes, SessionRecord
  <2>4. QED
    BY <2>1, <2>2, <2>3, ChainStep
<1>8. ASSUME NEW s \in Sessions, Resume(s) PROVE ChainInv'
  <2>1. /\ list' = list /\ pc[s] = "asleep" /\ pc'[s] = "idle" /\ ses[s].woken
        /\ \A u \in Sessions : u # s => pc'[u] = pc[u]
    BY <1>8, <1>a DEF Resume, At
  <2>2. \A u \in Sessions : u # s => ses'[u] = ses[u]
    BY <1>8, <1>a DEF Resume, SetSes
  <2>3. PICK b \in BOOLEAN : ses'[s] = [ses[s] EXCEPT !.woken = FALSE, !.authed = b]
    BY <1>8, <1>a DEF Resume, SetSes
  <2>4. /\ ses'[s].wakeup = ses[s].wakeup
        /\ ses'[s].user = ses[s].user /\ ses'[s].authErr = ses[s].authErr
    BY <2>3, <1>a DEF SessionRecord
  <2>5. QED
    BY <2>1, <2>2, <2>4, ChainStep
<1>9. ASSUME NEW s \in Sessions, FinishCount(s) \/ FinishRead(s) PROVE ChainInv'
  <2>1. /\ list' = list /\ ses' = ses /\ pc[s] \in {"fin2"} \cup Reading
        /\ pc'[s] \in {"fin3", "gone"} \cup Reading
        /\ pc[s] = "fin2" <=> pc'[s] = "fin3"
        /\ \A u \in Sessions : u # s => pc'[u] = pc[u]
    BY <1>9, <1>a DEF FinishCount, FinishRead, At, ReadsNext, Reading
  <2>2. QED
    BY <2>1, ChainStep DEF Reading
<1>10. QED
  BY <1>1, <1>2, <1>3, <1>4, <1>5, <1>6, <1>7, <1>8, <1>9, ChainTake, ChainUnlink, ChainWake
  DEF Next, vars, Stop, Runs, Stops, Starts, Discovers, Finishes, SetUsername

-----------------------------------------------------------------------------
(* Only an IPoE session that starts during a shutdown misses the list.     *)
LEMMA ListedNext ==
    ASSUME SInv, AllListed, Trusted, [Next]_vars
    PROVE  AllListed'
<1>0. TypeOK /\ LifeInv /\ ListInv
  BY DEF SInv
<1>a. ses \in [Sessions -> SessionRecord] /\ pc \in [Sessions -> PC]
  BY <1>0 DEF TypeOK
<1>1. ASSUME list' = list, \A u \in Sessions : pc'[u] \in Linked => pc[u] \in Linked
      PROVE  AllListed'
  BY <1>1 DEF AllListed, Listed
<1>2. CASE UNCHANGED <<pc, ses, list>>
  BY <1>1, <1>2
<1>3. CASE Stop
  BY <1>0, <1>2, <1>3, StopFrame
<1>4. ASSUME NEW s \in Sessions, NEW f \in BOOLEAN,
             \/ RecvPadr(s) \/ PadrCheckSlot(s) \/ PadrTakeSlot(s, f) \/ Accept(s) \/ StartCount(s)
      PROVE  AllListed'
  <2>1. /\ list' = list /\ pc'[s] \notin Linked
        /\ \A u \in Sessions : u # s => pc'[u] = pc[u]
    BY <1>4, <1>a DEF RecvPadr, PadrCheckSlot, PadrTakeSlot, Accept, StartCount, At, Linked
  <2>2. QED
    BY <2>1, <1>1
<1>5. ASSUME NEW s \in Sessions, StartCheck(s) PROVE AllListed'
  <2>1. pc[s] = "conn" /\ list' = list /\ \A u \in Sessions : u # s => pc'[u] = pc[u]
    BY <1>5, <1>a DEF StartCheck, At
  <2>2. s \in conf.arrive
    BY <2>1, <1>0 DEF LifeInv, Life
  <2>3. pc'[s] \notin Linked
    BY <2>2, <1>5, <1>a DEF StartCheck, At, Linked, Trusted
  <2>4. QED
    BY <2>1, <2>3, <1>1
<1>6. ASSUME NEW s \in Sessions, StartLink(s) PROVE AllListed'
  <2>1. \A u \in Sessions : Listed(u)' <=> Listed(u) \/ u = s
    BY <1>0, <1>6, LinkList
  <2>2. \A u \in Sessions : u # s => pc'[u] = pc[u]
    BY <1>6, <1>a DEF StartLink, At
  <2>3. QED
    BY <2>1, <2>2 DEF AllListed
<1>7. ASSUME NEW s \in Sessions, NEW w \in Sessions \cup {NoSession},
             DenyUsername(s) \/ TakeUsername(s, w) \/ AuthFailed(s)
      PROVE  AllListed'
  <2>1. /\ list' = list /\ pc[s] \in Linked
        /\ \A u \in Sessions : u # s => pc'[u] = pc[u]
    BY <1>7, <1>a DEF DenyUsername, TakeUsername, AuthFailed, Authenticating, Linked
  <2>2. QED
    BY <2>1, <1>1
<1>8. ASSUME NEW s \in Sessions, NEW b \in BOOLEAN,
             \/ RunCall(s) \/ PeerLeaves(s, b) \/ LowerFinished(s)
             \/ TerminateCount(s) \/ TerminateIncoming(s) \/ TerminateLower(s, b)
             \/ Resume(s)
      PROVE  AllListed'
  <2>1. /\ list' = list /\ pc[s] \in Linked
        /\ \A u \in Sessions : u # s => pc'[u] = pc[u]
    BY <1>8, <1>a DEF RunCall, PeerLeaves, LowerFinished, TerminateCount, TerminateIncoming,
         TerminateLower, TerminateStep, Resume, At, Linked
  <2>2. QED
    BY <2>1, <1>1
<1>9. ASSUME NEW s \in Sessions,
             \/ Activate(s) \/ IpoeStarting(s) \/ IpoeIncoming(s)
             \/ ActivateStarting(s) \/ ActivateIncoming(s) \/ ActivateActive(s)
      PROVE  AllListed'
  <2>1. /\ list' = list /\ pc[s] \in Linked
        /\ \A u \in Sessions : u # s => pc'[u] = pc[u]
    BY <1>9, <1>a DEF Activate, IpoeStarting, IpoeIncoming, ActivateStarting, ActivateIncoming,
         ActivateActive, At, Linked
  <2>2. QED
    BY <2>1, <1>1
<1>10. ASSUME NEW s \in Sessions, FinishCount(s) \/ FinishWake(s) \/ FinishRead(s)
       PROVE  AllListed'
  <2>1. /\ list' = list /\ pc'[s] \notin Linked
        /\ \A u \in Sessions : u # s => pc'[u] = pc[u]
    BY <1>10, <1>a DEF FinishCount, FinishWake, FinishRead, At, ReadsNext, Reading, Linked
  <2>2. QED
    BY <2>1, <1>1
<1>11. ASSUME NEW s \in Sessions, FinishUnlink(s) PROVE AllListed'
  <2>1. \A u \in Sessions : Listed(u)' <=> Listed(u) /\ u # s
    BY <1>0, <1>11, UnlinkList
  <2>2. pc'[s] \notin Linked /\ \A u \in Sessions : u # s => pc'[u] = pc[u]
    BY <1>11, <1>a DEF FinishUnlink, At, Linked
  <2>3. QED
    BY <2>1, <2>2 DEF AllListed
<1>12. QED
  BY <1>2, <1>3, <1>4, <1>5, <1>6, <1>7, <1>8, <1>9, <1>10, <1>11
  DEF Next, vars, Stop, Runs, Stops, Starts, Discovers, Finishes, SetUsername

-----------------------------------------------------------------------------
(* A session becomes active by itself, with its name, and not during a     *)
(* shutdown.                                                               *)
Enters(u) ==
    /\ ~shutdown /\ pc[u] \in {"idle", "ipoe2"}
    /\ ses[u].user /\ ~ses[u].authErr
    /\ \A v \in Sessions : v # u => pc'[v] = pc[v] /\ ses'[v] = ses[v]

LEMMA LiveNext ==
    ASSUME SInv, [Next]_vars, NEW u \in Sessions, Live(u)'
    PROVE  Live(u) \/ Enters(u)
<1>0. TypeOK /\ LifeInv
  BY DEF SInv
<1>a. ses \in [Sessions -> SessionRecord] /\ pc \in [Sessions -> PC]
  BY <1>0 DEF TypeOK
<1>1. CASE UNCHANGED <<pc, ses>>
  BY <1>1 DEF Live
<1>2. CASE Stop
  BY <1>0, <1>1, <1>2, StopFrame
<1>3. ASSUME NEW s \in Sessions, NEW f \in BOOLEAN,
             \/ RecvPadr(s) \/ PadrCheckSlot(s) \/ PadrTakeSlot(s, f) \/ Accept(s)
             \/ StartCheck(s) \/ StartCount(s) \/ StartLink(s)
      PROVE  Live(u)
  <2>1. \A v \in Sessions : v # s => pc'[v] = pc[v] /\ ses'[v] = ses[v]
    BY <1>3, <1>a DEF RecvPadr, PadrCheckSlot, PadrTakeSlot, Accept, StartCheck, StartCount,
                      StartLink, At, SetSes
  <2>2. pc'[s] # "act1"
    BY <1>3, <1>a DEF RecvPadr, PadrCheckSlot, PadrTakeSlot, Accept, StartCheck, StartCount,
                      StartLink, At
  <2>3. ses'[s].state = ses[s].state \/ ses'[s].state = "starting"
    BY <1>3, <1>a DEF RecvPadr, PadrCheckSlot, PadrTakeSlot, Accept, StartCheck, StartCount,
                      StartLink, SetSes, SessionRecord
  <2>4. QED
    BY <2>1, <2>2, <2>3 DEF Live
<1>4. ASSUME NEW s \in Sessions, NEW w \in Sessions \cup {NoSession},
             DenyUsername(s) \/ TakeUsername(s, w) \/ AuthFailed(s)
      PROVE  Live(u)
  <2>1. pc'[u] = pc[u] \/ pc'[u] # "act1"
    BY <1>4, <1>a DEF DenyUsername, TakeUsername, AuthFailed
  <2>2. ses'[u].state = ses[u].state
    <3>0. CASE DenyUsername(s)
      BY <3>0, <1>a DEF DenyUsername, SetSes, SessionRecord
    <3>1. CASE AuthFailed(s)
      BY <3>1, <1>a DEF AuthFailed, SetSes, SessionRecord
    <3>2. CASE TakeUsername(s, w) /\ u = s
      <4>1. PICK b : ses'[u] = [ses[u] EXCEPT !.user = TRUE, !.authed = b]
        BY <3>2 DEF TakeUsername
      <4>2. QED
        BY <4>1, <1>a DEF SessionRecord
    <3>3. CASE TakeUsername(s, w) /\ u # s
      BY <3>3, <1>a DEF TakeUsername, SessionRecord
    <3>4. QED
      BY <1>4, <3>0, <3>1, <3>2, <3>3
  <2>3. QED
    BY <2>1, <2>2 DEF Live
<1>5. ASSUME NEW s \in Sessions, NEW b \in BOOLEAN,
             \/ RunCall(s) \/ PeerLeaves(s, b) \/ LowerFinished(s)
             \/ TerminateCount(s) \/ TerminateIncoming(s) \/ TerminateLower(s, b)
             \/ Resume(s)
      PROVE  Live(u)
  <2>1. /\ pc'[s] # "act1"
        /\ \A v \in Sessions : v # s => pc'[v] = pc[v]
    BY <1>5, <1>a DEF RunCall, PeerLeaves, LowerFinished, TerminateCount, TerminateIncoming,
         TerminateLower, TerminateStep, Resume, At
  <2>2. \A v \in Sessions : v # s => ses'[v] = ses[v]
    BY <1>5, <1>a DEF RunCall, PeerLeaves, LowerFinished, TerminateCount, TerminateIncoming,
         TerminateLower, TerminateStep, Resume, SetSes
  <2>3. ses'[s].state \in {ses[s].state, "finishing"}
    <3>1. CASE Resume(s)
      <4>1. PICK d \in BOOLEAN : ses'[s] = [ses[s] EXCEPT !.woken = FALSE, !.authed = d]
        BY <3>1, <1>a DEF Resume, SetSes
      <4>2. QED
        BY <4>1, <1>a DEF SessionRecord
    <3>2. CASE ~Resume(s)
      BY <3>2, <1>5, <1>a DEF RunCall, PeerLeaves, LowerFinished, TerminateCount, TerminateIncoming,
         TerminateLower, TerminateStep, SetSes, SessionRecord
    <3>3. QED
      BY <3>1, <3>2
  <2>4. QED
    BY <2>1, <2>2, <2>3 DEF Live
<1>6. ASSUME NEW s \in Sessions, Activate(s) \/ IpoeStarting(s) \/ IpoeIncoming(s)
      PROVE  Live(u) \/ Enters(u)
  <2>1. /\ pc[s] \in {"idle", "ipoe1", "ipoe2"}
        /\ pc'[s] = "act1" => ~shutdown /\ pc[s] \in {"idle", "ipoe2"}
        /\ \A v \in Sessions : v # s => pc'[v] = pc[v]
    BY <1>6, <1>a DEF Activate, IpoeStarting, IpoeIncoming, ActivateFrom, At
  <2>2. \A v \in Sessions : v # s => ses'[v] = ses[v]
    BY <1>6, <1>a DEF Activate, IpoeStarting, IpoeIncoming, SetSes
  <2>3. ses'[s].state = ses[s].state
    BY <1>6, <1>a DEF Activate, IpoeStarting, IpoeIncoming, SetSes, SessionRecord
  <2>4. ses[s].user /\ ~ses[s].authErr
    <3>1. CASE Activate(s)
      BY <3>1, <1>0 DEF Activate, LifeInv, TokenOnce, Token
    <3>2. CASE IpoeStarting(s) \/ IpoeIncoming(s)
      BY <3>2, <1>0 DEF IpoeStarting, IpoeIncoming, At, LifeInv, Life
    <3>3. QED
      BY <1>6, <3>1, <3>2
  <2>5. QED
    BY <2>1, <2>2, <2>3, <2>4 DEF Live, Enters
<1>7. ASSUME NEW s \in Sessions,
             ActivateStarting(s) \/ ActivateIncoming(s) \/ ActivateActive(s)
      PROVE  Live(u)
  <2>1. /\ pc[s] \in {"act1", "act2", "act3"}
        /\ \A v \in Sessions : v # s => pc'[v] = pc[v] /\ ses'[v] = ses[v]
    BY <1>7, <1>a DEF ActivateStarting, ActivateIncoming, ActivateActive, At, SetSes
  <2>2. Live(s)
    BY <2>1, <1>0 DEF LifeInv, Life, Live
  <2>3. QED
    BY <2>1, <2>2 DEF Live
<1>8. ASSUME NEW s \in Sessions,
             FinishUnlink(s) \/ FinishCount(s) \/ FinishWake(s) \/ FinishRead(s)
      PROVE  Live(u)
  <2>1. /\ pc'[s] # "act1"
        /\ \A v \in Sessions : v # s => pc'[v] = pc[v]
    BY <1>8, <1>a DEF FinishUnlink, FinishCount, FinishWake, FinishRead, At, ReadsNext
  <2>2. \A v \in Sessions : ses'[v].state = ses[v].state
    BY <1>8, <1>a DEF FinishUnlink, FinishCount, FinishWake, FinishRead, SessionRecord
  <2>3. QED
    BY <2>1, <2>2 DEF Live
<1>9. QED
  BY <1>1, <1>2, <1>3, <1>4, <1>5, <1>6, <1>7, <1>8
  DEF Next, vars, Stop, Runs, Stops, Starts, Discovers, Finishes, SetUsername

(* An active session is the first one of the chain of its name.            *)
LEMMA FirstOfChain ==
    ASSUME SInv, ChainInv, NEW s \in Sessions, NEW t \in Sessions, User[s] = User[t],
           InChain(s), InChain(t), ~Waiting(s), ~Waiting(t)
    PROVE  s = t
<1>1. PICK k \in Nat : \E q \in [1..k -> Sessions] : NameChain(User[s], k, q)
  BY DEF HasChain, ChainInv
<1>2. PICK q \in [1..k -> Sessions] : NameChain(User[s], k, q)
  BY <1>1
<1>3. PICK i \in 1..k : q[i] = s
  BY <1>2 DEF NameChain
<1>4. PICK j \in 1..k : q[j] = t
  BY <1>2 DEF NameChain
<1>5. i = 1 /\ j = 1
  BY <1>2, <1>3, <1>4 DEF NameChain
<1>6. QED
  BY <1>3, <1>4, <1>5

LEMMA LiveInvNext ==
    ASSUME SInv, LiveInv, Trusted => ChainInv /\ AllListed, [Next]_vars
    PROVE  LiveInv'
<1>0. TypeOK /\ LifeInv
  BY DEF SInv
<1>1. ASSUME NEW u \in Sessions, NEW v \in Sessions, User[u] = User[v],
             Enters(u), Live(v)', v # u
      PROVE  FALSE
  <2>1. Live(v)
    BY <1>1 DEF Enters, Live
  <2>2. ChainInv /\ AllListed
    BY <1>1 DEF Enters, Trusted
  <2>3. pc[u] \in Linked /\ InChain(u) /\ ~Waiting(u)
    BY <1>1, <2>2 DEF Enters, Linked, AllListed, InChain, Waiting
  <2>4. pc[v] \in Linked /\ pc[v] # "asleep" /\ ses[v].user /\ ~ses[v].authErr
    <3>1. pc[v] \in PC
      BY <1>0 DEF TypeOK
    <3>2. CASE pc[v] = "act1"
      BY <3>2, <1>0 DEF LifeInv, Life, Linked
    <3>3. CASE ses[v].state = "active"
      BY <3>1, <3>3, <1>0 DEF LifeInv, Life, Linked, PC, Before, Reading
    <3>4. QED
      BY <2>1, <3>2, <3>3 DEF Live
  <2>5. InChain(v) /\ ~Waiting(v)
    BY <2>2, <2>4 DEF AllListed, InChain, Waiting
  <2>6. QED
    BY <1>1, <2>2, <2>3, <2>5, FirstOfChain
<1>2. QED
  BY <1>1, LiveNext DEF LiveInv

LEMMA NameNext ==
    ASSUME CancelIsSafe, SInv, NameInv, [Next]_vars
    PROVE  NameInv'
<1>1. conf' = conf
  BY ConfKept
<1>2. CASE conf.single = "off"
  BY <1>1, <1>2 DEF NameInv
<1>3. CASE conf.single # "off"
  <2>1. LiveInv /\ (Trusted => ChainInv /\ AllListed)
    BY <1>3 DEF NameInv
  <2>2. LiveInv'
    BY <2>1, LiveInvNext
  <2>3. Trusted' => Trusted
    BY TrustStep DEF SInv
  <2>4. Trusted => ChainInv' /\ AllListed'
    BY <2>1, <1>3, ChainNext, ListedNext
  <2>5. QED
    BY <2>2, <2>3, <2>4 DEF NameInv
<1>4. QED
  BY <1>2, <1>3

(* single-session=deny and =replace: whatever the sessions do and in       *)
(* whatever order their handlers run, two sessions of one name are never   *)
(* active together, unless an IPoE session can arrive where a shutdown can *)
(* be cancelled.                                                           *)
THEOREM NamesAreSingle == CancelIsSafe /\ Spec => []OneSessionPerName
<1> SUFFICES ASSUME CancelIsSafe PROVE Spec => []OneSessionPerName
  OBVIOUS
<1>1. SInv /\ NameInv /\ [Next]_vars => NameInv'
  BY NameNext
<1>2. NameInv => OneSessionPerName
  BY DEF NameInv, LiveInv, Live, OneSessionPerName
<1>3. QED
  BY <1>1, <1>2, NameInit, SessionInvariant, PTL DEF Spec
=============================================================================
