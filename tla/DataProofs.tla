----------------------------- MODULE DataProofs -----------------------------
(***************************************************************************)
(* What holds of the rate limits of sessions (module Shaper) and of PPTP's *)
(* data channel (module PptpGre) for any number of sessions, calls, time   *)
(* ranges and indexes.                                                     *)
(***************************************************************************)
EXTENDS Shaper, PptpGre, SequenceTheorems, NaturalsInduction, WellFoundedInduction, TLAPS

-----------------------------------------------------------------------------
(* Least numbers and the bits of idx_map.                                  *)

BelowPairs == {p \in Nat \X Nat : p[1] < p[2]}

(* A nonempty set of numbers has a least one.                              *)
LEMMA LeastNumber ==
    ASSUME NEW T, T \subseteq Nat, T # {}
    PROVE  \E x \in T : \A y \in T : x <= y
<1>1. IsWellFoundedOn(OpToRel(<, Nat), Nat)
  BY NatLessThanWellFounded, Zenon
<1>2. OpToRel(<, Nat) = BelowPairs
  <2>1. OpToRel(<, Nat) = {p \in Nat \X Nat : p[1] < p[2]}
    BY Zenon DEF OpToRel
  <2> QED BY <2>1 DEF BelowPairs
<1>3. IsWellFoundedOn(BelowPairs, Nat)
  BY <1>1, <1>2, Zenon
<1>4. PICK x \in T : \A y \in T : ~(<<y, x>> \in BelowPairs)
  BY <1>3, WFMin, Zenon
<1>5. ASSUME NEW y \in T, ~(x <= y) PROVE FALSE
  <2>1. x \in Nat /\ y \in Nat /\ y < x
    BY <1>5
  <2>2. <<y, x>> \in BelowPairs
    BY <2>1 DEF BelowPairs
  <2> QED BY <2>2, <1>4
<1> QED BY <1>5

(* The sizes of an int, of the map and of interface numbers.               *)
ShaperConfig ==
    IntBits \in Nat \ {0} /\ MaxIdx \in Nat \ {0} /\ IfIndex \in [Users -> Nat]

Bits == Nat \X (0..(IntBits - 1))

LEMMA BitType ==
    ASSUME ShaperConfig, NEW x \in Nat
    PROVE  Bit(x) \in Bits
<1>1. Word \in Nat \ {0} /\ IntBits \in Nat \ {0}
  BY DEF ShaperConfig, Word
<1>2. x \div Word \in Nat /\ x % Word \in Nat
  BY <1>1
<1>3. (x % Word) % IntBits \in 0..(IntBits - 1)
  BY <1>1, <1>2
<1> QED BY <1>2, <1>3 DEF Bit, Bits

(* Shifts of an int reach the lower half of a word only, so the index      *)
(* found there is the one whose bit it was.                                *)
LEMMA BitOfFound ==
    ASSUME ShaperConfig, NEW i \in Nat, NEW b \in 0..(IntBits - 1)
    PROVE  i * Word + b \in Nat /\ Bit(i * Word + b) = <<i, b>>
<1>1. Word \in Nat \ {0} /\ IntBits \in Nat \ {0} /\ b \in 0..(Word - 1)
  BY DEF ShaperConfig, Word
<1>2. (i * Word + b) \div Word = i /\ (i * Word + b) % Word = b
  BY <1>1
<1>3. b % IntBits = b
  BY <1>1
<1>4. i * Word + b \in Nat
  BY <1>1
<1> QED BY <1>2, <1>3, <1>4 DEF Bit

(* The lowest bit of a word that has one.                                  *)
LEMMA LowestFound ==
    ASSUME ShaperConfig, NEW map, map \subseteq Bits, NEW i, \E b \in map : b[1] = i
    PROVE  /\ i \in Nat
           /\ \E k \in 0..(IntBits - 1) : <<i, k>> \in map /\ Lowest(map, i)[2] = k
<1> DEFINE T == {b[2] : b \in {c \in map : c[1] = i}}
<1>1. IntBits \in Nat
  BY DEF ShaperConfig
<1>2. \A b \in map : b = <<b[1], b[2]>> /\ b[1] \in Nat /\ b[2] \in 0..(IntBits - 1)
  BY DEF Bits
<1>3. T \subseteq Nat /\ T # {}
  BY <1>1, <1>2
<1>4. PICK k \in T : \A y \in T : k <= y
  BY <1>3, LeastNumber
<1>5. \E b \in map : b[1] = i /\ \A c \in map : c[1] = i => b[2] <= c[2]
  BY <1>4
<1>6. Lowest(map, i) \in map /\ Lowest(map, i)[1] = i
  BY <1>5 DEF Lowest
<1> QED BY <1>2, <1>6

(* alloc_idx takes an index that is free, or none.                         *)
LEMMA AllocIsFree ==
    ASSUME ShaperConfig, NEW map, map \subseteq Bits, NEW init \in Nat
    PROVE  /\ alloc_idx(map, init) \in Nat
           /\ alloc_idx(map, init) = 0 \/ Bit(alloc_idx(map, init)) \in map
<1> DEFINE n == init % MaxIdx
           words == {b[1] : b \in map}
           up == {i \in words : i >= n \div Word}
           Least(S) == CHOOSE i \in S : \A j \in S : i <= j
           Found(i) == i * Word + Lowest(map, i)[2]
<1>1. n \in Nat
  BY DEF ShaperConfig
<1>2. words \subseteq Nat
  BY DEF Bits
<1>3. ASSUME NEW S, S \subseteq words, S # {}
      PROVE  Least(S) \in words
  <2>1. \E i \in S : \A j \in S : i <= j
    BY <1>2, <1>3, LeastNumber
  <2>2. Least(S) \in S
    BY <2>1
  <2> QED BY <2>2, <1>3
<1>4. ASSUME NEW i \in words
      PROVE  Found(i) \in Nat /\ Bit(Found(i)) \in map
  <2>1. \E b \in map : b[1] = i
    OBVIOUS
  <2>2. i \in Nat /\ \E k \in 0..(IntBits - 1) : <<i, k>> \in map /\ Lowest(map, i)[2] = k
    BY <2>1, LowestFound
  <2>3. PICK k \in 0..(IntBits - 1) : <<i, k>> \in map /\ Lowest(map, i)[2] = k
    BY <2>2
  <2>4. i * Word + k \in Nat /\ Bit(i * Word + k) = <<i, k>>
    BY <2>2, BitOfFound
  <2> QED BY <2>3, <2>4
<1>5. alloc_idx(map, init) = IF Bit(n) \in map THEN n
                             ELSE IF up # {} THEN Found(Least(up))
                             ELSE IF words # {} THEN Found(Least(words))
                             ELSE 0
  BY DEF alloc_idx
<1>6. up # {} => Least(up) \in words
  BY <1>3
<1>7. words # {} => Least(words) \in words
  BY <1>3
<1> HIDE DEF n, words, up, Least, Found
<1> QED BY <1>1, <1>4, <1>5, <1>6, <1>7

-----------------------------------------------------------------------------
(* Shaper: references and classes.                                         *)

IsPd(p) ==
    /\ p = [refs |-> p.refs, listed |-> p.listed, temp |-> p.temp, speed |-> p.speed,
            tr |-> p.tr, cur |-> p.cur, idx |-> p.idx]
    /\ p.refs \in Nat /\ p.listed \in BOOLEAN /\ p.idx \in Nat

(* The state of the shaper is s; shp or the state after a step.            *)
Shaped(s) ==
    s = [ses |-> s.ses, pd |-> s.pd, lim |-> s.lim, calls |-> s.calls, temp |-> s.temp,
         range |-> s.range, armed |-> s.armed, map |-> s.map, walk |-> s.walk,
         used |-> s.used, crash |-> s.crash]

CallNames == {"change", "restore", "range"}

Shares(p) == IF p.listed THEN 1 ELSE 0

(* A pd is referenced by its calls and by the list.                        *)
Refs(s) == \A u \in Users : s.pd[u].refs >= Len(s.calls[u]) + Shares(s.pd[u])

Classed(p) == p.listed /\ p.idx # 0

(* The classes in use have different bits, none of them free.              *)
Classes(s) ==
    \A u \in Users : Classed(s.pd[u]) =>
        /\ Bit(s.pd[u].idx) \notin s.map
        /\ \A t \in Users \ {u} : Classed(s.pd[t]) => Bit(s.pd[t].idx) # Bit(s.pd[u].idx)

ShaperOk(s) ==
    /\ Shaped(s)
    /\ s.pd = [u \in Users |-> s.pd[u]] /\ \A u \in Users : IsPd(s.pd[u])
    /\ s.calls \in [Users -> Seq(CallNames)]
    /\ s.map \subseteq Bits
    /\ Refs(s)
    /\ Classes(s)

(* What may become of the pd and the calls of a session and of the map     *)
(* together: only a class that is given up becomes free, and a class that  *)
(* is taken was free.                                                      *)
Fits(s, u, q, c, m) ==
    /\ IsPd(q) /\ c \in Seq(CallNames) /\ m \subseteq Bits
    /\ q.refs >= Len(c) + Shares(q)
    /\ m \subseteq s.map \/ /\ Classed(s.pd[u]) /\ ~q.listed
                            /\ m \subseteq s.map \cup {Bit(s.pd[u].idx)}
    /\ Classed(q) => \/ Classed(s.pd[u]) /\ q.idx = s.pd[u].idx
                     \/ Bit(q.idx) \in s.map /\ Bit(q.idx) \notin m

LEMMA OneChanges ==
    ASSUME NEW s, ShaperOk(s), NEW n, Shaped(n), NEW u \in Users, NEW q, NEW c,
           Fits(s, u, q, c, n.map),
           n.pd = [s.pd EXCEPT ![u] = q], n.calls = [s.calls EXCEPT ![u] = c]
    PROVE  ShaperOk(n)
<1>1. /\ \A t \in Users : n.pd[t] = IF t = u THEN q ELSE s.pd[t]
      /\ \A t \in Users : n.calls[t] = IF t = u THEN c ELSE s.calls[t]
      /\ n.calls \in [Users -> Seq(CallNames)]
      /\ n.pd = [t \in Users |-> n.pd[t]]
  BY DEF ShaperOk, Fits
<1>2. \A t \in Users : IsPd(n.pd[t])
  BY <1>1 DEF ShaperOk, Fits
<1>3. Refs(n)
  BY <1>1 DEF ShaperOk, Fits, Refs
<1>4. ASSUME NEW t \in Users, Classed(n.pd[t])
      PROVE  Bit(n.pd[t].idx) \notin n.map
  <2>1. CASE t = u
    <3>1. n.pd[t] = q /\ Classed(q) /\ q.listed
      BY <1>1, <1>4, <2>1 DEF Classed
    <3>2. n.map \subseteq s.map
      BY <3>1 DEF Fits
    <3>3. Classed(s.pd[u]) => Bit(s.pd[u].idx) \notin s.map
      BY DEF ShaperOk, Classes
    <3> QED BY <3>1, <3>2, <3>3 DEF Fits
  <2>2. CASE t # u
    <3>1. n.pd[t] = s.pd[t] /\ Bit(s.pd[t].idx) \notin s.map
      BY <1>1, <1>4, <2>2 DEF ShaperOk, Classes
    <3>2. Classed(s.pd[u]) => Bit(s.pd[t].idx) # Bit(s.pd[u].idx)
      BY <1>4, <3>1, <2>2 DEF ShaperOk, Classes
    <3> QED BY <3>1, <3>2 DEF Fits
  <2> QED BY <2>1, <2>2
<1>5. ASSUME NEW t \in Users, NEW v \in Users \ {t}, Classed(n.pd[t]), Classed(n.pd[v])
      PROVE  Bit(n.pd[v].idx) # Bit(n.pd[t].idx)
  <2>1. ASSUME NEW w \in Users \ {u}, Classed(n.pd[w]), Classed(n.pd[u])
        PROVE  Bit(n.pd[w].idx) # Bit(n.pd[u].idx)
    <3>1. n.pd[w] = s.pd[w] /\ n.pd[u] = q /\ Classed(s.pd[w]) /\ Classed(q)
      BY <1>1, <2>1
    <3>2. Bit(s.pd[w].idx) \notin s.map
      BY <3>1 DEF ShaperOk, Classes
    <3>3. Classed(s.pd[u]) => Bit(s.pd[w].idx) # Bit(s.pd[u].idx)
      BY <3>1, <2>1 DEF ShaperOk, Classes
    <3> QED BY <3>1, <3>2, <3>3 DEF Fits
  <2>2. CASE t = u \/ v = u
    BY <2>1, <2>2, <1>5
  <2>3. CASE t # u /\ v # u
    BY <1>1, <1>5, <2>3 DEF ShaperOk, Classes
  <2> QED BY <2>2, <2>3
<1>6. Classes(n)
  BY <1>4, <1>5 DEF Classes
<1> QED BY <1>1, <1>2, <1>3, <1>6 DEF ShaperOk, Fits

LEMMA NoneChanges ==
    ASSUME NEW s, ShaperOk(s), NEW n, Shaped(n),
           n.pd = s.pd, n.calls = s.calls, n.map = s.map
    PROVE  ShaperOk(n)
BY DEF ShaperOk, Refs, Classes

-----------------------------------------------------------------------------
(* The operators that change a pd.                                         *)

Alike(p, q) == IsPd(q) /\ q.refs = p.refs /\ q.listed = p.listed /\ q.idx = p.idx

LEMMA RangeAlike ==
    ASSUME NEW p, IsPd(p), NEW id, NEW range
    PROVE  Alike(p, get_tr_pd(p, id, range))
<1> DEFINE tr == IF id \in DOMAIN p.tr THEN p.tr
                 ELSE [i \in {id} \cup DOMAIN p.tr |-> IF i = id THEN None ELSE p.tr[i]]
           cur == IF id = range THEN id ELSE p.cur
<1>1. get_tr_pd(p, id, range) = [p EXCEPT !.tr = tr, !.cur = cur]
  BY DEF get_tr_pd
<1> HIDE DEF tr, cur
<1> QED BY <1>1 DEF Alike, IsPd

LEMMA AttrsAlike ==
    ASSUME NEW p, IsPd(p), NEW ids, NEW range
    PROVE  Alike(p, check_radius_attrs(p, ids, range))
<1>1. ASSUME NEW S, NEW cur PROVE Alike(p, [Keep(p, S) EXCEPT !.cur = cur])
  <2> DEFINE tr == [i \in S |-> IF i \in DOMAIN p.tr THEN p.tr[i] ELSE None]
  <2>1. Keep(p, S) = [p EXCEPT !.tr = tr]
    BY DEF Keep
  <2> HIDE DEF tr
  <2>2. PICK k : k = [p EXCEPT !.tr = tr]
    OBVIOUS
  <2>3. Alike(p, k)
    BY <2>2 DEF Alike, IsPd
  <2>4. Alike(p, [k EXCEPT !.cur = cur])
    BY <2>3 DEF Alike, IsPd
  <2> QED BY <2>1, <2>2, <2>4
<1>2. Alike(p, [p EXCEPT !.cur = NoRange])
  BY DEF Alike, IsPd
<1> QED BY <1>1, <1>2 DEF check_radius_attrs

(* A pd that is made is listed, with one reference and without a class.    *)
LEMMA FoundPd ==
    ASSUME NEW p, IsPd(p)
    PROVE  /\ IsPd(find_pd(p))
           /\ \/ p.refs > 0 /\ find_pd(p) = p
              \/ /\ p.refs = 0 /\ find_pd(p).refs = 1
                 /\ find_pd(p).listed /\ find_pd(p).idx = 0
<1>1. CASE p.refs > 0
  BY <1>1 DEF find_pd
<1>2. CASE ~(p.refs > 0)
  <2>1. p.refs = 0
    BY <1>2 DEF IsPd
  <2>2. find_pd(p) = [NoPd EXCEPT !.refs = 1, !.listed = TRUE]
    BY <1>2 DEF find_pd
  <2>3. PICK tr, sp, te, cu : NoPd = [refs |-> 0, listed |-> FALSE, temp |-> te, speed |-> sp,
                                      tr |-> tr, cur |-> cu, idx |-> 0]
    BY DEF NoPd
  <2>4. find_pd(p) = [refs |-> 1, listed |-> TRUE, temp |-> te, speed |-> sp,
                      tr |-> tr, cur |-> cu, idx |-> 0]
    BY <2>2, <2>3
  <2> QED BY <2>1, <2>4 DEF IsPd
<1> QED BY <1>1, <1>2

LEMMA UnrefPd ==
    ASSUME NEW p, IsPd(p), p.refs > 0
    PROVE  /\ IsPd(unref(p))
           /\ unref(p).refs = p.refs - 1
           /\ p.refs = 1 => ~unref(p).listed
           /\ p.refs > 1 => unref(p).listed = p.listed /\ unref(p).idx = p.idx
<1>1. CASE p.refs = 1
  <2>1. PICK tr, sp, te, cu : NoPd = [refs |-> 0, listed |-> FALSE, temp |-> te, speed |-> sp,
                                      tr |-> tr, cur |-> cu, idx |-> 0]
    BY DEF NoPd
  <2>2. unref(p) = NoPd
    BY <1>1 DEF unref
  <2> QED BY <1>1, <2>1, <2>2 DEF IsPd
<1>2. CASE p.refs # 1
  <2>1. PICK k \in Nat : k = p.refs - 1
    BY DEF IsPd
  <2>2. unref(p) = [p EXCEPT !.refs = k]
    BY <1>2, <2>1 DEF unref
  <2>3. unref(p) = [refs |-> k, listed |-> p.listed, temp |-> p.temp, speed |-> p.speed,
                    tr |-> p.tr, cur |-> p.cur, idx |-> p.idx]
    BY <2>2 DEF IsPd
  <2> QED BY <1>2, <2>1, <2>3 DEF IsPd
<1> QED BY <1>1, <1>2

LEMMA SharesOf ==
    ASSUME NEW p, p.listed \in BOOLEAN
    PROVE  /\ Shares(p) \in {0, 1}
           /\ p.listed => Shares(p) = 1
           /\ ~p.listed => Shares(p) = 0
BY DEF Shares

LEMMA UserFacts ==
    ASSUME NEW s, ShaperOk(s), NEW u \in Users
    PROVE  /\ IsPd(s.pd[u]) /\ s.pd[u].refs \in Nat /\ s.pd[u].idx \in Nat
           /\ s.pd[u].listed \in BOOLEAN
           /\ s.calls[u] \in Seq(CallNames) /\ Len(s.calls[u]) \in Nat
           /\ Shares(s.pd[u]) \in {0, 1}
           /\ s.pd[u].refs >= Len(s.calls[u]) + Shares(s.pd[u])
           /\ s.map \subseteq Bits
<1>1. IsPd(s.pd[u]) /\ s.calls[u] \in Seq(CallNames) /\ s.map \subseteq Bits
  BY DEF ShaperOk
<1>2. s.pd[u].refs \in Nat /\ s.pd[u].idx \in Nat /\ s.pd[u].listed \in BOOLEAN
  BY <1>1 DEF IsPd
<1>3. Len(s.calls[u]) \in Nat
  BY <1>1, LenProperties
<1>4. s.pd[u].refs >= Len(s.calls[u]) + Shares(s.pd[u])
  BY DEF ShaperOk, Refs
<1> QED BY <1>1, <1>2, <1>3, <1>4, SharesOf

(* The changes that leave the map alone.                                   *)
LEMMA AlikeFits ==
    ASSUME NEW s, ShaperOk(s), NEW u \in Users, NEW q, Alike(s.pd[u], q)
    PROVE  Fits(s, u, q, s.calls[u], s.map)
BY DEF ShaperOk, Refs, Alike, Fits, Shares, Classed

LEMMA FoundFits ==
    ASSUME NEW s, ShaperOk(s), NEW u \in Users, NEW q, Alike(find_pd(s.pd[u]), q)
    PROVE  Fits(s, u, q, s.calls[u], s.map)
<1>1. IsPd(s.pd[u])
  BY DEF ShaperOk
<1>2. CASE find_pd(s.pd[u]) = s.pd[u]
  BY <1>2, AlikeFits
<1>3. CASE s.pd[u].refs = 0 /\ q.refs = 1 /\ q.listed /\ q.idx = 0
  <2>1. Len(s.calls[u]) = 0 /\ s.calls[u] \in Seq(CallNames) /\ s.map \subseteq Bits
    BY <1>3, UserFacts
  <2> QED BY <2>1, <1>3 DEF Fits, Alike, Shares, Classed
<1> QED BY <1>1, <1>2, <1>3, FoundPd DEF Alike

(* A walk adds a call and its reference.                                   *)
LEMMA PostFits ==
    ASSUME NEW s, ShaperOk(s), NEW u \in Users, NEW p, Alike(s.pd[u], p), NEW k \in CallNames
    PROVE  Fits(s, u, [p EXCEPT !.refs = @ + 1], Append(s.calls[u], k), s.map)
<1>1. s.calls[u] \in Seq(CallNames) /\ s.map \subseteq Bits
  BY UserFacts
<1>2. Append(s.calls[u], k) \in Seq(CallNames) /\ Len(Append(s.calls[u], k)) = Len(s.calls[u]) + 1
  BY <1>1, AppendProperties
<1>3. /\ s.pd[u].refs >= Len(s.calls[u]) + Shares(s.pd[u]) /\ Len(s.calls[u]) \in Nat
      /\ s.pd[u].refs \in Nat /\ Shares(s.pd[u]) \in {0, 1}
  BY UserFacts
<1>4. PICK q : q = [p EXCEPT !.refs = @ + 1]
  OBVIOUS
<1>5. /\ IsPd(q) /\ q.refs = s.pd[u].refs + 1
      /\ q.listed = s.pd[u].listed /\ q.idx = s.pd[u].idx
  BY <1>4 DEF Alike, IsPd
<1>6. q.refs >= Len(s.calls[u]) + 1 + Shares(q)
  <2>1. Shares(q) = Shares(s.pd[u])
    BY <1>5 DEF Shares
  <2> QED BY <1>3, <1>5, <2>1
<1> QED BY <1>1, <1>2, <1>4, <1>5, <1>6 DEF Fits, Classed

(* A call that is done gives its reference back; it may have taken a class *)
(* that was free.                                                          *)
LEMMA CallFits ==
    ASSUME NEW s, ShaperOk(s), NEW u \in Users, s.calls[u] # <<>>,
           NEW p, IsPd(p), p.refs = s.pd[u].refs, p.listed = s.pd[u].listed,
           NEW m, \/ p.idx = s.pd[u].idx /\ m = s.map
                  \/ /\ s.pd[u].idx = 0 /\ p.idx # 0
                     /\ Bit(p.idx) \in s.map /\ m = s.map \ {Bit(p.idx)}
    PROVE  Fits(s, u, unref(p), Tail(s.calls[u]), m)
<1>1. s.calls[u] \in Seq(CallNames) /\ s.map \subseteq Bits
  BY UserFacts
<1>2. /\ Tail(s.calls[u]) \in Seq(CallNames)
      /\ Len(Tail(s.calls[u])) = Len(s.calls[u]) - 1
      /\ Len(s.calls[u]) \in Nat \ {0}
  BY <1>1, HeadTailProperties, EmptySeq
<1>3. Shares(p) = Shares(s.pd[u])
  BY DEF Shares
<1>4. p.refs \in Nat /\ p.refs >= Len(s.calls[u]) + Shares(p) /\ p.listed \in BOOLEAN
  BY <1>3, UserFacts
<1>5. p.refs > 0 /\ (p.listed => p.refs > 1)
  <2>1. Shares(p) \in {0, 1} /\ (p.listed => Shares(p) = 1)
    BY <1>4, SharesOf
  <2> QED BY <1>2, <1>4, <2>1
<1>6. /\ IsPd(unref(p)) /\ unref(p).refs = p.refs - 1
      /\ unref(p).listed = p.listed
      /\ p.listed => unref(p).idx = p.idx
  <2>1. CASE p.refs = 1
    <3>1. ~p.listed /\ ~unref(p).listed /\ unref(p).listed \in BOOLEAN
      BY <1>5, <2>1, UnrefPd DEF IsPd
    <3> QED BY <1>4, <1>5, <3>1, UnrefPd
  <2>2. CASE p.refs # 1
    BY <1>4, <1>5, <2>2, UnrefPd
  <2> QED BY <2>1, <2>2
<1>7. unref(p).refs >= Len(Tail(s.calls[u])) + Shares(unref(p))
  <2>1. Shares(unref(p)) = Shares(p) /\ Shares(p) \in {0, 1}
    BY <1>4, <1>6, SharesOf DEF Shares
  <2>2. \A a, c, d \in Nat : a >= c + d => a - 1 >= (c - 1) + d
    OBVIOUS
  <2>3. Len(s.calls[u]) \in Nat /\ Shares(p) \in Nat
    BY <1>2, <2>1
  <2> QED BY <1>2, <1>4, <1>6, <2>1, <2>2, <2>3
<1>8. m \subseteq s.map /\ m \subseteq Bits
  BY <1>1
<1> QED BY <1>2, <1>6, <1>7, <1>8 DEF Fits, Classed

(* The list's reference is given back with the class.                      *)
LEMMA FinishFits ==
    ASSUME ShaperConfig, NEW s, ShaperOk(s), NEW u \in Users, s.pd[u].listed
    PROVE  Fits(s, u, unref([s.pd[u] EXCEPT !.listed = FALSE]), s.calls[u], free_idx(s.map, s.pd[u].idx))
<1>1. /\ s.calls[u] \in Seq(CallNames) /\ s.map \subseteq Bits /\ IsPd(s.pd[u])
      /\ s.pd[u].refs >= Len(s.calls[u]) + 1 /\ Len(s.calls[u]) \in Nat
      /\ s.pd[u].refs \in Nat
  BY UserFacts, SharesOf
<1>2. PICK p : p = [s.pd[u] EXCEPT !.listed = FALSE]
  OBVIOUS
<1>3. IsPd(p) /\ p.refs = s.pd[u].refs /\ ~p.listed /\ p.refs > 0
  <2>1. p = [refs |-> s.pd[u].refs, listed |-> FALSE, temp |-> s.pd[u].temp, speed |-> s.pd[u].speed,
             tr |-> s.pd[u].tr, cur |-> s.pd[u].cur, idx |-> s.pd[u].idx]
    BY <1>1, <1>2 DEF IsPd
  <2>2. IsPd(p) /\ p.refs = s.pd[u].refs /\ ~p.listed
    BY <1>1, <2>1 DEF IsPd
  <2> QED BY <1>1, <2>2
<1>4. IsPd(unref(p)) /\ unref(p).refs = p.refs - 1 /\ ~unref(p).listed
  BY <1>3, UnrefPd DEF IsPd
<1>5. Bit(s.pd[u].idx) \in Bits
  BY <1>1, BitType DEF IsPd
<1>6. /\ free_idx(s.map, s.pd[u].idx) \subseteq Bits
      /\ \/ free_idx(s.map, s.pd[u].idx) = s.map
         \/ /\ Classed(s.pd[u])
            /\ free_idx(s.map, s.pd[u].idx) = s.map \cup {Bit(s.pd[u].idx)}
  BY <1>1, <1>5 DEF free_idx, Classed
<1>7. unref(p).refs >= Len(s.calls[u]) + Shares(unref(p))
  <2>1. Shares(unref(p)) = 0
    BY <1>4 DEF Shares
  <2> QED BY <1>1, <1>3, <1>4, <2>1
<1> QED BY <1>1, <1>2, <1>4, <1>6, <1>7 DEF Fits, Classed

-----------------------------------------------------------------------------
(* The steps of the shaper.                                                *)

LEMMA ShaperStarts == ShaperConfig /\ ShaperInit => ShaperOk(shp)
<1> SUFFICES ASSUME ShaperConfig, ShaperInit PROVE ShaperOk(shp)
  OBVIOUS
<1>1. /\ Shaped(shp)
      /\ shp.pd = [u \in Users |-> NoPd]
      /\ shp.calls = [u \in Users |-> <<>>]
      /\ shp.map \subseteq (0 .. (MaxIdx \div Word) - 1) \X (0 .. IntBits - 1)
  BY DEF ShaperInit, Shaped
<1>2. IsPd(NoPd) /\ NoPd.refs = 0 /\ ~NoPd.listed
  <2>1. PICK tr, sp, te, cu : NoPd = [refs |-> 0, listed |-> FALSE, temp |-> te, speed |-> sp,
                                      tr |-> tr, cur |-> cu, idx |-> 0]
    BY DEF NoPd
  <2> QED BY <2>1 DEF IsPd
<1>3. shp.map \subseteq Bits
  <2>1. 0 .. (MaxIdx \div Word) - 1 \subseteq Nat
    BY DEF ShaperConfig, Word
  <2> QED BY <1>1, <2>1 DEF Bits
<1>4. shp.calls \in [Users -> Seq(CallNames)] /\ \A u \in Users : Len(shp.calls[u]) = 0
  BY <1>1, EmptySeq
<1>5. Refs(shp)
  BY <1>1, <1>2, <1>4 DEF Refs, Shares
<1>6. Classes(shp)
  BY <1>1, <1>2 DEF Classes, Classed
<1> QED BY <1>1, <1>2, <1>3, <1>4, <1>5, <1>6 DEF ShaperOk

(* A step that changes the pd of a session, and not its calls or the map.  *)
LEMMA PdStep ==
    ASSUME ShaperOk(shp), NEW u \in Users, NEW q, Fits(shp, u, q, shp.calls[u], shp.map),
           Shaped(shp'), shp'.pd = [shp.pd EXCEPT ![u] = q],
           shp'.calls = shp.calls, shp'.map = shp.map
    PROVE  ShaperOk(shp')
<1>1. shp'.calls = [shp.calls EXCEPT ![u] = shp.calls[u]]
  BY DEF ShaperOk
<1> QED BY <1>1, OneChanges

LEMMA AcceptStep ==
    ASSUME ShaperOk(shp), NEW u \in Users, NEW ids, ev_radius_access_accept(u, ids)
    PROVE  ShaperOk(shp')
<1>1. PICK q : q = check_radius_attrs(find_pd(shp.pd[u]), ids, shp.range)
  OBVIOUS
<1>2. shp' = [shp EXCEPT !.ses[u] = "starting", !.pd[u] = q]
  BY <1>1 DEF ev_radius_access_accept
<1>3. /\ Shaped(shp') /\ shp'.pd = [shp.pd EXCEPT ![u] = q]
      /\ shp'.calls = shp.calls /\ shp'.map = shp.map
  BY <1>2 DEF ShaperOk, Shaped
<1>4. Fits(shp, u, q, shp.calls[u], shp.map)
  BY <1>1, UserFacts, FoundPd, AttrsAlike, FoundFits
<1> QED BY <1>3, <1>4, PdStep

LEMMA CoaStep ==
    ASSUME ShaperOk(shp), NEW u \in Users, NEW ids, ev_radius_coa(u, ids)
    PROVE  ShaperOk(shp')
<1>1. PICK q : q = check_radius_attrs(shp.pd[u], ids, shp.range)
  OBVIOUS
<1>2. shp' = [shp EXCEPT !.used = @ + 1, !.pd[u] = q]
  BY <1>1 DEF ev_radius_coa
<1>3. /\ Shaped(shp') /\ shp'.pd = [shp.pd EXCEPT ![u] = q]
      /\ shp'.calls = shp.calls /\ shp'.map = shp.map
  BY <1>2 DEF ShaperOk, Shaped
<1>4. Fits(shp, u, q, shp.calls[u], shp.map)
  BY <1>1, UserFacts, AttrsAlike, AlikeFits
<1> QED BY <1>3, <1>4, PdStep

LEMMA SecretsStep ==
    ASSUME ShaperOk(shp), NEW u \in Users, ev_shaper(u)
    PROVE  ShaperOk(shp')
<1>1. PICK q : q = get_tr_pd(find_pd(shp.pd[u]), 0, shp.range)
  OBVIOUS
<1>2. shp' = [shp EXCEPT !.ses[u] = "starting", !.pd[u] = q]
  BY <1>1 DEF ev_shaper
<1>3. /\ Shaped(shp') /\ shp'.pd = [shp.pd EXCEPT ![u] = q]
      /\ shp'.calls = shp.calls /\ shp'.map = shp.map
  BY <1>2 DEF ShaperOk, Shaped
<1>4. Fits(shp, u, q, shp.calls[u], shp.map)
  BY <1>1, UserFacts, FoundPd, RangeAlike, FoundFits
<1> QED BY <1>3, <1>4, PdStep

LEMMA PreUpStep ==
    ASSUME ShaperOk(shp), NEW u \in Users, ev_ppp_pre_up(u)
    PROVE  ShaperOk(shp')
<1>1. PICK p : p = find_pd(shp.pd[u])
  OBVIOUS
<1>2. IsPd(p)
  BY <1>1, UserFacts, FoundPd
<1>3. PICK q : q = IF shp.temp # None THEN [p EXCEPT !.temp = shp.temp, !.speed = shp.temp]
                   ELSE IF p.cur # NoRange THEN [p EXCEPT !.speed = p.tr[p.cur]]
                   ELSE IF Default # None THEN [p EXCEPT !.speed = Default] ELSE p
  OBVIOUS
<1>4. shp' = [shp EXCEPT !.ses[u] = "up", !.pd[u] = q]
  BY <1>1, <1>3 DEF ev_ppp_pre_up
<1>5. /\ Shaped(shp') /\ shp'.pd = [shp.pd EXCEPT ![u] = q]
      /\ shp'.calls = shp.calls /\ shp'.map = shp.map
  BY <1>4 DEF ShaperOk, Shaped
<1>6. Alike(p, q)
  <2>1. ASSUME NEW a, NEW b PROVE Alike(p, [p EXCEPT !.temp = a, !.speed = b])
    <3>1. PICK k : k = [p EXCEPT !.temp = a]
      OBVIOUS
    <3>2. Alike(p, k)
      BY <1>2, <3>1 DEF Alike, IsPd
    <3>3. Alike(p, [k EXCEPT !.speed = b])
      BY <3>2 DEF Alike, IsPd
    <3>4. [p EXCEPT !.temp = a, !.speed = b] = [k EXCEPT !.speed = b]
      BY <3>1
    <3> QED BY <3>3, <3>4
  <2>2. ASSUME NEW a PROVE Alike(p, [p EXCEPT !.speed = a])
    BY <1>2 DEF Alike, IsPd
  <2>3. Alike(p, p)
    BY <1>2 DEF Alike
  <2> QED BY <1>3, <2>1, <2>2, <2>3
<1>7. Fits(shp, u, q, shp.calls[u], shp.map)
  BY <1>1, <1>6, FoundFits
<1> QED BY <1>5, <1>7, PdStep

LEMMA FinishingStep ==
    ASSUME ShaperConfig, ShaperOk(shp), NEW u \in Users, ev_ppp_finishing(u)
    PROVE  ShaperOk(shp')
<1>1. CASE ~shp.pd[u].listed
  <2>1. shp' = [shp EXCEPT !.ses[u] = "finishing", !.map = @, !.pd[u] = @]
    BY <1>1 DEF ev_ppp_finishing
  <2>2. Shaped(shp') /\ shp'.pd = shp.pd /\ shp'.calls = shp.calls /\ shp'.map = shp.map
    BY <2>1 DEF ShaperOk, Shaped
  <2> QED BY <2>2, NoneChanges
<1>2. CASE shp.pd[u].listed
  <2>1. PICK q : q = unref([shp.pd[u] EXCEPT !.listed = FALSE])
    OBVIOUS
  <2>2. PICK m : m = free_idx(shp.map, shp.pd[u].idx)
    OBVIOUS
  <2>3. shp' = [shp EXCEPT !.ses[u] = "finishing", !.map = m, !.pd[u] = q]
    BY <1>2, <2>1, <2>2 DEF ev_ppp_finishing
  <2>4. /\ Shaped(shp') /\ shp'.pd = [shp.pd EXCEPT ![u] = q] /\ shp'.map = m
        /\ shp'.calls = [shp.calls EXCEPT ![u] = shp.calls[u]]
    BY <2>3 DEF ShaperOk, Shaped
  <2>5. Fits(shp, u, q, shp.calls[u], m)
    BY <1>2, <2>1, <2>2, FinishFits
  <2> QED BY <2>4, <2>5, OneChanges
<1> QED BY <1>1, <1>2

LEMMA UnregisterStep ==
    ASSUME ShaperOk(shp), NEW u \in Users, Unregister(u)
    PROVE  ShaperOk(shp')
<1>1. shp' = [shp EXCEPT !.ses[u] = "gone", !.calls[u] = <<>>, !.lim[u] = None]
  BY DEF Unregister
<1>2. /\ Shaped(shp') /\ shp'.pd = [shp.pd EXCEPT ![u] = shp.pd[u]]
      /\ shp'.calls = [shp.calls EXCEPT ![u] = <<>>] /\ shp'.map = shp.map
  BY <1>1 DEF ShaperOk, Shaped
<1>3. <<>> \in Seq(CallNames) /\ Len(<<>>) = 0
  BY EmptySeq
<1>4. Fits(shp, u, shp.pd[u], <<>>, shp.map)
  BY <1>3, UserFacts DEF Fits
<1> QED BY <1>2, <1>4, OneChanges

LEMMA CrashStep ==
    ASSUME ShaperOk(shp), shp' = [shp EXCEPT !.crash = TRUE]
    PROVE  ShaperOk(shp')
<1>1. Shaped(shp') /\ shp'.pd = shp.pd /\ shp'.calls = shp.calls /\ shp'.map = shp.map
  BY DEF ShaperOk, Shaped
<1> QED BY <1>1, NoneChanges

(* The index a call uses is the session's own, or was free.                *)
LEMMA IndexFacts ==
    ASSUME ShaperConfig, ShaperOk(shp), NEW u \in Users, NEW needed
    PROVE  /\ Index(u, needed) \in Nat
           /\ \/ Index(u, needed) = shp.pd[u].idx
              \/ /\ shp.pd[u].idx = 0 /\ Index(u, needed) # 0
                 /\ Bit(Index(u, needed)) \in shp.map
<1>1. shp.pd[u].idx \in Nat /\ shp.map \subseteq Bits /\ IfIndex[u] \in Nat
  BY UserFacts DEF ShaperConfig
<1>2. PICK a : a = alloc_idx(shp.map, IfIndex[u])
  OBVIOUS
<1>3. a \in Nat /\ (a = 0 \/ Bit(a) \in shp.map)
  BY <1>1, <1>2, AllocIsFree
<1>4. Index(u, needed) = IF needed /\ shp.pd[u].idx = 0 THEN a ELSE shp.pd[u].idx
  BY <1>2 DEF Index
<1> QED BY <1>1, <1>3, <1>4

(* A call is done: with a pd that differs in its index at most.            *)
LEMMA DoneStep ==
    ASSUME ShaperOk(shp), NEW u \in Users, shp.calls[u] # <<>>, Shaped(shp'),
           NEW p, IsPd(p), p.refs = shp.pd[u].refs, p.listed = shp.pd[u].listed,
           \/ p.idx = shp.pd[u].idx
           \/ shp.pd[u].idx = 0 /\ p.idx # 0 /\ Bit(p.idx) \in shp.map,
           shp'.pd = [shp.pd EXCEPT ![u] = unref(p)],
           shp'.calls = [shp.calls EXCEPT ![u] = Tail(shp.calls[u])],
           shp'.map = IF p.idx # shp.pd[u].idx THEN shp.map \ {Bit(p.idx)} ELSE shp.map
    PROVE  ShaperOk(shp')
<1>1. Fits(shp, u, unref(p), Tail(shp.calls[u]), shp'.map)
  BY CallFits
<1> QED BY <1>1, OneChanges

LEMMA PlainDoneStep ==
    ASSUME ShaperOk(shp), NEW u \in Users, shp.calls[u] # <<>>, shp' = Done(u)
    PROVE  ShaperOk(shp')
<1>1. /\ Shaped(shp') /\ shp'.pd = [shp.pd EXCEPT ![u] = unref(shp.pd[u])]
      /\ shp'.calls = [shp.calls EXCEPT ![u] = Tail(shp.calls[u])] /\ shp'.map = shp.map
  BY DEF Done, ShaperOk, Shaped
<1>2. PICK p : p = shp.pd[u]
  OBVIOUS
<1>3. IsPd(p)
  BY <1>2, UserFacts
<1>4. shp'.map = IF p.idx # shp.pd[u].idx THEN shp.map \ {Bit(p.idx)} ELSE shp.map
  BY <1>1, <1>2
<1> QED BY <1>1, <1>2, <1>3, <1>4, DoneStep

LEMMA SetStep ==
    ASSUME ShaperOk(shp), NEW u \in Users, shp.calls[u] # <<>>, NEW old, NEW v, NEW idx \in Nat,
           \/ idx = shp.pd[u].idx
           \/ shp.pd[u].idx = 0 /\ idx # 0 /\ Bit(idx) \in shp.map,
           shp' = Set(u, old, v, idx)
    PROVE  ShaperOk(shp')
<1>1. PICK p : p = [shp.pd[u] EXCEPT !.speed = v, !.idx = idx]
  OBVIOUS
<1>2. IsPd(p) /\ p.refs = shp.pd[u].refs /\ p.listed = shp.pd[u].listed /\ p.idx = idx
  <2>1. IsPd(shp.pd[u])
    BY UserFacts
  <2>2. p = [refs |-> shp.pd[u].refs, listed |-> shp.pd[u].listed, temp |-> shp.pd[u].temp,
             speed |-> v, tr |-> shp.pd[u].tr, cur |-> shp.pd[u].cur, idx |-> idx]
    BY <1>1, <2>1 DEF IsPd
  <2> QED BY <2>1, <2>2 DEF IsPd
<1>3. PICK l : l = install_limiter(old, v)
  OBVIOUS
<1>4. PICK m : m = IF idx # shp.pd[u].idx THEN shp.map \ {Bit(idx)} ELSE shp.map
  OBVIOUS
<1>5. PICK d : d = Done(u)
  OBVIOUS
<1>6. /\ Shaped(d) /\ d.pd = [shp.pd EXCEPT ![u] = unref(shp.pd[u])]
      /\ d.calls = [shp.calls EXCEPT ![u] = Tail(shp.calls[u])] /\ d.map = shp.map
  BY <1>5 DEF Done, ShaperOk, Shaped
<1>7. shp' = [d EXCEPT !.lim[u] = l, !.pd[u] = unref(p), !.map = m]
  BY <1>1, <1>3, <1>4, <1>5, <1>6 DEF Set
<1>8. /\ Shaped(shp') /\ shp'.pd = [d.pd EXCEPT ![u] = unref(p)]
      /\ shp'.calls = d.calls /\ shp'.map = m
  BY <1>6, <1>7 DEF Shaped
<1>9. shp'.pd = [shp.pd EXCEPT ![u] = unref(p)]
  BY <1>6, <1>8 DEF ShaperOk
<1>10. shp'.map = IF p.idx # shp.pd[u].idx THEN shp.map \ {Bit(p.idx)} ELSE shp.map
  BY <1>2, <1>4, <1>8
<1>11. shp'.calls = [shp.calls EXCEPT ![u] = Tail(shp.calls[u])]
  BY <1>6, <1>8
<1>12. p.idx = shp.pd[u].idx \/ (shp.pd[u].idx = 0 /\ p.idx # 0 /\ Bit(p.idx) \in shp.map)
  BY <1>2
<1> HIDE DEF Set
<1> QED BY <1>2, <1>8, <1>9, <1>10, <1>11, <1>12, DoneStep

LEMMA ChangeStep ==
    ASSUME ShaperConfig, ShaperOk(shp), NEW u \in Users, shp.calls[u] # <<>>, shaper_change(u)
    PROVE  ShaperOk(shp')
<1>1. PICK idx : idx = Index(u, shp.pd[u].speed = None)
  OBVIOUS
<1>2. /\ idx \in Nat
      /\ \/ idx = shp.pd[u].idx
         \/ shp.pd[u].idx = 0 /\ idx # 0 /\ Bit(idx) \in shp.map
  BY <1>1, IndexFacts
<1>3. \/ shp' = [shp EXCEPT !.crash = TRUE]
      \/ \E old, v : shp' = Set(u, old, v, idx)
  BY <1>1, Zenon DEF shaper_change
<1> QED BY <1>2, <1>3, CrashStep, SetStep

LEMMA RestoreStep ==
    ASSUME ShaperOk(shp), NEW u \in Users, shp.calls[u] # <<>>, shaper_restore(u)
    PROVE  ShaperOk(shp')
<1>1. \E old, v : shp' = Set(u, old, v, shp.pd[u].idx)
  BY Zenon DEF shaper_restore
<1> QED BY <1>1, UserFacts, SetStep

LEMMA RangeStep ==
    ASSUME ShaperConfig, ShaperOk(shp), NEW u \in Users, shp.calls[u] # <<>>, update_shaper_tr(u)
    PROVE  ShaperOk(shp')
<1>1. PICK c : c = IF shp.range \in DOMAIN shp.pd[u].tr THEN shp.range ELSE shp.pd[u].cur
  OBVIOUS
<1>2. PICK p : p = [shp.pd[u] EXCEPT !.cur = c]
  OBVIOUS
<1>3. Alike(shp.pd[u], p)
  <2>1. PICK a : a = shp.pd[u]
    OBVIOUS
  <2>2. IsPd(a) /\ p = [a EXCEPT !.cur = c]
    BY <1>2, <2>1, UserFacts
  <2>3. Alike(a, p)
    BY <2>2 DEF Alike, IsPd
  <2> QED BY <2>1, <2>3
<1>4. PICK v : v = IF p.cur # NoRange THEN p.tr[p.cur] ELSE None
  OBVIOUS
<1>5. PICK idx : idx = Index(u, TRUE)
  OBVIOUS
<1>6. /\ idx \in Nat
      /\ \/ idx = shp.pd[u].idx
         \/ shp.pd[u].idx = 0 /\ idx # 0 /\ Bit(idx) \in shp.map
  BY <1>5, IndexFacts
<1>7. PICK d : d = Done(u)
  OBVIOUS
<1>8. /\ Shaped(d) /\ d.pd = [shp.pd EXCEPT ![u] = unref(shp.pd[u])]
      /\ d.calls = [shp.calls EXCEPT ![u] = Tail(shp.calls[u])] /\ d.map = shp.map
  BY <1>7 DEF Done, ShaperOk, Shaped
<1>9. PICK q : q = [d EXCEPT !.pd[u] = unref(p)]
  OBVIOUS
<1>10. /\ Shaped(q) /\ q.pd = [shp.pd EXCEPT ![u] = unref(p)]
       /\ q.calls = d.calls /\ q.map = shp.map
  <2>1. Shaped(q) /\ q.pd = [d.pd EXCEPT ![u] = unref(p)] /\ q.calls = d.calls /\ q.map = d.map
    BY <1>8, <1>9 DEF Shaped
  <2> QED BY <1>8, <2>1 DEF ShaperOk
<1>11. PICK r : r = [p EXCEPT !.speed = v, !.idx = idx]
  OBVIOUS
<1>12. IsPd(r) /\ r.refs = shp.pd[u].refs /\ r.listed = shp.pd[u].listed /\ r.idx = idx
  <2>1. r = [refs |-> p.refs, listed |-> p.listed, temp |-> p.temp,
             speed |-> v, tr |-> p.tr, cur |-> p.cur, idx |-> idx]
    BY <1>3, <1>11 DEF IsPd, Alike
  <2> QED BY <1>3, <1>6, <2>1 DEF IsPd, Alike
<1>13. PICK m : m = IF idx # p.idx THEN shp.map \ {Bit(idx)} ELSE shp.map
  OBVIOUS
<1>14. \/ shp' = q
       \/ \E l : shp' = [q EXCEPT !.lim[u] = l]
       \/ \E l : shp' = [q EXCEPT !.pd[u] = unref(r), !.map = m, !.lim[u] = l]
  <2> DEFINE P == [shp.pd[u] EXCEPT !.cur = IF shp.range \in DOMAIN shp.pd[u].tr THEN shp.range ELSE @]
             V == IF P.cur # NoRange THEN P.tr[P.cur] ELSE None
             Q == [Done(u) EXCEPT !.pd[u] = unref(P)]
             I == Index(u, TRUE)
             X1 == P.temp # None \/ (P.speed # None /\ P.cur # NoRange /\ P.speed = V)
             L1 == IF P.speed # None THEN remove_limiter ELSE Q.lim[u]
             M1 == IF I # P.idx THEN Q.map \ {Bit(I)} ELSE Q.map
             R1 == unref([P EXCEPT !.speed = V, !.idx = I])
  <2>1. P = p
    BY <1>1, <1>2
  <2>2. V = v /\ Q = q /\ I = idx
    <3>1. V = v
      <4>1. V = IF P.cur # NoRange THEN P.tr[P.cur] ELSE None
        OBVIOUS
      <4> HIDE DEF P, V
      <4> QED BY <4>1, <2>1, <1>4
    <3>2. Q = [Done(u) EXCEPT !.pd[u] = unref(p)]
      BY <2>1
    <3>3. Q = q
      BY <3>2, <1>7, <1>9
    <3> QED BY <3>1, <3>3, <1>5
  <2>3. M1 = m /\ R1 = unref(r)
    <3>1. M1 = IF I # P.idx THEN Q.map \ {Bit(I)} ELSE Q.map
      OBVIOUS
    <3>2. R1 = unref([P EXCEPT !.speed = V, !.idx = I])
      OBVIOUS
    <3> HIDE DEF P, V, Q, I, M1, R1
    <3> QED BY <3>1, <3>2, <2>1, <2>2, <1>10, <1>11, <1>13
  <2>4. IF X1 THEN shp' = Q
        ELSE IF V = None THEN shp' = [Q EXCEPT !.lim[u] = L1]
        ELSE /\ P.idx # 0 \/ Unlocked
             /\ shp' = [Q EXCEPT !.pd[u] = R1, !.map = M1, !.lim[u] = install_limiter(L1, V)]
    BY DEF update_shaper_tr
  <2> HIDE DEF P, V, Q, I, X1, L1, M1, R1
  <2> QED BY <2>2, <2>3, <2>4
<1>15. CASE shp' = q \/ \E l : shp' = [q EXCEPT !.lim[u] = l]
  <2>1. /\ Shaped(shp') /\ shp'.pd = [shp.pd EXCEPT ![u] = unref(p)]
        /\ shp'.calls = d.calls /\ shp'.map = shp.map
    BY <1>10, <1>15 DEF Shaped
  <2> QED BY <1>3, <1>8, <2>1, DoneStep DEF Alike
<1>16. CASE \E l : shp' = [q EXCEPT !.pd[u] = unref(r), !.map = m, !.lim[u] = l]
  <2>1. /\ Shaped(shp') /\ shp'.pd = [q.pd EXCEPT ![u] = unref(r)]
        /\ shp'.calls = d.calls /\ shp'.map = m
    BY <1>10, <1>16 DEF Shaped
  <2>2. shp'.pd = [shp.pd EXCEPT ![u] = unref(r)]
    BY <1>10, <2>1 DEF ShaperOk
  <2>3. shp'.map = IF r.idx # shp.pd[u].idx THEN shp.map \ {Bit(r.idx)} ELSE shp.map
    BY <1>3, <1>12, <1>13, <2>1 DEF Alike
  <2> QED BY <1>6, <1>8, <1>12, <2>1, <2>2, <2>3, DoneStep
<1> QED BY <1>14, <1>15, <1>16

LEMMA CallStep ==
    ASSUME ShaperConfig, ShaperOk(shp), NEW u \in Users, Call(u)
    PROVE  ShaperOk(shp')
BY PlainDoneStep, ChangeStep, RestoreStep, RangeStep DEF Call

(* The walks of the list.                                                  *)
LEMMA WalkStarts ==
    ASSUME ShaperOk(shp), NEW w, NEW kind, NEW targets, NEW v, Walk(w, kind, targets, v)
    PROVE  ShaperOk(shp')
<1>1. \E used, walk, temp, range :
        shp' = [shp EXCEPT !.used = used, !.walk[w] = walk, !.temp = temp, !.range = range]
  BY Zenon DEF Walk
<1>2. Shaped(shp') /\ shp'.pd = shp.pd /\ shp'.calls = shp.calls /\ shp'.map = shp.map
  BY <1>1 DEF ShaperOk, Shaped
<1> QED BY <1>2, NoneChanges

LEMMA WalkEnds ==
    ASSUME ShaperOk(shp), NEW w, WalkEnd(w)
    PROVE  ShaperOk(shp')
<1>1. Shaped(shp') /\ shp'.pd = shp.pd /\ shp'.calls = shp.calls /\ shp'.map = shp.map
  BY DEF WalkEnd, ShaperOk, Shaped
<1> QED BY <1>1, NoneChanges

LEMMA ReloadStep ==
    ASSUME ShaperOk(shp), NEW ranges, load_time_ranges(ranges)
    PROVE  ShaperOk(shp')
<1>1. Shaped(shp') /\ shp'.pd = shp.pd /\ shp'.calls = shp.calls /\ shp'.map = shp.map
  BY DEF load_time_ranges, ShaperOk, Shaped
<1> QED BY <1>1, NoneChanges

LEMMA PostStep ==
    ASSUME ShaperOk(shp), NEW w, NEW u \in Users, NEW k \in CallNames, NEW p,
           Alike(shp.pd[u], p), Post(w, u, k, p)
    PROVE  ShaperOk(shp')
<1>1. PICK q : q = [p EXCEPT !.refs = @ + 1]
  OBVIOUS
<1>2. shp' = [shp EXCEPT !.walk[w].todo = @ \ {u}, !.walk[w].at = {}, !.pd[u] = q,
                         !.calls[u] = Append(@, k)]
  BY <1>1 DEF Post
<1>3. /\ Shaped(shp') /\ shp'.pd = [shp.pd EXCEPT ![u] = q]
      /\ shp'.calls = [shp.calls EXCEPT ![u] = Append(shp.calls[u], k)] /\ shp'.map = shp.map
  BY <1>2 DEF ShaperOk, Shaped
<1>4. Fits(shp, u, q, Append(shp.calls[u], k), shp.map)
  BY <1>1, PostFits
<1> QED BY <1>3, <1>4, OneChanges

LEMMA ChangeTestStep ==
    ASSUME ShaperOk(shp), NEW w, NEW u \in Users, ChangeTest(w, u)
    PROVE  ShaperOk(shp')
<1>1. PICK g : g = get_tr_pd(shp.pd[u], 0, shp.range)
  OBVIOUS
<1>2. PICK q : q = IF shp.pd[u].cur # NoRange THEN [shp.pd[u] EXCEPT !.temp = None]
                   ELSE [g EXCEPT !.temp = None, !.cur = 0]
  OBVIOUS
<1>3. shp' = [shp EXCEPT !.walk[w].at = {u}, !.pd[u] = q]
  BY <1>1, <1>2 DEF ChangeTest
<1>4. /\ Shaped(shp') /\ shp'.pd = [shp.pd EXCEPT ![u] = q]
      /\ shp'.calls = shp.calls /\ shp'.map = shp.map
  BY <1>3 DEF ShaperOk, Shaped
<1>5. PICK a : a = shp.pd[u]
  OBVIOUS
<1>6. IsPd(a) /\ Alike(a, g)
  BY <1>1, <1>5, UserFacts, RangeAlike
<1>7. ASSUME NEW b, Alike(a, b) PROVE Alike(a, [b EXCEPT !.temp = None])
  BY <1>7 DEF Alike, IsPd
<1>8. ASSUME NEW b, Alike(a, b) PROVE Alike(a, [b EXCEPT !.cur = 0])
  BY <1>8 DEF Alike, IsPd
<1>9. Alike(a, q)
  <2>1. Alike(a, a)
    BY <1>6 DEF Alike
  <2>2. PICK h : h = [g EXCEPT !.temp = None]
    OBVIOUS
  <2>3. Alike(a, [h EXCEPT !.cur = 0])
    BY <1>6, <1>7, <1>8, <2>2
  <2>4. [g EXCEPT !.temp = None, !.cur = 0] = [h EXCEPT !.cur = 0]
    BY <2>2
  <2> QED BY <1>2, <1>5, <1>7, <2>1, <2>3, <2>4
<1>10. Fits(shp, u, q, shp.calls[u], shp.map)
  BY <1>5, <1>9, AlikeFits
<1> QED BY <1>4, <1>10, PdStep

LEMMA WalkStepStep ==
    ASSUME ShaperOk(shp), NEW w, NEW u \in Users, WalkStep(w, u)
    PROVE  ShaperOk(shp')
<1>1. PICK a : a = shp.pd[u]
  OBVIOUS
<1>2. IsPd(a)
  BY <1>1, UserFacts
<1>3. CASE ChangeTest(w, u)
  BY <1>3, ChangeTestStep
<1>4. CASE ChangeSet(w, u)
  <2>1. CASE shp.pd[u].cur = NoRange
    BY <1>4, <2>1, CrashStep DEF ChangeSet
  <2>2. CASE shp.pd[u].cur # NoRange
    <3>1. PICK tr : tr = [a.tr EXCEPT ![a.cur] = shp.walk[w].val]
      OBVIOUS
    <3>2. PICK p : p = [a EXCEPT !.tr = tr]
      OBVIOUS
    <3>3. Alike(a, p)
      BY <1>2, <3>2 DEF Alike, IsPd
    <3>4. [shp.pd[u] EXCEPT !.tr[shp.pd[u].cur] = shp.walk[w].val] = p
      BY <1>1, <3>1, <3>2
    <3>5. Post(w, u, "change", p)
      BY <1>4, <2>2, <3>4 DEF ChangeSet
    <3>6. "change" \in CallNames
      BY DEF CallNames
    <3> QED BY <1>1, <3>3, <3>5, <3>6, PostStep
  <2> QED BY <2>1, <2>2
<1>5. ASSUME NEW x, NEW k \in CallNames, Post(w, u, k, [shp.pd[u] EXCEPT !.temp = x])
      PROVE  ShaperOk(shp')
  <2>1. Alike(a, [a EXCEPT !.temp = x])
    BY <1>2 DEF Alike, IsPd
  <2> QED BY <1>1, <1>5, <2>1, PostStep
<1>6. CASE shp' = [shp EXCEPT !.walk[w].todo = @ \ {u}]
  <2>1. Shaped(shp') /\ shp'.pd = shp.pd /\ shp'.calls = shp.calls /\ shp'.map = shp.map
    BY <1>6 DEF ShaperOk, Shaped
  <2> QED BY <2>1, NoneChanges
<1>7. CASE Post(w, u, "range", shp.pd[u])
  <2>1. Alike(a, a)
    BY <1>2 DEF Alike
  <2>2. "range" \in CallNames
    BY DEF CallNames
  <2> QED BY <1>1, <1>7, <2>1, <2>2, PostStep
<1>8. "change" \in CallNames /\ "restore" \in CallNames
  BY DEF CallNames
<1> QED BY <1>3, <1>4, <1>5, <1>6, <1>7, <1>8, Zenon DEF WalkStep

(* Only sessions have a pd and calls.                                      *)
LEMMA WalkElsewhere ==
    ASSUME ShaperOk(shp), NEW w, NEW u, u \notin Users, WalkStep(w, u)
    PROVE  ShaperOk(shp')
<1>1. \A x : [shp.pd EXCEPT ![u] = x] = shp.pd
  BY DEF ShaperOk
<1>2. \A x : [shp.calls EXCEPT ![u] = x] = shp.calls
  BY DEF ShaperOk
<1>3. ASSUME NEW k, NEW p, Post(w, u, k, p) PROVE ShaperOk(shp')
  <2>1. PICK q : q = [p EXCEPT !.refs = @ + 1]
    OBVIOUS
  <2>2. PICK c : c = Append(shp.calls[u], k)
    OBVIOUS
  <2>3. shp' = [shp EXCEPT !.walk[w].todo = @ \ {u}, !.walk[w].at = {}, !.pd[u] = q,
                           !.calls[u] = c]
    BY <1>3, <2>1, <2>2 DEF Post
  <2>4. /\ Shaped(shp') /\ shp'.pd = [shp.pd EXCEPT ![u] = q]
        /\ shp'.calls = [shp.calls EXCEPT ![u] = c] /\ shp'.map = shp.map
    BY <2>3 DEF ShaperOk, Shaped
  <2> QED BY <1>1, <1>2, <2>4, NoneChanges
<1>4. ASSUME ChangeTest(w, u) PROVE ShaperOk(shp')
  <2>1. \E q : shp' = [shp EXCEPT !.walk[w].at = {u}, !.pd[u] = q]
    BY <1>4, Zenon DEF ChangeTest
  <2>2. PICK q : shp' = [shp EXCEPT !.walk[w].at = {u}, !.pd[u] = q]
    BY <2>1
  <2>3. /\ Shaped(shp') /\ shp'.pd = [shp.pd EXCEPT ![u] = q]
        /\ shp'.calls = shp.calls /\ shp'.map = shp.map
    BY <2>2 DEF ShaperOk, Shaped
  <2> QED BY <1>1, <2>3, NoneChanges
<1>5. CASE shp' = [shp EXCEPT !.walk[w].todo = @ \ {u}]
  <2>1. Shaped(shp') /\ shp'.pd = shp.pd /\ shp'.calls = shp.calls /\ shp'.map = shp.map
    BY <1>5 DEF ShaperOk, Shaped
  <2> QED BY <2>1, NoneChanges
<1> QED BY <1>3, <1>4, <1>5, CrashStep, Zenon DEF WalkStep, ChangeSet

LEMMA ShaperSteps == ShaperConfig /\ ShaperOk(shp) /\ [ShaperNext]_shp => ShaperOk(shp')
<1> SUFFICES ASSUME ShaperConfig, ShaperOk(shp), [ShaperNext]_shp PROVE ShaperOk(shp')
  OBVIOUS
<1>1. CASE UNCHANGED shp
  BY <1>1
<1>2. CASE \E u \in Users, ids \in SUBSET Ids :
             ev_radius_access_accept(u, ids) \/ ev_radius_coa(u, ids)
  BY <1>2, AcceptStep, CoaStep
<1>3. CASE \E u \in Users : \/ ev_shaper(u) \/ ev_ppp_pre_up(u) \/ ev_ppp_finishing(u)
                            \/ Unregister(u) \/ Call(u)
  BY <1>3, SecretsStep, PreUpStep, FinishingStep, UnregisterStep, CallStep
<1>4. CASE \E t \in Targets, v \in Speeds, temp \in BOOLEAN : shaper_change_exec(t, v, temp)
  BY <1>4, WalkStarts, Zenon DEF shaper_change_exec
<1>5. CASE \E t \in Targets : shaper_restore_exec(t)
  BY <1>5, WalkStarts, Zenon DEF shaper_restore_exec
<1>6. CASE (\E id \in Ranges : time_range_begin_timer(id)) \/ time_range_end_timer
  BY <1>6, WalkStarts, Zenon DEF time_range_begin_timer, time_range_end_timer
<1>7. CASE \E ranges \in SUBSET Ranges : load_time_ranges(ranges)
  BY <1>7, ReloadStep
<1>8. CASE \E w \in Walkers : WalkEnd(w) \/ \E u \in shp.walk[w].todo : WalkStep(w, u)
  BY <1>8, WalkEnds, WalkStepStep, WalkElsewhere, Zenon
<1> QED BY <1>1, <1>2, <1>3, <1>4, <1>5, <1>6, <1>7, <1>8 DEF ShaperNext

(* The shaper's pd lives as long as it is listed or named by a queued      *)
(* call, and shaped sessions have different classes, none of which is in   *)
(* the map of free ones, for every number of sessions, size of int and     *)
(* order of commands, time ranges and ends of sessions (shaper.c: the      *)
(* reference counts of shaper_change_exec and ev_ppp_finishing, alloc_idx  *)
(* and free_idx).                                                          *)
THEOREM LimitsAreReferenced == ShaperConfig /\ ShaperSpec => [](PdReferenced /\ IdxUnique)
<1> SUFFICES ASSUME ShaperConfig PROVE ShaperSpec => [](PdReferenced /\ IdxUnique)
  OBVIOUS
<1> DEFINE Ok == ShaperOk(shp)
<1>1. ShaperInit => Ok
  BY ShaperStarts
<1>2. Ok /\ [ShaperNext]_shp => Ok'
  BY ShaperSteps
<1>3. Ok => PdReferenced /\ IdxUnique
  <2> SUFFICES ASSUME ShaperOk(shp) PROVE PdReferenced /\ IdxUnique
    OBVIOUS
  <2>1. PdReferenced
    BY DEF ShaperOk, Refs, Shares, PdReferenced
  <2>2. IdxUnique
    <3> SUFFICES ASSUME NEW u \in Users, shp.pd[u].listed, shp.pd[u].idx # 0
                 PROVE  /\ Bit(shp.pd[u].idx) \notin shp.map
                        /\ \A t \in Users \ {u} :
                             shp.pd[t].listed => shp.pd[t].idx # shp.pd[u].idx
      BY DEF IdxUnique
    <3>1. Classed(shp.pd[u])
      BY DEF Classed
    <3>2. /\ Bit(shp.pd[u].idx) \notin shp.map
          /\ \A t \in Users \ {u} : Classed(shp.pd[t]) => Bit(shp.pd[t].idx) # Bit(shp.pd[u].idx)
      BY <3>1 DEF ShaperOk, Classes
    <3> QED BY <3>2, Zenon DEF Classed
  <2> QED BY <2>1, <2>2
<1> QED BY <1>1, <1>2, <1>3, PTL DEF ShaperSpec

-----------------------------------------------------------------------------
(* PptpGre: calls and the order of packets.                                *)

(* Call identifiers, a window smaller than the numbers (2^32 and 256), and *)
(* calls on which the peer's numbers stay below the window's end.          *)
GreConfig ==
    /\ MaxCallid \in Nat \ {0} /\ NoSock \notin Socks
    /\ SeqMod \in Nat /\ Zone \in Nat \ {0}
    /\ \A sc \in GreScenarios : sc.socks \subseteq Socks /\ sc.sent \in Nat

NumbersDoNotWrap == \A sc \in GreScenarios : sc.sent < SeqMod - Zone

Ident == 0..MaxCallid
Numbers == {n \in Nat : n < SeqMod - Zone}

IsSock(o) ==
    /\ o = [st |-> o.st, id |-> o.id, dst |-> o.dst, want |-> o.want, refs |-> o.refs,
            seq_sent |-> o.seq_sent, seq_recv |-> o.seq_recv, ack_sent |-> o.ack_sent,
            ack_recv |-> o.ack_recv, queued |-> o.queued]
    /\ o.st \in {"absent", "none", "bound", "connected", "closing", "dead"}
    /\ o.id \in Ident /\ o.refs \in Nat

Bound(o) == o.st \in {"bound", "connected"}

(* A socket is referred to by its file and by the packet in hand.          *)
Own(o) == IF o.st \in {"absent", "dead"} THEN 0 ELSE 1
Held(rx, s) == IF rx.at = "found" THEN (IF rx.s = s THEN 1 ELSE 0) ELSE 0

SockOk(o, held) ==
    /\ IsSock(o)
    /\ o.want # NoPeer => o.st = "bound"
    /\ o.st = "none" => o.id = 0
    /\ o.refs = Own(o) + held
    /\ o.st = "absent" => held = 0

(* What has been handed to PPP is what the socket has counted.             *)
InOrder(o, last) == o.st # "absent" => last \in Numbers /\ o.seq_recv = last

RxOk(rx) ==
    \/ rx = [at |-> "idle"]
    \/ rx = [at |-> "found", s |-> rx.s, p |-> rx.p] /\ rx.s \in Socks /\ rx.p.n \in Nat

TableOk(table, bitmap, so) ==
    /\ table \in [Ident -> Socks \cup {NoSock}] /\ bitmap \subseteq Ident
    /\ table[0] = NoSock /\ 0 \notin bitmap
    /\ \A i \in 0..(MaxCallid - 1) : i \notin bitmap => table[i] = NoSock
    /\ \A i \in Ident, s \in Socks : table[i] = s => Bound(so[s]) /\ so[s].id = i
    /\ \A s \in Socks : Bound(so[s]) /\ so[s].id # MaxCallid => table[so[s].id] = s

GreShaped(g) ==
    /\ g = [so |-> g.so, table |-> g.table, bitmap |-> g.bitmap, call_id |-> g.call_id,
            wait |-> g.wait, rx |-> g.rx, sent |-> g.sent, last |-> g.last,
            wrong |-> g.wrong, missed |-> g.missed, left |-> g.left, sc |-> g.sc]
    /\ g.so = [s \in Socks |-> g.so[s]] /\ g.last = [s \in Socks |-> g.last[s]]
    /\ g.call_id \in Ident /\ g.sc \in GreScenarios

GreOk(g) ==
    /\ GreShaped(g)
    /\ \A s \in Socks : SockOk(g.so[s], Held(g.rx, s))
    /\ RxOk(g.rx)
    /\ TableOk(g.table, g.bitmap, g.so)

Ordered(g) ==
    /\ \A s \in Socks : InOrder(g.so[s], g.last[s])
    /\ g.rx.at = "found" => g.rx.p.n \in Numbers
    /\ g.wrong = FALSE /\ g.missed = FALSE

LEMMA NextZeroBit ==
    ASSUME GreConfig, NEW bitmap, NEW from \in Nat \ {0}
    PROVE  /\ find_next_zero_bit(bitmap, from) \in Ident
           /\ find_next_zero_bit(bitmap, from) # 0
           /\ \/ find_next_zero_bit(bitmap, from) = MaxCallid
              \/ find_next_zero_bit(bitmap, from) \notin bitmap
<1> DEFINE free == {i \in from..(MaxCallid - 1) : i \notin bitmap}
           least == CHOOSE i \in free : \A j \in free : i <= j
<1>1. MaxCallid \in Nat \ {0}
  BY DEF GreConfig
<1>2. free \subseteq Nat
  BY <1>1
<1>3. free # {} => least \in free
  <2> SUFFICES ASSUME free # {} PROVE least \in free
    OBVIOUS
  <2>1. \E i \in free : \A j \in free : i <= j
    BY <1>2, LeastNumber
  <2> QED BY <2>1
<1>4. find_next_zero_bit(bitmap, from) = IF free = {} THEN MaxCallid ELSE least
  BY DEF find_next_zero_bit
<1>5. \A i \in free : i \in Ident /\ i # 0 /\ i \notin bitmap
  BY <1>1 DEF Ident
<1>6. MaxCallid \in Ident /\ MaxCallid # 0
  BY <1>1 DEF Ident
<1> HIDE DEF free, least
<1> QED BY <1>3, <1>4, <1>5, <1>6

(* A socket changes and the table does not.                                *)
LEMMA TableKept ==
    ASSUME NEW table, NEW bitmap, NEW so, so = [s \in Socks |-> so[s]],
           TableOk(table, bitmap, so),
           NEW s \in Socks, NEW q, Bound(q) <=> Bound(so[s]), q.id = so[s].id
    PROVE  TableOk(table, bitmap, [so EXCEPT ![s] = q])
<1>1. PICK n : n = [so EXCEPT ![s] = q]
  OBVIOUS
<1>2. \A t \in Socks : (Bound(n[t]) <=> Bound(so[t])) /\ n[t].id = so[t].id
  BY <1>1
<1> QED BY <1>1, <1>2 DEF TableOk

(* A socket that is not bound changes into one that is not.                *)
LEMMA TableKeptUnbound ==
    ASSUME NEW table, NEW bitmap, NEW so, so = [s \in Socks |-> so[s]],
           TableOk(table, bitmap, so),
           NEW s \in Socks, NEW q, ~Bound(q), ~Bound(so[s])
    PROVE  TableOk(table, bitmap, [so EXCEPT ![s] = q])
<1>1. PICK n : n = [so EXCEPT ![s] = q]
  OBVIOUS
<1>2. \A t \in Socks : \/ ~Bound(n[t]) /\ ~Bound(so[t])
                       \/ (Bound(n[t]) <=> Bound(so[t])) /\ n[t].id = so[t].id
  BY <1>1
<1> QED BY <1>1, <1>2 DEF TableOk

LEMMA TablePlaced ==
    ASSUME GreConfig, NEW table, NEW bitmap, NEW so, so = [s \in Socks |-> so[s]],
           TableOk(table, bitmap, so), \A t \in Socks : so[t].id \in Ident,
           NEW s \in Socks, ~Bound(so[s]),
           NEW i \in Ident, i # 0, i = MaxCallid \/ i \notin bitmap,
           NEW q, q.id = i, Bound(q)
    PROVE  TableOk([table EXCEPT ![i] = s], bitmap \cup {i}, [so EXCEPT ![s] = q])
<1>1. PICK n : n = [so EXCEPT ![s] = q]
  OBVIOUS
<1>2. PICK tb : tb = [table EXCEPT ![i] = s]
  OBVIOUS
<1>3. \A t \in Socks : n[t] = IF t = s THEN q ELSE so[t]
  BY <1>1
<1>4. /\ tb \in [Ident -> Socks \cup {NoSock}]
      /\ \A j \in Ident : tb[j] = IF j = i THEN s ELSE table[j]
  BY <1>2 DEF TableOk
<1>5. 0 \in Ident /\ MaxCallid \in Nat /\ NoSock \notin Socks /\ 0..(MaxCallid - 1) \subseteq Ident
  BY DEF GreConfig, Ident
<1>6. \A j \in Ident : table[j] # s
  BY DEF TableOk
<1>7. i # MaxCallid => table[i] = NoSock
  BY DEF TableOk, Ident, GreConfig
<1>8. \A j \in Ident, t \in Socks : tb[j] = t => Bound(n[t]) /\ n[t].id = j
  BY <1>3, <1>4, <1>6 DEF TableOk
<1>9. ASSUME NEW t \in Socks, Bound(n[t]), n[t].id # MaxCallid PROVE tb[n[t].id] = t
  <2>1. CASE t = s
    BY <1>3, <1>4, <2>1
  <2>2. CASE t # s
    <3>1. n[t] = so[t] /\ table[so[t].id] = t /\ so[t].id \in Ident
      <4>1. n[t] = so[t] /\ table[so[t].id] = t
        BY <1>3, <1>9, <2>2 DEF TableOk
      <4> QED BY <4>1
    <3>2. so[t].id # i
      BY <3>1, <1>5, <1>7, <1>9
    <3> QED BY <3>1, <3>2, <1>4
  <2> QED BY <2>1, <2>2
<1>10. tb[0] = NoSock /\ 0 \notin bitmap \cup {i} /\ bitmap \cup {i} \subseteq Ident
  BY <1>4, <1>5 DEF TableOk
<1>11. \A j \in 0..(MaxCallid - 1) : j \notin bitmap \cup {i} => tb[j] = NoSock
  BY <1>4, <1>5 DEF TableOk
<1> QED BY <1>1, <1>2, <1>4, <1>8, <1>9, <1>10, <1>11 DEF TableOk

LEMMA TableFreed ==
    ASSUME GreConfig, NEW table, NEW bitmap, NEW so, so = [s \in Socks |-> so[s]],
           TableOk(table, bitmap, so), \A t \in Socks : so[t].id \in Ident, NEW s \in Socks,
           Bound(so[s]) \/ so[s].id = 0,
           NEW q, ~Bound(q)
    PROVE  TableOk([table EXCEPT ![so[s].id] = NoSock], bitmap \ {so[s].id}, [so EXCEPT ![s] = q])
<1>1. PICK n : n = [so EXCEPT ![s] = q]
  OBVIOUS
<1>2. PICK i \in Ident : i = so[s].id
  OBVIOUS
<1>3. PICK tb : tb = [table EXCEPT ![i] = NoSock]
  OBVIOUS
<1>4. \A t \in Socks : n[t] = IF t = s THEN q ELSE so[t]
  BY <1>1
<1>5. /\ tb \in [Ident -> Socks \cup {NoSock}]
      /\ \A j \in Ident : tb[j] = IF j = i THEN NoSock ELSE table[j]
  BY <1>3 DEF TableOk
<1>6. 0 \in Ident /\ MaxCallid \in Nat /\ NoSock \notin Socks /\ 0..(MaxCallid - 1) \subseteq Ident
  BY DEF GreConfig, Ident
<1>7. \A j \in Ident, t \in Socks : tb[j] = t => Bound(n[t]) /\ n[t].id = j
  <2> SUFFICES ASSUME NEW j \in Ident, NEW t \in Socks, tb[j] = t
               PROVE  Bound(n[t]) /\ n[t].id = j
    OBVIOUS
  <2>1. j # i /\ table[j] = t
    BY <1>5, <1>6
  <2>2. Bound(so[t]) /\ so[t].id = j
    BY <2>1 DEF TableOk
  <2>3. t # s
    BY <1>2, <2>1, <2>2
  <2> QED BY <1>4, <2>2, <2>3
<1>8. ASSUME NEW t \in Socks, Bound(n[t]), n[t].id # MaxCallid PROVE tb[n[t].id] = t
  <2>1. t # s /\ n[t] = so[t]
    BY <1>4, <1>8
  <2>2. table[so[t].id] = t
    BY <1>8, <2>1 DEF TableOk
  <2>3. so[t].id # i
    <3>1. CASE i = 0
      BY <1>6, <2>2, <3>1 DEF TableOk
    <3>2. CASE i # 0 /\ so[t].id = i
      <4>1. Bound(so[s]) /\ so[s].id # MaxCallid
        BY <1>2, <3>2, <1>8, <2>1
      <4>2. table[i] = s
        BY <1>2, <4>1 DEF TableOk
      <4> QED BY <2>1, <2>2, <3>2, <4>2
    <3> QED BY <3>1, <3>2
  <2>4. so[t].id \in Ident
    OBVIOUS
  <2> QED BY <1>5, <2>1, <2>2, <2>3, <2>4
<1>9. tb[0] = NoSock /\ 0 \notin bitmap \ {i} /\ bitmap \ {i} \subseteq Ident
  BY <1>5, <1>6 DEF TableOk
<1>10. \A j \in 0..(MaxCallid - 1) : j \notin bitmap \ {i} => tb[j] = NoSock
  BY <1>5, <1>6 DEF TableOk
<1> QED BY <1>1, <1>2, <1>3, <1>5, <1>7, <1>8, <1>9, <1>10 DEF TableOk

-----------------------------------------------------------------------------
(* The operators that change a socket.                                     *)

LEMMA SockIs ==
    ASSUME NEW o, IsSock(o)
    PROVE  /\ o.id \in Ident /\ o.refs \in Nat
           /\ o.st \in {"absent", "none", "bound", "connected", "closing", "dead"}
           /\ ~Bound(o) <=> o.st \in {"absent", "none", "closing", "dead"}
           /\ Own(o) = IF o.st \in {"absent", "dead"} THEN 0 ELSE 1
BY DEF IsSock, Bound, Own

LEMMA NewSocks ==
    ASSUME GreConfig
    PROVE  /\ IsSock(NewSock) /\ SockOk(NewSock, 0) /\ NewSock.st = "none" /\ NewSock.seq_recv = 0
           /\ IsSock(Absent) /\ SockOk(Absent, 0) /\ Absent.st = "absent" /\ Absent.id = 0
<1>1. 0 \in Ident
  BY DEF GreConfig, Ident
<1>2. Absent = [st |-> "absent", id |-> 0, dst |-> NoPeer, want |-> NoPeer, refs |-> 0, seq_sent |-> 0,
                seq_recv |-> 0, ack_sent |-> 0, ack_recv |-> 0, queued |-> 0]
  <2>1. PICK a : a = [NewSock EXCEPT !.st = "absent"]
    OBVIOUS
  <2>2. a = [st |-> "absent", id |-> 0, dst |-> NoPeer, want |-> NoPeer, refs |-> 1, seq_sent |-> 0,
             seq_recv |-> 0, ack_sent |-> 0, ack_recv |-> 0, queued |-> 0]
    BY <2>1 DEF NewSock
  <2>3. Absent = [a EXCEPT !.refs = 0]
    BY <2>1 DEF Absent
  <2> QED BY <2>2, <2>3
<1>3. IsSock(NewSock) /\ SockOk(NewSock, 0) /\ NewSock.st = "none" /\ NewSock.seq_recv = 0
  BY <1>1 DEF NewSock, IsSock, SockOk, Own
<1>4. IsSock(Absent) /\ SockOk(Absent, 0) /\ Absent.st = "absent" /\ Absent.id = 0
  BY <1>1, <1>2 DEF IsSock, SockOk, Own
<1> QED BY <1>3, <1>4

LEMMA HeldIs ==
    ASSUME NEW rx, NEW s
    PROVE  /\ Held(rx, s) \in {0, 1}
           /\ rx.at = "found" /\ rx.s = s => Held(rx, s) = 1
           /\ ~(rx.at = "found" /\ rx.s = s) => Held(rx, s) = 0
BY DEF Held

(* A reference is given back.                                              *)
Less(o) == IF o.refs = 1 THEN Absent ELSE [o EXCEPT !.refs = @ - 1]

LEMMA PutIs ==
    ASSUME NEW g, g.so = [s \in Socks |-> g.so[s]], GreShaped(g), NEW s \in Socks
    PROVE  Put(g, s) = [g EXCEPT !.so[s] = Less(g.so[s])]
<1>1. CASE g.so[s].refs = 1
  BY <1>1 DEF Put, Less
<1>2. CASE g.so[s].refs # 1
  <2>1. Less(g.so[s]) = [g.so[s] EXCEPT !.refs = @ - 1]
    BY <1>2 DEF Less
  <2>2. Put(g, s) = [g EXCEPT !.so[s].refs = @ - 1]
    BY <1>2 DEF Put
  <2>3. [g EXCEPT !.so[s].refs = @ - 1] = [g EXCEPT !.so[s] = [g.so[s] EXCEPT !.refs = @ - 1]]
    BY DEF GreShaped
  <2> QED BY <2>1, <2>2, <2>3
<1> QED BY <1>1, <1>2

LEMMA LessOk ==
    ASSUME GreConfig, NEW o, IsSock(o), NEW h \in {0, 1}, o.refs = Own(o) + h + 1,
           o.want # NoPeer => o.st = "bound", o.st = "none" => o.id = 0,
           o.st # "absent"
    PROVE  /\ SockOk(Less(o), h)
           /\ \/ ~Bound(o) /\ ~Bound(Less(o))
              \/ (Bound(Less(o)) <=> Bound(o)) /\ Less(o).id = o.id
           /\ Less(o).st = "absent" \/ (Less(o).st = o.st /\ Less(o).seq_recv = o.seq_recv)
<1>1. Own(o) \in {0, 1} /\ o.refs \in Nat
  BY SockIs
<1>2. CASE o.refs = 1
  <2>1. Less(o) = Absent /\ h = 0 /\ Own(o) = 0
    BY <1>1, <1>2 DEF Less
  <2>2. ~Bound(o) /\ ~Bound(Absent)
    BY <2>1, NewSocks DEF Own, Bound
  <2> QED BY <2>1, <2>2, NewSocks
<1>3. CASE o.refs # 1
  <2>1. PICK k \in Nat : k = o.refs - 1 /\ k = Own(o) + h
    BY <1>1
  <2>2. Less(o) = [o EXCEPT !.refs = k]
    BY <1>3, <2>1 DEF Less
  <2>3. /\ IsSock(Less(o)) /\ Less(o).st = o.st /\ Less(o).id = o.id /\ Less(o).refs = k
        /\ Less(o).want = o.want /\ Less(o).seq_recv = o.seq_recv
    BY <2>2 DEF IsSock
  <2>4. Own(Less(o)) = Own(o) /\ (Bound(Less(o)) <=> Bound(o))
    BY <2>3 DEF Own, Bound
  <2> QED BY <2>1, <2>3, <2>4 DEF SockOk
<1> QED BY <1>2, <1>3

-----------------------------------------------------------------------------
(* The steps of the data channel.                                          *)

GreKept(n) == GreOk(n) /\ (NumbersDoNotWrap /\ Ordered(gre) => Ordered(n))

(* A step of one socket, without the packet in hand.                       *)
LEMMA OneSock ==
    ASSUME GreOk(gre), GreShaped(gre'), NEW s \in Socks, NEW q, NEW l,
           gre'.so = [gre.so EXCEPT ![s] = q], gre'.last = [gre.last EXCEPT ![s] = l],
           gre'.rx = gre.rx, gre'.wrong = gre.wrong, gre'.missed = gre.missed,
           SockOk(q, Held(gre.rx, s)), TableOk(gre'.table, gre'.bitmap, gre'.so),
           NumbersDoNotWrap /\ InOrder(gre.so[s], gre.last[s]) => InOrder(q, l)
    PROVE  GreKept(gre')
<1>1. \A t \in Socks : gre'.so[t] = IF t = s THEN q ELSE gre.so[t]
  BY DEF GreOk, GreShaped
<1>2. \A t \in Socks : gre'.last[t] = IF t = s THEN l ELSE gre.last[t]
  BY DEF GreOk, GreShaped
<1>3. \A t \in Socks : SockOk(gre'.so[t], Held(gre'.rx, t))
  BY <1>1 DEF GreOk
<1>4. GreOk(gre')
  BY <1>3 DEF GreOk
<1>5. NumbersDoNotWrap /\ Ordered(gre) => Ordered(gre')
  BY <1>1, <1>2 DEF Ordered
<1> QED BY <1>4, <1>5 DEF GreKept

(* The facts a step uses of the socket it changes.                         *)
LEMMA SockFacts ==
    ASSUME GreOk(gre), NEW s \in Socks
    PROVE  /\ IsSock(gre.so[s]) /\ SockOk(gre.so[s], Held(gre.rx, s))
           /\ gre.so = [t \in Socks |-> gre.so[t]] /\ \A t \in Socks : gre.so[t].id \in Ident
           /\ TableOk(gre.table, gre.bitmap, gre.so)
           /\ gre.last = [gre.last EXCEPT ![s] = gre.last[s]]
           /\ Held(gre.rx, s) \in {0, 1}
<1>1. \A t \in Socks : IsSock(gre.so[t])
  BY DEF GreOk, SockOk
<1>2. \A t \in Socks : gre.so[t].id \in Ident
  BY <1>1, SockIs
<1> QED BY <1>1, <1>2, HeldIs DEF GreOk, GreShaped

LEMMA CreateStep ==
    ASSUME GreConfig, GreOk(gre), NEW s \in Socks, gre.so[s].st = "absent",
           gre' = pptp_create([gre EXCEPT !.left = @ - 1, !.sent[s] = 0, !.last[s] = 0], s)
    PROVE  GreKept(gre')
<1>1. PICK g : g = [gre EXCEPT !.left = @ - 1, !.sent[s] = 0, !.last[s] = 0]
  OBVIOUS
<1>2. /\ GreShaped(g) /\ g.so = gre.so /\ g.last = [gre.last EXCEPT ![s] = 0] /\ g.rx = gre.rx
      /\ g.wrong = gre.wrong /\ g.missed = gre.missed /\ g.table = gre.table /\ g.bitmap = gre.bitmap
  BY <1>1 DEF GreOk, GreShaped
<1>3. gre' = [g EXCEPT !.so[s] = NewSock]
  BY <1>1 DEF pptp_create
<1>4. /\ GreShaped(gre') /\ gre'.so = [gre.so EXCEPT ![s] = NewSock] /\ gre'.last = [gre.last EXCEPT ![s] = 0]
      /\ gre'.rx = gre.rx /\ gre'.wrong = gre.wrong /\ gre'.missed = gre.missed
      /\ gre'.table = gre.table /\ gre'.bitmap = gre.bitmap
  BY <1>2, <1>3 DEF GreShaped
<1>5. Held(gre.rx, s) = 0
  BY SockFacts DEF SockOk
<1>6. ~Bound(NewSock) /\ ~Bound(gre.so[s])
  BY NewSocks DEF Bound
<1>7. TableOk(gre'.table, gre'.bitmap, gre'.so)
  <2>1. /\ gre.so = [t \in Socks |-> gre.so[t]]
        /\ TableOk(gre.table, gre.bitmap, gre.so)
    BY SockFacts
  <2>2. TableOk(gre.table, gre.bitmap, [gre.so EXCEPT ![s] = NewSock])
    BY <1>6, <2>1, TableKeptUnbound, Zenon
  <2> QED BY <1>4, <2>2
<1>8. NumbersDoNotWrap /\ gre.sc \in GreScenarios => InOrder(NewSock, 0)
  <2> SUFFICES ASSUME NumbersDoNotWrap, gre.sc \in GreScenarios PROVE 0 \in Numbers
    BY NewSocks DEF InOrder
  <2> QED BY DEF NumbersDoNotWrap, GreConfig, Numbers
<1>9. gre.sc \in GreScenarios
  BY DEF GreOk, GreShaped
<1> QED BY <1>4, <1>5, <1>7, <1>8, <1>9, NewSocks, OneSock

LEMMA BindStep ==
    ASSUME GreConfig, GreOk(gre), NEW s \in Socks, gre.so[s].st = "none", gre' = pptp_bind(gre, s)
    PROVE  GreKept(gre')
<1>1. PICK o : o = [gre.so[s] EXCEPT !.st = "bound"]
  OBVIOUS
<1>2. /\ IsSock(o) /\ o.st = "bound" /\ o.refs = gre.so[s].refs /\ o.seq_recv = gre.so[s].seq_recv
  <2>1. PICK a : a = gre.so[s]
    OBVIOUS
  <2>2. IsSock(a) /\ o = [a EXCEPT !.st = "bound"]
    BY <1>1, <2>1, SockFacts
  <2>3. IsSock(o) /\ o.st = "bound" /\ o.refs = a.refs /\ o.seq_recv = a.seq_recv
    BY <2>2 DEF IsSock
  <2> QED BY <2>1, <2>3
<1>3. PICK g : g = [gre EXCEPT !.so[s].st = "bound"]
  OBVIOUS
<1>4. /\ GreShaped(g) /\ g.so = [gre.so EXCEPT ![s] = o] /\ g.last = gre.last /\ g.rx = gre.rx
      /\ g.wrong = gre.wrong /\ g.missed = gre.missed /\ g.table = gre.table /\ g.bitmap = gre.bitmap
      /\ g.call_id = gre.call_id
  <2>1. g = [gre EXCEPT !.so[s] = o]
    BY <1>1, <1>3 DEF GreOk, GreShaped
  <2> QED BY <2>1 DEF GreOk, GreShaped
<1>5. \E i \in Ident : /\ gre' = Placed(g, s, i)
                       /\ i # 0 /\ (i = MaxCallid \/ i \notin gre.bitmap)
  <2>1. g.call_id + 1 \in Nat \ {0}
    BY <1>4 DEF GreShaped, Ident, GreConfig
  <2>2. PICK a : a = find_next_zero_bit(g.bitmap, g.call_id + 1)
    OBVIOUS
  <2>3. PICK b : b = find_next_zero_bit(g.bitmap, 1)
    OBVIOUS
  <2>4. /\ a \in Ident /\ a # 0 /\ (a = MaxCallid \/ a \notin gre.bitmap)
        /\ b \in Ident /\ b # 0 /\ (b = MaxCallid \/ b \notin gre.bitmap)
    BY <1>4, <2>1, <2>2, <2>3, NextZeroBit
  <2>5. gre' = Placed(g, s, IF a = MaxCallid THEN b ELSE a)
    BY <1>3, <2>2, <2>3 DEF pptp_bind, add_chan
  <2> QED BY <2>4, <2>5
<1>6. PICK i \in Ident : /\ gre' = Placed(g, s, i)
                         /\ i # 0 /\ (i = MaxCallid \/ i \notin gre.bitmap)
  BY <1>5
<1>7. PICK q : q = [o EXCEPT !.id = i]
  OBVIOUS
<1>8. IsSock(q) /\ q.st = "bound" /\ q.id = i /\ q.refs = o.refs /\ q.seq_recv = o.seq_recv /\ q.want = o.want
  BY <1>2, <1>7 DEF IsSock
<1>9. /\ GreShaped(gre') /\ gre'.so = [gre.so EXCEPT ![s] = q] /\ gre'.last = gre.last
      /\ gre'.rx = gre.rx /\ gre'.wrong = gre.wrong /\ gre'.missed = gre.missed
      /\ gre'.table = [gre.table EXCEPT ![i] = s] /\ gre'.bitmap = gre.bitmap \cup {i}
  <2>1. g.so[s] = o
    BY <1>4, SockFacts
  <2>2. gre' = [g EXCEPT !.so[s] = q, !.call_id = i, !.table[i] = s, !.bitmap = @ \cup {i}]
    BY <1>6, <1>7, <2>1 DEF Placed, GreShaped
  <2>3. /\ GreShaped(gre') /\ gre'.so = [g.so EXCEPT ![s] = q] /\ gre'.last = g.last
        /\ gre'.rx = g.rx /\ gre'.wrong = g.wrong /\ gre'.missed = g.missed
        /\ gre'.table = [g.table EXCEPT ![i] = s] /\ gre'.bitmap = g.bitmap \cup {i}
    BY <1>4, <2>2 DEF GreShaped
  <2>4. [g.so EXCEPT ![s] = q] = [gre.so EXCEPT ![s] = q]
    BY <1>4, SockFacts
  <2> QED BY <1>4, <2>3, <2>4
<1>10. ~Bound(gre.so[s]) /\ Bound(q)
  BY <1>8 DEF Bound
<1>11. TableOk(gre'.table, gre'.bitmap, gre'.so)
  <2>1. /\ gre.so = [t \in Socks |-> gre.so[t]] /\ \A t \in Socks : gre.so[t].id \in Ident
        /\ TableOk(gre.table, gre.bitmap, gre.so)
    BY SockFacts
  <2>2. TableOk([gre.table EXCEPT ![i] = s], gre.bitmap \cup {i}, [gre.so EXCEPT ![s] = q])
    BY <1>6, <1>8, <1>10, <2>1, TablePlaced, Zenon
  <2> QED BY <1>9, <2>2
<1>12. SockOk(q, Held(gre.rx, s))
  <2>1. gre.so[s].refs = Own(gre.so[s]) + Held(gre.rx, s) /\ Own(gre.so[s]) = 1 /\ Own(q) = 1
    BY <1>8, SockFacts DEF SockOk, Own
  <2> QED BY <1>2, <1>8, <2>1 DEF SockOk
<1>13. InOrder(gre.so[s], gre.last[s]) => InOrder(q, gre.last[s])
  BY <1>2, <1>8 DEF InOrder
<1>14. gre'.last = [gre.last EXCEPT ![s] = gre.last[s]]
  BY <1>9, SockFacts
<1> QED BY <1>9, <1>11, <1>12, <1>13, <1>14, OneSock

(* A step that changes one socket and nothing else the invariant reads.    *)
LEMMA SockStep ==
    ASSUME GreConfig, GreOk(gre), NEW s \in Socks, NEW q, gre' = [gre EXCEPT !.so[s] = q],
           IsSock(q), q.id = gre.so[s].id, q.refs = gre.so[s].refs,
           q.seq_recv = gre.so[s].seq_recv, q.want # NoPeer => q.st = "bound",
           \/ q.st = gre.so[s].st
           \/ gre.so[s].st = "bound" /\ q.st = "connected"
    PROVE  GreKept(gre')
<1>1. /\ GreShaped(gre') /\ gre'.so = [gre.so EXCEPT ![s] = q] /\ gre'.last = gre.last
      /\ gre'.rx = gre.rx /\ gre'.wrong = gre.wrong /\ gre'.missed = gre.missed
      /\ gre'.table = gre.table /\ gre'.bitmap = gre.bitmap
  BY DEF GreOk, GreShaped
<1>2. gre'.last = [gre.last EXCEPT ![s] = gre.last[s]]
  BY <1>1, SockFacts
<1>3. (Bound(q) <=> Bound(gre.so[s])) /\ Own(q) = Own(gre.so[s])
  BY DEF Bound, Own
<1>4. TableOk(gre'.table, gre'.bitmap, gre'.so)
  <2>1. gre.so = [t \in Socks |-> gre.so[t]] /\ TableOk(gre.table, gre.bitmap, gre.so)
    BY SockFacts
  <2>2. TableOk(gre.table, gre.bitmap, [gre.so EXCEPT ![s] = q])
    BY <1>3, <2>1, TableKept, Zenon
  <2> QED BY <1>1, <2>2
<1>5. SockOk(q, Held(gre.rx, s))
  <2>1. SockOk(gre.so[s], Held(gre.rx, s))
    BY SockFacts
  <2> QED BY <1>3, <2>1 DEF SockOk
<1>6. InOrder(gre.so[s], gre.last[s]) => InOrder(q, gre.last[s])
  BY DEF InOrder
<1> QED BY <1>1, <1>2, <1>4, <1>5, <1>6, OneSock

LEMMA StutterStep ==
    ASSUME GreOk(gre), gre' = gre
    PROVE  GreKept(gre')
BY DEF GreKept

LEMMA ConnectStep ==
    ASSUME GreConfig, GreOk(gre), NEW s \in Socks, gre.so[s].st = "bound",
           NEW peer, gre' = pptp_connect(gre, s, peer)
    PROVE  GreKept(gre')
<1>1. PICK a : a = gre.so[s]
  OBVIOUS
<1>2. PICK q : q = [a EXCEPT !.want = peer]
  OBVIOUS
<1>3. IsSock(a)
  BY <1>1, SockFacts
<1>4. IsSock(q) /\ q.st = a.st /\ q.id = a.id /\ q.refs = a.refs /\ q.seq_recv = a.seq_recv
  BY <1>2, <1>3 DEF IsSock
<1>5. [gre EXCEPT !.so[s].want = peer] = [gre EXCEPT !.so[s] = q]
  BY <1>1, <1>2 DEF GreOk, GreShaped
<1>6. gre' = gre \/ gre' = [gre EXCEPT !.so[s] = q]
  BY <1>5 DEF pptp_connect
<1> QED BY <1>1, <1>4, <1>6, SockStep, StutterStep

LEMMA ConnectedStep ==
    ASSUME GreConfig, GreOk(gre), NEW s \in Socks, gre.so[s].want # NoPeer,
           NEW ok, gre' = Connected(gre, s, ok)
    PROVE  GreKept(gre')
<1>1. PICK a : a = gre.so[s]
  OBVIOUS
<1>2. IsSock(a) /\ a.st = "bound"
  BY <1>1, SockFacts DEF SockOk
<1>3. CASE ok
  <2>1. PICK b : b = [a EXCEPT !.dst = a.want]
    OBVIOUS
  <2>2. PICK c : c = [b EXCEPT !.st = "connected"]
    OBVIOUS
  <2>3. PICK q : q = [c EXCEPT !.want = NoPeer]
    OBVIOUS
  <2>4. IsSock(b) /\ b.id = a.id /\ b.refs = a.refs /\ b.seq_recv = a.seq_recv
    BY <1>2, <2>1 DEF IsSock
  <2>5. IsSock(c) /\ c.st = "connected" /\ c.id = a.id /\ c.refs = a.refs /\ c.seq_recv = a.seq_recv
    BY <2>2, <2>4 DEF IsSock
  <2>6. /\ IsSock(q) /\ q.st = "connected" /\ q.id = a.id /\ q.refs = a.refs
        /\ q.seq_recv = a.seq_recv /\ q.want = NoPeer
    BY <2>3, <2>5 DEF IsSock
  <2>7. gre' = [gre EXCEPT !.so[s] = q]
    BY <1>1, <1>3, <2>1, <2>2, <2>3 DEF Connected, GreOk, GreShaped
  <2> QED BY <1>1, <1>2, <2>6, <2>7, SockStep
<1>4. CASE ~ok
  <2>1. PICK q : q = [a EXCEPT !.want = NoPeer]
    OBVIOUS
  <2>2. /\ IsSock(q) /\ q.st = a.st /\ q.id = a.id /\ q.refs = a.refs
        /\ q.seq_recv = a.seq_recv /\ q.want = NoPeer
    BY <1>2, <2>1 DEF IsSock
  <2>3. gre' = [gre EXCEPT !.so[s] = q]
    BY <1>1, <1>4, <2>1 DEF Connected, GreOk, GreShaped
  <2> QED BY <1>1, <2>2, <2>3, SockStep
<1> QED BY <1>3, <1>4

LEMMA XmitStep ==
    ASSUME GreConfig, GreOk(gre), NEW s \in Socks, gre.so[s].st = "connected", gre' = pptp_xmit(gre, s)
    PROVE  GreKept(gre')
<1>1. PICK a : a = gre.so[s]
  OBVIOUS
<1>2. IsSock(a) /\ a.want = NoPeer
  BY <1>1, SockFacts DEF SockOk
<1>3. PICK x : x = (a.seq_sent + 1) % SeqMod
  OBVIOUS
<1>4. PICK b : b = [a EXCEPT !.seq_sent = x]
  OBVIOUS
<1>5. PICK q : q = [b EXCEPT !.ack_sent = a.seq_recv]
  OBVIOUS
<1>6. IsSock(b) /\ b.st = a.st /\ b.id = a.id /\ b.refs = a.refs /\ b.seq_recv = a.seq_recv /\ b.want = NoPeer
  BY <1>2, <1>4 DEF IsSock
<1>7. IsSock(q) /\ q.st = a.st /\ q.id = a.id /\ q.refs = a.refs /\ q.seq_recv = a.seq_recv /\ q.want = NoPeer
  BY <1>5, <1>6 DEF IsSock
<1>8. gre' = [gre EXCEPT !.so[s] = q]
  BY <1>1, <1>3, <1>4, <1>5 DEF pptp_xmit, GreOk, GreShaped
<1> QED BY <1>1, <1>7, <1>8, SockStep

LEMMA ReleaseStep ==
    ASSUME GreConfig, GreOk(gre), NEW s \in Socks, gre.so[s].st \in {"none", "bound", "connected"},
           gre.so[s].want = NoPeer, gre' = pptp_release(gre, s)
    PROVE  GreKept(gre')
<1>1. PICK a : a = gre.so[s]
  OBVIOUS
<1>2. PICK q : q = [a EXCEPT !.st = "closing"]
  OBVIOUS
<1>3. IsSock(a) /\ SockOk(a, Held(gre.rx, s)) /\ a.want = NoPeer /\ a.id \in Ident
  BY <1>1, SockFacts
<1>4. IsSock(q) /\ q.st = "closing" /\ q.id = a.id /\ q.refs = a.refs /\ q.seq_recv = a.seq_recv /\ q.want = NoPeer
  BY <1>2, <1>3 DEF IsSock
<1>5. PICK g : g = [gre EXCEPT !.so[s].st = "closing"]
  OBVIOUS
<1>6. g = [gre EXCEPT !.so[s] = q]
  BY <1>1, <1>2, <1>5 DEF GreOk, GreShaped
<1>7. /\ GreShaped(g) /\ g.so = [gre.so EXCEPT ![s] = q] /\ g.last = gre.last
      /\ g.rx = gre.rx /\ g.wrong = gre.wrong /\ g.missed = gre.missed
      /\ g.table = gre.table /\ g.bitmap = gre.bitmap /\ g.so[s] = q
  BY <1>6 DEF GreOk, GreShaped
<1>8. \E w : gre' = [g EXCEPT !.bitmap = @ \ {a.id}, !.table[a.id] = NoSock, !.wait[s] = w]
  <2>1. gre' = del_chan(g, s)
    BY <1>5 DEF pptp_release
  <2>2. g.so[s].id = a.id
    BY <1>4, <1>7
  <2> QED BY <2>1, <2>2 DEF del_chan
<1>9. /\ GreShaped(gre') /\ gre'.so = g.so /\ gre'.last = g.last
      /\ gre'.rx = g.rx /\ gre'.wrong = g.wrong /\ gre'.missed = g.missed
      /\ gre'.table = [g.table EXCEPT ![a.id] = NoSock] /\ gre'.bitmap = g.bitmap \ {a.id}
  <2>1. PICK w : gre' = [g EXCEPT !.bitmap = @ \ {a.id}, !.table[a.id] = NoSock, !.wait[s] = w]
    BY <1>8
  <2>2. /\ gre'.so = g.so /\ gre'.last = g.last
        /\ gre'.rx = g.rx /\ gre'.wrong = g.wrong /\ gre'.missed = g.missed
        /\ gre'.table = [g.table EXCEPT ![a.id] = NoSock] /\ gre'.bitmap = g.bitmap \ {a.id}
    BY <1>7, <2>1 DEF GreShaped
  <2>3. GreShaped(gre')
    BY <1>7, <2>1 DEF GreShaped
  <2> QED BY <2>2, <2>3
<1>10. TableOk(gre'.table, gre'.bitmap, gre'.so)
  <2>1. /\ gre.so = [t \in Socks |-> gre.so[t]] /\ \A t \in Socks : gre.so[t].id \in Ident
        /\ TableOk(gre.table, gre.bitmap, gre.so)
    BY SockFacts
  <2>2. ~Bound(q) /\ (Bound(gre.so[s]) \/ gre.so[s].id = 0)
    BY <1>1, <1>3, <1>4 DEF Bound, SockOk
  <2>3. TableOk([gre.table EXCEPT ![gre.so[s].id] = NoSock], gre.bitmap \ {gre.so[s].id}, [gre.so EXCEPT ![s] = q])
    BY <2>1, <2>2, TableFreed, Zenon
  <2> QED BY <1>1, <1>7, <1>9, <2>3
<1>11. SockOk(q, Held(gre.rx, s))
  <2>1. Own(a) = 1 /\ Own(q) = 1
    BY <1>1, <1>4 DEF Own
  <2> QED BY <1>3, <1>4, <2>1 DEF SockOk
<1>12. InOrder(gre.so[s], gre.last[s]) => InOrder(q, gre.last[s])
  BY <1>1, <1>4 DEF InOrder
<1>13. gre'.last = [gre.last EXCEPT ![s] = gre.last[s]]
  BY <1>7, <1>9, SockFacts
<1>14. /\ GreShaped(gre') /\ gre'.so = [gre.so EXCEPT ![s] = q]
       /\ gre'.rx = gre.rx /\ gre'.wrong = gre.wrong /\ gre'.missed = gre.missed
  BY <1>7, <1>9
<1> QED BY <1>10, <1>11, <1>12, <1>13, <1>14, OneSock

LEMMA UnboundStep ==
    ASSUME GreConfig, GreOk(gre), NEW s \in Socks, gre.so[s].st = "closing", gre' = Unbound(gre, s)
    PROVE  GreKept(gre')
<1>1. PICK a : a = gre.so[s]
  OBVIOUS
<1>2. PICK o : o = [a EXCEPT !.st = "dead"]
  OBVIOUS
<1>3. IsSock(a) /\ SockOk(a, Held(gre.rx, s)) /\ Held(gre.rx, s) \in {0, 1}
  BY <1>1, SockFacts
<1>4. IsSock(o) /\ o.st = "dead" /\ o.id = a.id /\ o.refs = a.refs /\ o.seq_recv = a.seq_recv /\ o.want = a.want
  BY <1>2, <1>3 DEF IsSock
<1>5. PICK g : g = [gre EXCEPT !.so[s].st = "dead"]
  OBVIOUS
<1>6. g = [gre EXCEPT !.so[s] = o]
  BY <1>1, <1>2, <1>5 DEF GreOk, GreShaped
<1>7. /\ GreShaped(g) /\ g.so = [gre.so EXCEPT ![s] = o] /\ g.last = gre.last
      /\ g.rx = gre.rx /\ g.wrong = gre.wrong /\ g.missed = gre.missed
      /\ g.table = gre.table /\ g.bitmap = gre.bitmap /\ g.so[s] = o
  BY <1>6 DEF GreOk, GreShaped
<1>8. gre' = [g EXCEPT !.so[s] = Less(o)]
  <2>1. gre' = Put(g, s)
    BY <1>5 DEF Unbound
  <2> QED BY <1>7, <2>1, PutIs DEF GreShaped
<1>9. /\ GreShaped(gre') /\ gre'.so = [g.so EXCEPT ![s] = Less(o)] /\ gre'.last = g.last
      /\ gre'.rx = g.rx /\ gre'.wrong = g.wrong /\ gre'.missed = g.missed
      /\ gre'.table = g.table /\ gre'.bitmap = g.bitmap
  BY <1>7, <1>8 DEF GreShaped
<1>10. gre'.so = [gre.so EXCEPT ![s] = Less(o)]
  BY <1>7, <1>9, SockFacts
<1>11. o.refs = Own(o) + Held(gre.rx, s) + 1
  <2>1. Own(a) = 1 /\ Own(o) = 0
    BY <1>1, <1>4 DEF Own
  <2> QED BY <1>3, <1>4, <2>1 DEF SockOk
<1>12. o.want = NoPeer
  BY <1>1, <1>3, <1>4 DEF SockOk
<1>13. /\ SockOk(Less(o), Held(gre.rx, s))
       /\ \/ ~Bound(o) /\ ~Bound(Less(o))
          \/ (Bound(Less(o)) <=> Bound(o)) /\ Less(o).id = o.id
       /\ Less(o).st = "absent" \/ (Less(o).st = o.st /\ Less(o).seq_recv = o.seq_recv)
  BY <1>3, <1>4, <1>11, <1>12, LessOk
<1>14. ~Bound(gre.so[s]) /\ ~Bound(Less(o))
  BY <1>4, <1>13 DEF Bound
<1>15. TableOk(gre'.table, gre'.bitmap, gre'.so)
  <2>1. gre.so = [t \in Socks |-> gre.so[t]] /\ TableOk(gre.table, gre.bitmap, gre.so)
    BY SockFacts
  <2>2. TableOk(gre.table, gre.bitmap, [gre.so EXCEPT ![s] = Less(o)])
    BY <1>14, <2>1, TableKeptUnbound, Zenon
  <2> QED BY <1>7, <1>9, <1>10, <2>2
<1>16. InOrder(gre.so[s], gre.last[s]) => InOrder(Less(o), gre.last[s])
  BY <1>1, <1>4, <1>13 DEF InOrder
<1>17. gre'.last = [gre.last EXCEPT ![s] = gre.last[s]]
  BY <1>7, <1>9, SockFacts
<1> QED BY <1>7, <1>9, <1>10, <1>13, <1>15, <1>16, <1>17, OneSock

(* A packet is looked up and its socket is held.                           *)
LEMMA FoundStep ==
    ASSUME GreConfig, GreOk(gre), NEW s \in Socks, gre.rx.at = "idle", NEW x, NEW p, p.n \in 1..gre.sc.sent,
           NEW i \in Ident, NEW peer, gre' = pptp_rcv([gre EXCEPT !.sent[s] = x], p, i, peer)
    PROVE  GreKept(gre')
<1>1. PICK g : g = [gre EXCEPT !.sent[s] = x]
  OBVIOUS
<1>2. /\ GreShaped(g) /\ g.so = gre.so /\ g.last = gre.last /\ g.rx = gre.rx /\ g.wrong = gre.wrong
      /\ g.missed = gre.missed /\ g.table = gre.table /\ g.bitmap = gre.bitmap
  BY <1>1 DEF GreOk, GreShaped
<1>3. gre.sc \in GreScenarios /\ gre.sc.sent \in Nat /\ p.n \in Nat /\ (NumbersDoNotWrap => p.n \in Numbers)
  <2>1. gre.sc \in GreScenarios
    BY DEF GreOk, GreShaped
  <2>2. gre.sc.sent \in Nat /\ p.n \in Nat /\ p.n <= gre.sc.sent
    BY <2>1 DEF GreConfig
  <2>3. NumbersDoNotWrap => p.n < SeqMod - Zone
    BY <2>1, <2>2 DEF NumbersDoNotWrap, GreConfig
  <2> QED BY <2>1, <2>2, <2>3 DEF Numbers
<1>4. PICK t : t = lookup_chan(g, i, peer)
  OBVIOUS
<1>5. CASE t = NoSock
  <2>1. gre' = g
    BY <1>1, <1>4, <1>5 DEF pptp_rcv
  <2>2. GreOk(gre') /\ (Ordered(gre) => Ordered(gre'))
    BY <1>2, <2>1 DEF GreOk, Ordered
  <2> QED BY <2>2 DEF GreKept
<1>6. CASE t # NoSock
  <2>1. t \in Socks /\ g.table[i] = t
    BY <1>2, <1>4, <1>6 DEF lookup_chan, GreOk, TableOk
  <2>2. Bound(gre.so[t])
    BY <1>2, <2>1 DEF GreOk, TableOk
  <2>3. PICK a : a = gre.so[t]
    OBVIOUS
  <2>4. IsSock(a) /\ SockOk(a, Held(gre.rx, t)) /\ a.refs \in Nat
    BY <2>1, <2>3, SockFacts, SockIs
  <2>5. PICK k \in Nat : k = a.refs + 1
    BY <2>4
  <2>6. PICK q : q = [a EXCEPT !.refs = k]
    OBVIOUS
  <2>7. IsSock(q) /\ q.st = a.st /\ q.id = a.id /\ q.refs = k /\ q.seq_recv = a.seq_recv /\ q.want = a.want
    BY <2>4, <2>6 DEF IsSock
  <2>8. PICK r : r = [at |-> "found", s |-> t, p |-> p]
    OBVIOUS
  <2>9. gre' = [g EXCEPT !.so[t] = q, !.rx = r]
    <3>1. gre' = [g EXCEPT !.so[t].refs = @ + 1, !.rx = r]
      BY <1>1, <1>4, <1>6, <2>8 DEF pptp_rcv
    <3> QED BY <1>2, <2>3, <2>5, <2>6, <3>1 DEF GreShaped
  <2>10. /\ GreShaped(gre') /\ gre'.so = [gre.so EXCEPT ![t] = q] /\ gre'.last = gre.last
         /\ gre'.rx = r /\ gre'.wrong = gre.wrong /\ gre'.missed = gre.missed
         /\ gre'.table = gre.table /\ gre'.bitmap = gre.bitmap
    <3>1. /\ gre'.so = [g.so EXCEPT ![t] = q] /\ gre'.last = g.last
          /\ gre'.rx = r /\ gre'.wrong = g.wrong /\ gre'.missed = g.missed
          /\ gre'.table = g.table /\ gre'.bitmap = g.bitmap
      BY <1>2, <2>9 DEF GreShaped
    <3>2. GreShaped(gre')
      BY <1>2, <2>9 DEF GreShaped
    <3> QED BY <1>2, <3>1, <3>2
  <2>11. \A v \in Socks : gre'.so[v] = IF v = t THEN q ELSE gre.so[v]
    BY <2>1, <2>10, SockFacts
  <2>12. \A v \in Socks : Held(gre.rx, v) = 0 /\ Held(r, v) = IF v = t THEN 1 ELSE 0
    BY <2>8, HeldIs DEF Held
  <2>13. SockOk(q, 1)
    <3>1. Own(a) = 1 /\ Own(q) = 1 /\ a.st # "absent"
      BY <2>2, <2>3, <2>7 DEF Own, Bound
    <3>2. a.refs = 1
      BY <2>1, <2>4, <2>12, <3>1 DEF SockOk
    <3> QED BY <2>4, <2>5, <2>7, <3>1, <3>2 DEF SockOk
  <2>14. \A v \in Socks : SockOk(gre'.so[v], Held(gre'.rx, v))
    BY <2>10, <2>11, <2>12, <2>13 DEF GreOk
  <2>15. RxOk(gre'.rx)
    BY <1>3, <2>1, <2>8, <2>10 DEF RxOk
  <2>16. TableOk(gre'.table, gre'.bitmap, gre'.so)
    <3>1. gre.so = [v \in Socks |-> gre.so[v]] /\ TableOk(gre.table, gre.bitmap, gre.so)
      BY <2>1, SockFacts
    <3>2. (Bound(q) <=> Bound(gre.so[t])) /\ q.id = gre.so[t].id
      BY <2>3, <2>7 DEF Bound
    <3>3. TableOk(gre.table, gre.bitmap, [gre.so EXCEPT ![t] = q])
      BY <2>1, <3>1, <3>2, TableKept, Zenon
    <3> QED BY <2>10, <3>3
  <2>17. GreOk(gre')
    BY <2>10, <2>14, <2>15, <2>16 DEF GreOk
  <2>18. ASSUME NumbersDoNotWrap, Ordered(gre) PROVE Ordered(gre')
    <3>1. \A v \in Socks : InOrder(gre'.so[v], gre'.last[v])
      BY <2>3, <2>7, <2>10, <2>11, <2>18 DEF Ordered, InOrder
    <3>2. gre'.rx.p.n \in Numbers
      BY <1>3, <2>8, <2>10, <2>18
    <3> QED BY <2>10, <2>18, <3>1, <3>2 DEF Ordered
  <2> QED BY <2>17, <2>18 DEF GreKept
<1> QED BY <1>5, <1>6

LEMMA StaysFalse ==
    ASSUME NEW w, NEW a, NEW b, a = FALSE, ~b, w = (a \/ b)
    PROVE  w = FALSE
OBVIOUS

(* Without a wrap a packet is old exactly if its number is not above the   *)
(* last one that was accepted.                                             *)
LEMMA OldIs ==
    ASSUME GreConfig, NEW o, NEW n \in Numbers, o.seq_recv \in Numbers
    PROVE  n % SeqMod = n /\ (Old(o, n) <=> n <= o.seq_recv)
<1>1. PICK r \in Nat : r = o.seq_recv /\ r < SeqMod - Zone
  BY DEF Numbers
<1>2. n \in Nat /\ n < SeqMod - Zone /\ SeqMod \in Nat /\ Zone \in Nat \ {0}
  BY DEF GreConfig, Numbers
<1>3. r + 1 \in 0..(SeqMod - 1) /\ n \in 0..(SeqMod - 1) /\ SeqMod \in Nat \ {0}
  BY <1>1, <1>2
<1>4. (r + 1) % SeqMod = r + 1 /\ n % SeqMod = n
  BY <1>3
<1>5. Old(o, n) <=> n < r + 1 \/ WRAPPED(r, n)
  BY <1>1, <1>4 DEF Old
<1>6. ~WRAPPED(r, n)
  BY <1>1, <1>2 DEF WRAPPED
<1>7. n < r + 1 <=> n <= r
  BY <1>1, <1>2
<1> QED BY <1>1, <1>4, <1>5, <1>6, <1>7

(* What the handling of a packet makes of its socket and of the order.     *)
Handled(s, p, q, l, w, m) ==
    /\ pptp_rcv_core(gre, s, p) = [gre EXCEPT !.so[s] = q, !.last[s] = l, !.wrong = w, !.missed = m]
    /\ IsSock(q) /\ q.st = gre.so[s].st /\ q.id = gre.so[s].id
    /\ q.refs = gre.so[s].refs /\ q.want = gre.so[s].want
    /\ /\ p.n \in Numbers /\ InOrder(gre.so[s], gre.last[s])
       /\ gre.wrong = FALSE /\ gre.missed = FALSE
       => InOrder(q, l) /\ w = FALSE /\ m = FALSE

LEMMA CoreIs ==
    ASSUME GreConfig, GreOk(gre), NEW s \in Socks, NEW p, p.n \in Nat
    PROVE  \E q, l, w, m : Handled(s, p, q, l, w, m)
<1>1. PICK a : a = gre.so[s]
  OBVIOUS
<1>2. IsSock(a)
  BY <1>1, SockFacts
<1>3. PICK k : k = IF p.ack = 0 THEN a.ack_recv ELSE AckOf(a, p.ack % SeqMod)
  OBVIOUS
<1>4. PICK o : o = [a EXCEPT !.ack_recv = k]
  OBVIOUS
<1>5. IsSock(o) /\ o.st = a.st /\ o.id = a.id /\ o.refs = a.refs /\ o.want = a.want /\ o.seq_recv = a.seq_recv
  BY <1>2, <1>4 DEF IsSock
<1>6. PICK seq : seq = p.n % SeqMod
  OBVIOUS
<1>7. pptp_rcv_core(gre, s, p)
        = IF o.st # "connected" THEN [gre EXCEPT !.so[s].queued = 1]
          ELSE IF ~Old(o, seq) THEN Hand([gre EXCEPT !.so[s] = [o EXCEPT !.seq_recv = seq]], s, p)
          ELSE IF p.echo THEN Hand([gre EXCEPT !.so[s] = o], s, p)
          ELSE Drop([gre EXCEPT !.so[s] = o], s, p)
  BY <1>1, <1>3, <1>4, <1>6 DEF pptp_rcv_core
<1>8. ASSUME NEW q
      PROVE  /\ \E w : /\ Hand([gre EXCEPT !.so[s] = q], s, p)
                            = [gre EXCEPT !.so[s] = q, !.last[s] = IF p.n > @ THEN p.n ELSE @,
                                          !.wrong = w, !.missed = gre.missed]
                       /\ w = (gre.wrong \/ (~p.echo /\ p.n <= gre.last[s]))
             /\ \E m : /\ Drop([gre EXCEPT !.so[s] = q], s, p)
                            = [gre EXCEPT !.so[s] = q, !.last[s] = @, !.wrong = gre.wrong, !.missed = m]
                       /\ m = (gre.missed \/ p.n > gre.last[s])
  <2>1. PICK g : g = [gre EXCEPT !.so[s] = q]
    OBVIOUS
  <2>2. g.last = gre.last /\ g.wrong = gre.wrong /\ g.missed = gre.missed /\ GreShaped(g)
    BY <2>1 DEF GreOk, GreShaped
  <2>3. PICK w : w = (gre.wrong \/ (~p.echo /\ p.n <= gre.last[s]))
    OBVIOUS
  <2>4. PICK m : m = (gre.missed \/ p.n > gre.last[s])
    OBVIOUS
  <2>5. PICK l : l = IF p.n > gre.last[s] THEN p.n ELSE gre.last[s]
    OBVIOUS
  <2>6. Hand(g, s, p) = [g EXCEPT !.last[s] = l, !.wrong = w]
    BY <2>2, <2>3, <2>5 DEF Hand, GreShaped
  <2>7. Drop(g, s, p) = [g EXCEPT !.missed = m]
    BY <2>2, <2>4 DEF Drop, GreShaped
  <2>8. [g EXCEPT !.last[s] = l, !.wrong = w]
          = [gre EXCEPT !.so[s] = q, !.last[s] = l, !.wrong = w, !.missed = gre.missed]
    BY <2>1 DEF GreOk, GreShaped
  <2>9. [g EXCEPT !.missed = m]
          = [gre EXCEPT !.so[s] = q, !.last[s] = gre.last[s], !.wrong = gre.wrong, !.missed = m]
    BY <2>1 DEF GreOk, GreShaped
  <2> QED BY <2>1, <2>3, <2>4, <2>5, <2>6, <2>7, <2>8, <2>9
<1>9. CASE o.st # "connected"
  <2>1. PICK q : q = [a EXCEPT !.queued = 1]
    OBVIOUS
  <2>2. IsSock(q) /\ q.st = a.st /\ q.id = a.id /\ q.refs = a.refs /\ q.want = a.want /\ q.seq_recv = a.seq_recv
    BY <1>2, <2>1 DEF IsSock
  <2>3. [gre EXCEPT !.so[s].queued = 1]
          = [gre EXCEPT !.so[s] = q, !.last[s] = gre.last[s], !.wrong = gre.wrong, !.missed = gre.missed]
    BY <1>1, <2>1 DEF GreOk, GreShaped
  <2>4. InOrder(a, gre.last[s]) => InOrder(q, gre.last[s])
    BY <2>2 DEF InOrder
  <2>5. Handled(s, p, q, gre.last[s], gre.wrong, gre.missed)
    BY <1>1, <1>7, <1>9, <2>2, <2>3, <2>4 DEF Handled
  <2> QED BY <2>5, Zenon
<1>10. CASE o.st = "connected" /\ ~Old(o, seq)
  <2>1. PICK q : q = [o EXCEPT !.seq_recv = seq]
    OBVIOUS
  <2>2. IsSock(q) /\ q.st = a.st /\ q.id = a.id /\ q.refs = a.refs /\ q.want = a.want /\ q.seq_recv = seq
    BY <1>5, <2>1 DEF IsSock
  <2>3. PICK l : l = IF p.n > gre.last[s] THEN p.n ELSE gre.last[s]
    OBVIOUS
  <2>4. PICK w : /\ Hand([gre EXCEPT !.so[s] = q], s, p)
                      = [gre EXCEPT !.so[s] = q, !.last[s] = l, !.wrong = w, !.missed = gre.missed]
                 /\ w = (gre.wrong \/ (~p.echo /\ p.n <= gre.last[s]))
    BY <1>8, <2>3
  <2>5. ASSUME p.n \in Numbers, InOrder(a, gre.last[s]), gre.wrong = FALSE, gre.missed = FALSE
        PROVE  InOrder(q, l) /\ w = FALSE
    <3>1. gre.last[s] \in Numbers /\ o.seq_recv = gre.last[s]
      BY <1>5, <1>10, <2>5 DEF InOrder
    <3>2. seq = p.n /\ ~(p.n <= gre.last[s])
      BY <1>6, <1>10, <2>5, <3>1, OldIs
    <3>3. l = p.n /\ w = FALSE
      <4>1. l = p.n
        BY <2>3, <2>5, <3>1, <3>2 DEF Numbers
      <4>2. ~(~p.echo /\ p.n <= gre.last[s])
        BY <3>2
      <4>3. w = FALSE
        BY <2>4, <2>5, <4>2, StaysFalse, Zenon
      <4> QED BY <4>1, <4>3
    <3> QED BY <2>2, <2>5, <3>2, <3>3 DEF InOrder
  <2>6. pptp_rcv_core(gre, s, p)
          = [gre EXCEPT !.so[s] = q, !.last[s] = l, !.wrong = w, !.missed = gre.missed]
    BY <1>7, <1>10, <2>1, <2>4
  <2>7. Handled(s, p, q, l, w, gre.missed)
    BY <1>1, <2>2, <2>5, <2>6 DEF Handled
  <2> QED BY <2>7, Zenon
<1>11. CASE o.st = "connected" /\ Old(o, seq) /\ p.echo
  <2>1. PICK l : l = IF p.n > gre.last[s] THEN p.n ELSE gre.last[s]
    OBVIOUS
  <2>2. PICK w : /\ Hand([gre EXCEPT !.so[s] = o], s, p)
                      = [gre EXCEPT !.so[s] = o, !.last[s] = l, !.wrong = w, !.missed = gre.missed]
                 /\ w = (gre.wrong \/ (~p.echo /\ p.n <= gre.last[s]))
    BY <1>8, <2>1
  <2>3. ASSUME p.n \in Numbers, InOrder(a, gre.last[s]), gre.wrong = FALSE, gre.missed = FALSE
        PROVE  InOrder(o, l) /\ w = FALSE
    <3>1. gre.last[s] \in Numbers /\ o.seq_recv = gre.last[s]
      BY <1>5, <1>11, <2>3 DEF InOrder
    <3>2. seq = p.n /\ p.n <= gre.last[s]
      BY <1>6, <1>11, <2>3, <3>1, OldIs
    <3>3. l = gre.last[s] /\ w = FALSE
      <4>1. l = gre.last[s]
        BY <2>1, <2>3, <3>1, <3>2 DEF Numbers
      <4>2. ~(~p.echo /\ p.n <= gre.last[s])
        BY <1>11
      <4>3. w = FALSE
        BY <2>2, <2>3, <4>2, StaysFalse, Zenon
      <4> QED BY <4>1, <4>3
    <3> QED BY <3>1, <3>3 DEF InOrder
  <2>4. pptp_rcv_core(gre, s, p)
          = [gre EXCEPT !.so[s] = o, !.last[s] = l, !.wrong = w, !.missed = gre.missed]
    BY <1>7, <1>11, <2>2
  <2>5. Handled(s, p, o, l, w, gre.missed)
    BY <1>1, <1>5, <2>3, <2>4 DEF Handled
  <2> QED BY <2>5, Zenon
<1>12. CASE o.st = "connected" /\ Old(o, seq) /\ ~p.echo
  <2>1. PICK m : /\ Drop([gre EXCEPT !.so[s] = o], s, p)
                      = [gre EXCEPT !.so[s] = o, !.last[s] = gre.last[s], !.wrong = gre.wrong, !.missed = m]
                 /\ m = (gre.missed \/ p.n > gre.last[s])
    BY <1>8
  <2>2. ASSUME p.n \in Numbers, InOrder(a, gre.last[s]), gre.wrong = FALSE, gre.missed = FALSE
        PROVE  InOrder(o, gre.last[s]) /\ m = FALSE
    <3>1. gre.last[s] \in Numbers /\ o.seq_recv = gre.last[s]
      BY <1>5, <1>12, <2>2 DEF InOrder
    <3>2. seq = p.n /\ p.n <= gre.last[s]
      BY <1>6, <1>12, <2>2, <3>1, OldIs
    <3>3. m = FALSE
      <4>1. ~(p.n > gre.last[s])
        BY <2>2, <3>1, <3>2 DEF Numbers
      <4> QED BY <2>1, <2>2, <4>1, StaysFalse, Zenon
    <3> QED BY <3>1, <3>3 DEF InOrder
  <2>3. pptp_rcv_core(gre, s, p)
          = [gre EXCEPT !.so[s] = o, !.last[s] = gre.last[s], !.wrong = gre.wrong, !.missed = m]
    BY <1>7, <1>12, <2>1
  <2>4. Handled(s, p, o, gre.last[s], gre.wrong, m)
    BY <1>1, <1>5, <2>2, <2>3 DEF Handled
  <2> QED BY <2>4, Zenon
<1> QED BY <1>9, <1>10, <1>11, <1>12

LEMMA WriteTwice ==
    ASSUME NEW S, NEW f, f = [x \in S |-> f[x]], NEW a, NEW b, NEW c
    PROVE  [[f EXCEPT ![a] = b] EXCEPT ![a] = c] = [f EXCEPT ![a] = c]
OBVIOUS

(* The packet in hand is handled and its socket let go.                    *)
LEMMA ReceivedStep ==
    ASSUME GreConfig, GreOk(gre), gre.rx.at = "found", gre' = Received(gre, gre.rx.s, gre.rx.p)
    PROVE  GreKept(gre')
<1>1. PICK s, p : s = gre.rx.s /\ p = gre.rx.p
  OBVIOUS
<1>2. s \in Socks /\ p.n \in Nat
  <2>1. gre.rx # [at |-> "idle"]
    OBVIOUS
  <2> QED BY <1>1, <2>1 DEF GreOk, RxOk
<1>3. PICK q, l, w, m : Handled(s, p, q, l, w, m)
  BY <1>2, CoreIs, Zenon
<1>4. PICK f : f = [t \in Socks |-> FALSE]
  OBVIOUS
<1>5. PICK idle : idle = [at |-> "idle"]
  OBVIOUS
<1>6. PICK c : c = pptp_rcv_core(gre, s, p)
  OBVIOUS
<1>7. /\ GreShaped(c) /\ c.so = [gre.so EXCEPT ![s] = q] /\ c.last = [gre.last EXCEPT ![s] = l]
      /\ c.wrong = w /\ c.missed = m /\ c.table = gre.table /\ c.bitmap = gre.bitmap
  <2>1. c = [gre EXCEPT !.so[s] = q, !.last[s] = l, !.wrong = w, !.missed = m]
    BY <1>3, <1>6 DEF Handled
  <2> QED BY <1>2, <2>1 DEF GreOk, GreShaped
<1>8. PICK g : g = [c EXCEPT !.rx = idle, !.wait = f]
  OBVIOUS
<1>9. /\ GreShaped(g) /\ g.so = c.so /\ g.last = c.last /\ g.rx = idle
      /\ g.wrong = w /\ g.missed = m /\ g.table = gre.table /\ g.bitmap = gre.bitmap
  BY <1>7, <1>8 DEF GreShaped
<1>10. gre.so = [t \in Socks |-> gre.so[t]] /\ gre.last = [t \in Socks |-> gre.last[t]]
  BY DEF GreOk, GreShaped
<1>11. g.so[s] = q
  BY <1>2, <1>7, <1>9, <1>10
<1>12. gre' = [g EXCEPT !.so[s] = Less(q)]
  <2>1. gre' = Put(g, s)
    BY <1>1, <1>4, <1>5, <1>6, <1>8 DEF Received
  <2> QED BY <1>2, <1>9, <1>11, <2>1, PutIs DEF GreShaped
<1>13. /\ GreShaped(gre') /\ gre'.so = [g.so EXCEPT ![s] = Less(q)] /\ gre'.last = g.last /\ gre'.rx = idle
       /\ gre'.wrong = w /\ gre'.missed = m /\ gre'.table = gre.table /\ gre'.bitmap = gre.bitmap
  BY <1>9, <1>12 DEF GreShaped
<1>14. gre'.so = [gre.so EXCEPT ![s] = Less(q)]
  <2>1. gre'.so = [[gre.so EXCEPT ![s] = q] EXCEPT ![s] = Less(q)]
    BY <1>7, <1>9, <1>13
  <2> QED BY <1>10, <2>1, WriteTwice, Zenon
<1>15. \A t \in Socks : gre'.so[t] = IF t = s THEN Less(q) ELSE gre.so[t]
  BY <1>10, <1>14
<1>16. \A t \in Socks : gre'.last[t] = IF t = s THEN l ELSE gre.last[t]
  BY <1>7, <1>9, <1>10, <1>13
<1>17. \A t \in Socks : Held(idle, t) = 0 /\ Held(gre.rx, t) = IF t = s THEN 1 ELSE 0
  BY <1>1, <1>5, HeldIs DEF Held
<1>18. SockOk(gre.so[s], 1)
  BY <1>2, <1>17 DEF GreOk
<1>19. /\ SockOk(Less(q), 0)
       /\ \/ ~Bound(q) /\ ~Bound(Less(q))
          \/ (Bound(Less(q)) <=> Bound(q)) /\ Less(q).id = q.id
       /\ Less(q).st = "absent" \/ (Less(q).st = q.st /\ Less(q).seq_recv = q.seq_recv)
  <2>1. /\ IsSock(q) /\ q.st = gre.so[s].st /\ q.id = gre.so[s].id
        /\ q.refs = gre.so[s].refs /\ q.want = gre.so[s].want
    BY <1>3 DEF Handled
  <2>2. Own(q) = Own(gre.so[s]) /\ Own(q) \in {0, 1}
    BY <2>1, SockIs DEF Own
  <2>3. q.refs = Own(q) + 0 + 1
    BY <1>18, <2>1, <2>2 DEF SockOk
  <2>4. /\ q.want # NoPeer => q.st = "bound"
        /\ q.st = "none" => q.id = 0
        /\ q.st # "absent"
    BY <1>18, <2>1 DEF SockOk
  <2> QED BY <2>1, <2>3, <2>4, LessOk
<1>20. TableOk(gre'.table, gre'.bitmap, gre'.so)
  <2>1. TableOk(gre.table, gre.bitmap, gre.so)
    BY DEF GreOk
  <2>2. q.id = gre.so[s].id /\ (Bound(q) <=> Bound(gre.so[s]))
    BY <1>3 DEF Handled, Bound
  <2>3. TableOk(gre.table, gre.bitmap, [gre.so EXCEPT ![s] = Less(q)])
    <3>1. CASE ~Bound(q) /\ ~Bound(Less(q))
      BY <1>2, <1>10, <2>1, <2>2, <3>1, TableKeptUnbound, Zenon
    <3>2. CASE (Bound(Less(q)) <=> Bound(q)) /\ Less(q).id = q.id
      <4>1. Less(q).id = gre.so[s].id /\ (Bound(Less(q)) <=> Bound(gre.so[s]))
        BY <2>2, <3>2
      <4> QED BY <1>2, <1>10, <2>1, <4>1, TableKept, Zenon
    <3> QED BY <1>19, <3>1, <3>2
  <2> QED BY <1>13, <1>14, <2>3
<1>21. GreOk(gre')
  <2>1. \A t \in Socks : SockOk(gre'.so[t], Held(gre'.rx, t))
    BY <1>13, <1>15, <1>17, <1>19 DEF GreOk
  <2>2. RxOk(gre'.rx)
    BY <1>5, <1>13 DEF RxOk
  <2> QED BY <1>13, <1>20, <2>1, <2>2 DEF GreOk
<1>22. ASSUME NumbersDoNotWrap, Ordered(gre) PROVE Ordered(gre')
  <2>1. InOrder(q, l) /\ w = FALSE /\ m = FALSE
    BY <1>1, <1>2, <1>3, <1>22 DEF Handled, Ordered
  <2>2. InOrder(Less(q), l)
    BY <1>3, <1>18, <1>19, <2>1 DEF InOrder, Handled, SockOk
  <2>3. \A t \in Socks : InOrder(gre'.so[t], gre'.last[t])
    BY <1>15, <1>16, <1>22, <2>2 DEF Ordered
  <2>4. gre'.rx.at # "found"
    BY <1>5, <1>13
  <2> QED BY <1>13, <2>1, <2>3, <2>4 DEF Ordered
<1> QED BY <1>21, <1>22 DEF GreKept

LEMMA GreStarts == GreConfig /\ GreInit => GreOk(gre) /\ Ordered(gre)
<1> SUFFICES ASSUME GreConfig, GreInit PROVE GreOk(gre) /\ Ordered(gre)
  OBVIOUS
<1>1. PICK sc \in GreScenarios :
        gre = [so |-> [s \in Socks |-> Absent], table |-> [i \in 0..MaxCallid |-> NoSock], bitmap |-> {},
               call_id |-> 0, wait |-> [s \in Socks |-> FALSE], rx |-> [at |-> "idle"],
               sent |-> [s \in Socks |-> 0], last |-> [s \in Socks |-> 0], wrong |-> FALSE,
               missed |-> FALSE, left |-> sc.opens, sc |-> sc]
  BY DEF GreInit
<1>2. 0 \in Ident /\ MaxCallid \in Nat
  BY DEF GreConfig, Ident
<1>3. /\ gre.so = [s \in Socks |-> Absent] /\ gre.table = [i \in Ident |-> NoSock] /\ gre.bitmap = {}
      /\ gre.rx = [at |-> "idle"] /\ gre.wrong = FALSE /\ gre.missed = FALSE
      /\ gre.last = [s \in Socks |-> 0] /\ GreShaped(gre)
  BY <1>1, <1>2 DEF GreShaped, Ident
<1>4. \A s \in Socks : gre.so[s] = Absent /\ Held(gre.rx, s) = 0
  BY <1>3 DEF Held
<1>5. ~Bound(Absent) /\ Absent.st = "absent"
  BY NewSocks DEF Bound
<1>6. TableOk(gre.table, gre.bitmap, gre.so)
  <2>1. gre.table \in [Ident -> Socks \cup {NoSock}] /\ \A i \in Ident : gre.table[i] = NoSock
    BY <1>3
  <2>2. 0..(MaxCallid - 1) \subseteq Ident /\ NoSock \notin Socks
    BY <1>2 DEF Ident, GreConfig
  <2> QED BY <1>2, <1>3, <1>4, <1>5, <2>1, <2>2 DEF TableOk
<1>7. GreOk(gre)
  BY <1>3, <1>4, <1>6, NewSocks DEF GreOk, RxOk
<1>8. Ordered(gre)
  BY <1>3, <1>4, <1>5 DEF Ordered, InOrder
<1> QED BY <1>7, <1>8

LEMMA GreSteps == GreConfig /\ GreOk(gre) /\ [GreNext]_gre => GreKept(gre')
<1> SUFFICES ASSUME GreConfig, GreOk(gre), [GreNext]_gre PROVE GreKept(gre')
  OBVIOUS
<1>1. gre.sc.socks \subseteq Socks
  BY DEF GreOk, GreShaped, GreConfig
<1>2. CASE UNCHANGED gre
  BY <1>2, StutterStep
<1>3. CASE Calls
  <2>1. PICK s \in gre.sc.socks :
          \/ /\ gre.so[s].st = "absent" /\ gre.left > 0
             /\ gre' = pptp_create([gre EXCEPT !.left = @ - 1, !.sent[s] = 0, !.last[s] = 0], s)
          \/ gre.so[s].st = "none" /\ gre' = pptp_bind(gre, s)
          \/ /\ gre.so[s].st = "bound" /\ gre.so[s].want = NoPeer
             /\ \E peer \in Peers : gre' = pptp_connect(gre, s, peer)
          \/ gre.so[s].want # NoPeer /\ \E ok \in BOOLEAN : gre' = Connected(gre, s, ok)
          \/ /\ gre.so[s].st \in {"none", "bound", "connected"} /\ gre.so[s].want = NoPeer
             /\ gre' = pptp_release(gre, s)
          \/ gre.so[s].st = "closing" /\ ~gre.wait[s] /\ gre' = Unbound(gre, s)
          \/ gre.so[s].st = "connected" /\ gre.so[s].seq_sent < gre.sc.xmit /\ gre' = pptp_xmit(gre, s)
    BY <1>3, Zenon DEF Calls
  <2>2. s \in Socks
    BY <1>1, <2>1
  <2> QED BY <2>1, <2>2, CreateStep, BindStep, ConnectStep, ConnectedStep, ReleaseStep, UnboundStep, XmitStep, Zenon
<1>4. CASE Packets
  <2>1. CASE gre.rx.at = "found" /\ gre' = Received(gre, gre.rx.s, gre.rx.p)
    BY <2>1, ReceivedStep
  <2>2. ASSUME NEW s \in gre.sc.socks, gre.rx.at = "idle", NEW n \in 1..gre.sc.sent, NEW ack, NEW echo,
               gre' = pptp_rcv([gre EXCEPT !.sent[s] = IF n > @ THEN n ELSE @],
                               [n |-> n, ack |-> ack, echo |-> echo], gre.so[s].id, gre.so[s].dst)
        PROVE  GreKept(gre')
    <3>1. s \in Socks /\ gre.so[s].id \in Ident
      BY <1>1, <2>2, SockFacts
    <3>2. PICK x : x = IF n > gre.sent[s] THEN n ELSE gre.sent[s]
      OBVIOUS
    <3>3. PICK p : p = [n |-> n, ack |-> ack, echo |-> echo]
      OBVIOUS
    <3>4. gre' = pptp_rcv([gre EXCEPT !.sent[s] = x], p, gre.so[s].id, gre.so[s].dst)
      BY <2>2, <3>2, <3>3
    <3>5. p.n \in 1..gre.sc.sent
      BY <3>3
    <3>6. PICK i \in Ident : i = gre.so[s].id
      BY <3>1
    <3>7. PICK peer : peer = gre.so[s].dst
      OBVIOUS
    <3>8. gre' = pptp_rcv([gre EXCEPT !.sent[s] = x], p, i, peer)
      BY <3>4, <3>6, <3>7
    <3>9. gre.rx.at = "idle"
      BY <2>2
    <3> HIDE DEF GreConfig
    <3> QED BY <3>1, <3>5, <3>8, <3>9, FoundStep
  <2>3. \/ \E s \in gre.sc.socks : /\ gre.rx.at = "idle"
             /\ \E n \in 1..gre.sc.sent : \E ack, echo :
                  gre' = pptp_rcv([gre EXCEPT !.sent[s] = IF n > @ THEN n ELSE @],
                                  [n |-> n, ack |-> ack, echo |-> echo], gre.so[s].id, gre.so[s].dst)
        \/ gre.rx.at = "found" /\ gre' = Received(gre, gre.rx.s, gre.rx.p)
    BY <1>4, Zenon DEF Packets
  <2> QED BY <2>1, <2>2, <2>3, Zenon
<1> QED BY <1>2, <1>3, <1>4 DEF GreNext

(* A PPTP call is found by its own identifier and by nobody else's, and a  *)
(* packet that was looked up keeps its socket, for any number of sockets   *)
(* and identifiers (pptp.c: add_chan, del_chan, lookup_chan, sock_hold).   *)
THEOREM GreCallsAreFound == GreConfig /\ GreSpec => []GreCallsFound
<1> SUFFICES ASSUME GreConfig PROVE GreSpec => []GreCallsFound
  OBVIOUS
<1> DEFINE Ok == GreOk(gre)
<1>1. GreInit => Ok
  BY GreStarts
<1>2. Ok /\ [GreNext]_gre => Ok'
  BY GreSteps DEF GreKept
<1>3. Ok => GreCallsFound
  <2> SUFFICES ASSUME GreOk(gre) PROVE GreCallsFound
    OBVIOUS
  <2>1. MaxCallid \in Nat /\ 0..(MaxCallid - 1) \subseteq Ident /\ MaxCallid \notin 0..(MaxCallid - 1)
    BY DEF GreConfig, Ident
  <2>2. ASSUME NEW s \in Socks, NEW i \in 0..(MaxCallid - 1)
        PROVE  gre.table[i] = s <=> gre.so[s].st \in {"bound", "connected"} /\ gre.so[s].id = i
    BY <2>1 DEF GreOk, TableOk, Bound
  <2>3. gre.rx.at = "found" => gre.so[gre.rx.s].st # "absent"
    <3> SUFFICES ASSUME gre.rx.at = "found" PROVE gre.so[gre.rx.s].st # "absent"
      OBVIOUS
    <3>1. gre.rx.s \in Socks
      BY DEF GreOk, RxOk
    <3>2. Held(gre.rx, gre.rx.s) = 1
      BY DEF Held
    <3> QED BY <3>1, <3>2 DEF GreOk, SockOk
  <2> QED BY <2>2, <2>3 DEF GreCallsFound
<1> QED BY <1>1, <1>2, <1>3, PTL DEF GreSpec

(* While the numbers of a call stay below the window of WRAPPED, its       *)
(* packets reach PPP in the order in which the peer sent them, each at     *)
(* most once (LCP echoes apart), and none newer than all before is taken   *)
(* for an old one, whatever the network loses, repeats or reorders         *)
(* (pptp_rcv_core).                                                        *)
THEOREM GreKeepsOrder == GreConfig /\ NumbersDoNotWrap /\ GreSpec => []OrderAcrossWrap
<1> SUFFICES ASSUME GreConfig, NumbersDoNotWrap PROVE GreSpec => []OrderAcrossWrap
  OBVIOUS
<1> DEFINE Ok == GreOk(gre) /\ Ordered(gre)
<1>1. GreInit => Ok
  BY GreStarts
<1>2. Ok /\ [GreNext]_gre => Ok'
  BY GreSteps DEF GreKept
<1>3. Ok => OrderAcrossWrap
  BY DEF Ordered, OrderAcrossWrap
<1> QED BY <1>1, <1>2, <1>3, PTL DEF GreSpec

=============================================================================
