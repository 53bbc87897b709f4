--------------------------- MODULE PppoeSidProofs ---------------------------
(***************************************************************************)
(* PPPoE session identifiers are unique wherever int and long have the     *)
(* same size.  SidsConserved makes UniqueSessionId inductive: a bit that   *)
(* is set belongs to nobody, so the connection that takes it is its only   *)
(* owner; ReservedUnused keeps disconnect from freeing a reserved bit.     *)
(***************************************************************************)
EXTENDS PppoeSid, TLAPS

(* What a proof needs: where int and long have the same size, a shift      *)
(* gives the bit itself.                                                   *)
SameSize == LongBits = IntBits

SidInv == TypeOK /\ SidsConserved /\ UniqueSessionId /\ ReservedUnused

(* With an int as wide as a long, disconnect sets exactly the bit of the   *)
(* connection's identifier.                                                *)
LEMMA ShiftExact == ASSUME SameSize, NEW n \in Bit PROVE Freed(n) = {n}
<1>1. n % IntBits = n
  BY SidAssumption DEF SameSize, Bit
<1>2. CASE n = IntBits - 1
  BY <1>1, <1>2, SidAssumption DEF Freed, ShiftedOne, SameSize
<1>3. CASE n # IntBits - 1
  BY <1>1, <1>3 DEF Freed, ShiftedOne
<1>4. QED
  BY <1>2, <1>3

(* Initially sid_map is full and nobody has an identifier.                 *)
LEMMA SidInit == Init => SidInv
<1> SUFFICES ASSUME Init PROVE SidInv
  OBVIOUS
<1>1. 0 \in Word /\ NoSid \in Sid
  BY SidAssumption DEF Word, Bit, Sid, NoSid
<1>2. TypeOK
  BY <1>1 DEF Init, TypeOK
<1>3. SidsConserved
  BY DEF Init, SidsConserved, Reserved
<1>4. UniqueSessionId
  BY DEF Init, UniqueSessionId
<1>5. ReservedUnused
  BY DEF Init, ReservedUnused
<1>6. QED
  BY <1>2, <1>3, <1>4, <1>5 DEF SidInv

(* allocate_channel takes an identifier nobody has.                        *)
LEMMA SidAllocate ==
    ASSUME SidInv, NEW c \in Conns, NEW w \in Word, NEW b \in Bit,
           Allocate(c, w, b)
    PROVE  SidInv'
<1> USE DEF SidInv
<1>1. b \in sidMap[w] /\ sid[c] = NoSid
  BY DEF Allocate, LowestBit
<1>2. <<w, b>> \notin Reserved /\ \A d \in Conns : sid[d] # <<w, b>>
  BY <1>1 DEF SidsConserved
<1>3. <<w, b>> # NoSid
  BY <1>2 DEF Reserved
<1>4. /\ sid' = [sid EXCEPT ![c] = <<w, b>>]
      /\ sidMap' = [sidMap EXCEPT ![w] = sidMap[w] \ {b}]
  BY DEF Allocate, Taken
<1>5. TypeOK'
  <2>1. sidIdx' \in Word
    BY SidAssumption DEF Allocate, NextWord, Word
  <2>2. sid' \in [Conns -> Sid]
    BY <1>4 DEF TypeOK, Sid
  <2>3. sidMap' \in [Word -> SUBSET Bit]
    BY <1>4 DEF TypeOK
  <2>4. QED
    BY <2>1, <2>2, <2>3 DEF TypeOK
<1>6. UniqueSessionId'
  BY <1>2, <1>4 DEF UniqueSessionId, TypeOK
<1>7. SidsConserved'
  <2> SUFFICES ASSUME NEW v \in Word, NEW a \in Bit
               PROVE  a \in sidMap'[v] <=>
                        /\ <<v, a>> \notin Reserved
                        /\ \A d \in Conns : sid'[d] # <<v, a>>
    BY DEF SidsConserved, Reserved, NoSid
  <2>1. CASE <<v, a>> = <<w, b>>
    BY <2>1, <1>4 DEF TypeOK
  <2>2. CASE <<v, a>> # <<w, b>>
    <3>1. a \in sidMap'[v] <=> a \in sidMap[v]
      BY <2>2, <1>4 DEF TypeOK
    <3>2. CASE <<v, a>> \in Reserved
      BY <3>1, <3>2 DEF SidsConserved
    <3>3. CASE <<v, a>> \notin Reserved
      <4>1. sid[c] # <<v, a>>
        BY <1>1, <3>3 DEF Reserved
      <4>2. \A d \in Conns : sid'[d] # <<v, a>> <=> sid[d] # <<v, a>>
        BY <4>1, <2>2, <1>4 DEF TypeOK
      <4>3. QED
        BY <3>1, <4>2, <3>3 DEF SidsConserved
    <3>4. QED
      BY <3>2, <3>3
  <2>3. QED
    BY <2>1, <2>2
<1>8. ReservedUnused'
  BY <1>2, <1>4 DEF ReservedUnused, TypeOK, Reserved, NoSid
<1>9. QED
  BY <1>5, <1>6, <1>7, <1>8

(* disconnect gives back the identifier of its connection and no other.    *)
LEMMA SidRelease ==
    ASSUME SameSize, SidInv, NEW c \in Conns, Release(c)
    PROVE  SidInv'
<1> USE DEF SidInv
<1> DEFINE w == sid[c][1]
           b == sid[c][2]
<1>1. w \in Word /\ b \in Bit /\ sid[c] = <<w, b>> /\ sid[c] # NoSid
  BY DEF TypeOK, Sid, Release
<1>2. sidMap' = [sidMap EXCEPT ![w] = sidMap[w] \cup {b}]
  BY <1>1, ShiftExact DEF Release
<1>3. sid' = [sid EXCEPT ![c] = NoSid] /\ sidIdx' = sidIdx
  BY DEF Release
<1>4. NoSid \in Sid
  BY SidAssumption DEF NoSid, Sid, Word, Bit
<1> HIDE DEF w, b
<1>5. TypeOK'
  BY <1>1, <1>2, <1>3, <1>4 DEF TypeOK
<1>6. UniqueSessionId'
  BY <1>3 DEF UniqueSessionId, TypeOK
<1>7. \A d \in Conns : d # c => sid[d] # <<w, b>>
  BY <1>1 DEF UniqueSessionId
<1>8. SidsConserved'
  <2> SUFFICES ASSUME NEW v \in Word, NEW a \in Bit
               PROVE  a \in sidMap'[v] <=>
                        /\ <<v, a>> \notin Reserved
                        /\ \A d \in Conns : sid'[d] # <<v, a>>
    BY DEF SidsConserved, Reserved, NoSid
  <2>1. CASE <<v, a>> \in Reserved
    <3>1. <<v, a>> # <<w, b>>
      BY <2>1, <1>1 DEF ReservedUnused
    <3>2. QED
      BY <3>1, <2>1, <1>2 DEF SidsConserved, TypeOK
  <2>2. CASE <<v, a>> \notin Reserved
    <3>1. <<v, a>> # NoSid
      BY <2>2 DEF Reserved
    <3>2. CASE <<v, a>> = <<w, b>>
      BY <3>1, <3>2, <2>2, <1>1, <1>2, <1>3, <1>7 DEF TypeOK
    <3>3. CASE <<v, a>> # <<w, b>>
      <4>1. a \in sidMap'[v] <=> a \in sidMap[v]
        BY <3>3, <1>1, <1>2 DEF TypeOK
      <4>2. \A d \in Conns : sid'[d] # <<v, a>> <=> sid[d] # <<v, a>>
        BY <3>1, <3>3, <1>1, <1>3 DEF TypeOK
      <4>3. QED
        BY <4>1, <4>2, <2>2 DEF SidsConserved
    <3>4. QED
      BY <3>2, <3>3
  <2>3. QED
    BY <2>1, <2>2
<1>9. ReservedUnused'
  BY <1>3 DEF ReservedUnused, TypeOK, Reserved, NoSid
<1>10. QED
  BY <1>5, <1>6, <1>8, <1>9

(* The invariant of allocate_channel and disconnect.                       *)
LEMMA SidInvariant == SameSize /\ Spec => []SidInv
<1> SUFFICES ASSUME SameSize
             PROVE  Spec => []SidInv
  OBVIOUS
<1>1. Init => SidInv
  BY SidInit
<1>2. SidInv /\ [Next]_vars => SidInv'
  <2> SUFFICES ASSUME SidInv, [Next]_vars PROVE SidInv'
    OBVIOUS
  <2>1. CASE Next
    BY <2>1, SidAllocate, SidRelease DEF Next
  <2>2. CASE UNCHANGED vars
    BY <2>2 DEF vars, SidInv, TypeOK, SidsConserved, UniqueSessionId,
                   ReservedUnused, Reserved, NoSid
  <2>3. QED
    BY <2>1, <2>2
<1>3. QED
  BY <1>1, <1>2, PTL DEF Spec

(* Where int and long have the same size, no two PPPoE connections ever    *)
(* share a session identifier, no identifier is lost and the reserved ones *)
(* stay unused, for any number of connections and any size of sid_map.     *)
THEOREM SidsUnique ==
    SameSize /\ Spec => [](UniqueSessionId /\ SidsConserved /\ ReservedUnused)
<1>1. SidInv => UniqueSessionId /\ SidsConserved /\ ReservedUnused
  BY DEF SidInv
<1>2. QED
  BY <1>1, SidInvariant, PTL

(* Where int and long have the same size, the bits of sid_map and the      *)
(* identifiers the connections hold always account for every identifier:   *)
(* each one is reserved, free or in use, and never two of these, however   *)
(* allocate_channel and disconnect alternate.                              *)
THEOREM IdentifiersAreExact == SameSize /\ Spec => []IdentifiersExact
<1>1. SidInv => IdentifiersExact
  BY DEF SidInv, IdentifiersExact
<1>2. QED
  BY <1>1, SidInvariant, PTL
=============================================================================
