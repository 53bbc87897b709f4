------------------------------ MODULE PppoeSid ------------------------------
(***************************************************************************)
(* The PPPoE session identifiers (micro-bngd/ctrl/pppoe/pppoe.c): sid_map  *)
(* is an array of unsigned longs in which a set bit is a free identifier.  *)
(* allocate_channel takes the lowest free bit of the next word that has    *)
(* one, going round the array, and disconnect gives the bit back; both     *)
(* hold sid_lock, so each is one step.                                     *)
(*                                                                         *)
(* Identifier sid is the pair of sid / LongBits, its word, and             *)
(* sid % LongBits, its bit.  Identifier 0 stands for no session and the    *)
(* last one is reserved.                                                   *)
(***************************************************************************)
EXTENDS Integers

CONSTANTS
    Words,      \* SID_MAX / LongBits
    LongBits,   \* 8 * sizeof(long)
    IntBits,    \* 8 * sizeof(int)
    Conns       \* the connections there may be

ASSUME SidAssumption ==
    /\ Words \in Nat \ {0}
    /\ LongBits \in Nat /\ LongBits > 1
    /\ IntBits \in 1..LongBits

VARIABLES
    sidMap,     \* [0..(Words - 1) -> SUBSET Bit]: the bits that are set
    sidIdx,     \* the word the next search starts with
    sid         \* [Conns -> Sid], NoSid for a connection that is not there

vars == <<sidMap, sidIdx, sid>>

Word == 0..(Words - 1)
Bit == 0..(LongBits - 1)
Sid == Word \X Bit

NoSid == <<0, 0>>

Reserved == {NoSid, <<Words - 1, LongBits - 1>>}

TypeOK ==
    /\ sidMap \in [Word -> SUBSET Bit]
    /\ sidIdx \in Word
    /\ sid \in [Conns -> Sid]

Init ==
    /\ sidMap = [w \in Word |-> {b \in Bit : <<w, b>> \notin Reserved}]
    /\ sidIdx = 0
    /\ sid = [c \in Conns |-> NoSid]

-----------------------------------------------------------------------------
(* How many words the search passes before it comes to word w.             *)
Distance(w) == IF w >= sidIdx THEN w - sidIdx ELSE w + Words - sidIdx

(* The search stops at the first word that is not zero...                  *)
FirstWord(w) ==
    /\ sidMap[w] # {}
    /\ \A v \in Word : sidMap[v] # {} => Distance(w) <= Distance(v)

(* ... and ffsl finds its lowest bit.                                      *)
LowestBit(w, b) == b \in sidMap[w] /\ \A a \in sidMap[w] : b <= a

\* Mutant: the bit stays set.
Taken_Not(w, b) == sidMap[w]

Taken(w, b) == sidMap[w] \ {b}

NextWord(w) == IF w + 1 = Words THEN 0 ELSE w + 1

(* allocate_channel.  Without a free bit it fails and nothing changes.     *)
Allocate(c, w, b) ==
    /\ sid[c] = NoSid
    /\ FirstWord(w) /\ LowestBit(w, b)
    /\ sid' = [sid EXCEPT ![c] = <<w, b>>]
    /\ sidMap' = [sidMap EXCEPT ![w] = Taken(w, b)]
    /\ sidIdx' = NextWord(w)

(* The bits of 1 << n.  The shift is one of an int: the processor takes    *)
(* the count modulo IntBits, and in the conversion to unsigned long the    *)
(* sign bit is copied to all bits above it.                                *)
ShiftedOne(n) ==
    LET k == n % IntBits
    IN  IF k = IntBits - 1 THEN k..(LongBits - 1) ELSE {k}

\* Mutant: the bit is not given back.
Freed_Nothing(n) == {}

Freed(n) == ShiftedOne(n)

(* disconnect.                                                             *)
Release(c) ==
    /\ sid[c] # NoSid
    /\ sidMap' = [sidMap EXCEPT ![sid[c][1]] = @ \cup Freed(sid[c][2])]
    /\ sid' = [sid EXCEPT ![c] = NoSid]
    /\ UNCHANGED sidIdx

Next ==
    \E c \in Conns :
        \/ \E w \in Word, b \in Bit : Allocate(c, w, b)
        \/ Release(c)

Spec == Init /\ [][Next]_vars

-----------------------------------------------------------------------------
(* No two connections have the same session identifier at the same time,   *)
(* however allocate_channel and disconnect alternate.                      *)
UniqueSessionId ==
    \A c, d \in Conns : c # d /\ sid[c] = sid[d] => sid[c] = NoSid

(* A bit of sid_map is set exactly when its identifier may be given out:   *)
(* it is not reserved and no connection has it.  No identifier is ever     *)
(* lost, and none is free while in use.                                    *)
SidsConserved ==
    \A w \in Word, b \in Bit :
        b \in sidMap[w] <=>
            <<w, b>> \notin Reserved /\ \A c \in Conns : sid[c] # <<w, b>>

(* The reserved last identifier is never given to a connection.            *)
ReservedUnused == \A c \in Conns : sid[c] \in Reserved => sid[c] = NoSid

(* The map and the connections agree: every identifier is reserved, free   *)
(* or in use (allocate_channel, disconnect).                               *)
IdentifiersExact == TypeOK /\ SidsConserved /\ ReservedUnused

=============================================================================
