------------------------------ MODULE L2tpFifo ------------------------------
(***************************************************************************)
(* What the reliable control channel of an L2TP tunnel promises: each end  *)
(* takes messages in and hands them to its peer in that order, each once,  *)
(* until an end gives the tunnel up.  A message that was not handed over   *)
(* may be withdrawn.                                                       *)
(***************************************************************************)
EXTENDS Naturals, Sequences

CONSTANTS Ends,          \* the two ends of the tunnel
          Messages       \* what can be taken for sending

VARIABLES accepted,      \* per end, the messages it took and did not withdraw
          handed,        \* per end, the messages of the peer it has processed
          open           \* per end, it has not given the tunnel up

fifoVars == <<accepted, handed, open>>

Peer(e) == CHOOSE p \in Ends : p # e

FifoInit ==
    /\ accepted = [e \in Ends |-> <<>>]
    /\ handed = [e \in Ends |-> <<>>]
    /\ open = [e \in Ends |-> TRUE]

\* t is what is left of s when messages after the first h are taken out.
Left(t, s, h) ==
    /\ Len(t) >= h
    /\ \E p \in [1..Len(t) -> 1..Len(s)] :
          /\ \A i, j \in 1..Len(t) : i < j => p[i] < p[j]
          /\ \A i \in 1..Len(t) : t[i] = s[p[i]] /\ (i <= h => p[i] = i)

\* Unhanded messages are withdrawn, and new ones are taken if the end is open.
Queue(e, t) ==
    \E n \in 0..Len(t) :
        /\ Left(SubSeq(t, 1, n), accepted[e], Len(handed[Peer(e)]))
        /\ \A i \in (n + 1)..Len(t) : t[i] \in Messages
        /\ open[e] \/ n = Len(t)

\* The peer's next messages are processed, in order.
Take(e, t) ==
    /\ open[e] \/ t = handed[e]
    /\ Len(t) \in Len(handed[e])..Len(accepted[Peer(e)])
    /\ t = SubSeq(accepted[Peer(e)], 1, Len(t))

\* A handler of end e: it may do all this at once, and may end with the tunnel
\* given up.
Step(e) ==
    /\ Queue(e, accepted'[e]) /\ accepted' = [accepted EXCEPT ![e] = accepted'[e]]
    /\ Take(e, handed'[e]) /\ handed' = [handed EXCEPT ![e] = handed'[e]]
    /\ open' \in {open, [open EXCEPT ![e] = FALSE]}

FifoNext == \E e \in Ends : Step(e)

FifoSpec == FifoInit /\ [][FifoNext]_fifoVars
=============================================================================
