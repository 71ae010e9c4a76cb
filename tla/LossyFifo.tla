------------------------------ MODULE LossyFifo ------------------------------
(***************************************************************************)
(* What one statsd sender promises its producers (spec sections 1 and 5):  *)
(* an offered PDU is refused or accepted; accepted PDUs reach the peer in  *)
(* the order they were accepted, each at most once, or are lost.  Nothing  *)
(* is reordered, duplicated or invented.  Delivery is not promised.        *)
(***************************************************************************)
EXTENDS Naturals, Sequences, SequencesExt

CONSTANT Msgs

VARIABLES pending, delivered, refused

lfVars == <<pending, delivered, refused>>

Init ==
    /\ pending = <<>>
    /\ delivered = <<>>
    /\ refused = {}

Fresh(m) == m \notin ToSet(pending) \cup ToSet(delivered) \cup refused

\* A non-blocking offer: accepted at the tail, or refused.
Offer(m) ==
    /\ Fresh(m)
    /\ \/ /\ pending' = Append(pending, m)
          /\ UNCHANGED refused
       \/ /\ refused' = refused \cup {m}
          /\ UNCHANGED pending
    /\ UNCHANGED delivered

\* The oldest k accepted PDUs reach the peer.
Deliver ==
    \E k \in 1..Len(pending) :
        /\ delivered' = delivered \o SubSeq(pending, 1, k)
        /\ pending' = SubSeq(pending, k + 1, Len(pending))
        /\ UNCHANGED refused

\* Some accepted PDUs are lost.
Lose ==
    \E S \in SUBSET ToSet(pending) \ {{}} :
        /\ pending' = SelectSeq(pending, LAMBDA m : m \notin S)
        /\ UNCHANGED <<delivered, refused>>

Next ==
    \/ \E m \in Msgs : Offer(m)
    \/ Deliver
    \/ Lose

Spec == Init /\ [][Next]_lfVars

=============================================================================
