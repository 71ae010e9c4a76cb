----------------------------- MODULE ClientQueue -----------------------------
(***************************************************************************)
(* A StatsdClient as the code around it sees it: a bounded queue that      *)
(* producers offer PDUs to with try_send, that the client's task takes     *)
(* from in order, that closes when the last handle is dropped, and whose   *)
(* task then ends.  The task ends with the queue drained, or it gives up   *)
(* and drops what is still queued.  Backends abstracts every client to     *)
(* this interface; StatsdClient is shown to implement it.                  *)
(***************************************************************************)
EXTENDS Naturals, Sequences

CONSTANTS
    Msgs,   \* the PDUs
    Cap     \* capacity of the queue

VARIABLES
    cq,      \* the queue
    open,    \* some handle is alive
    exited   \* the client's task has ended

vars == <<cq, open, exited>>

Init ==
    /\ cq = <<>>
    /\ open = TRUE
    /\ exited = FALSE

\* A producer with a handle queues m; a full queue, or one whose receiver
\* has gone, refuses it and nothing changes.
Offer(m) ==
    /\ open
    /\ ~exited
    /\ Len(cq) < Cap
    /\ cq' = Append(cq, m)
    /\ UNCHANGED <<open, exited>>

\* The task takes the oldest PDU.
Take ==
    /\ ~exited
    /\ cq # <<>>
    /\ cq' = Tail(cq)
    /\ UNCHANGED <<open, exited>>

\* The last handle is dropped.
Close ==
    /\ open
    /\ open' = FALSE
    /\ UNCHANGED <<cq, exited>>

\* The task ends on a closed and drained queue.
Exit ==
    /\ ~open
    /\ ~exited
    /\ cq = <<>>
    /\ exited' = TRUE
    /\ UNCHANGED <<cq, open>>

\* The task gives up after the close and drops what is still queued.
Abandon ==
    /\ ~open
    /\ ~exited
    /\ exited' = TRUE
    /\ cq' = <<>>
    /\ UNCHANGED open

Next ==
    \/ \E m \in Msgs : Offer(m)
    \/ Take
    \/ Close
    \/ Exit
    \/ Abandon

Spec == Init /\ [][Next]_vars

=============================================================================
