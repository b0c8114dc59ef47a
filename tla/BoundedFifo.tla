---------------------------- MODULE BoundedFifo ----------------------------
(***************************************************************************)
(* What a ring queue in device memory promises: messages come out in the   *)
(* order they went in, each exactly once, and never more than Capacity are *)
(* in it.                                                                  *)
(***************************************************************************)
EXTENDS Naturals, Sequences

CONSTANTS Message, Capacity

VARIABLE queue

Init == queue = <<>>

Put(m) == Len(queue) < Capacity /\ queue' = Append(queue, m)

Get == queue # <<>> /\ queue' = Tail(queue)

Next == Get \/ \E m \in Message : Put(m)

Spec == Init /\ [][Next]_queue
=============================================================================
