---------------------------- MODULE BoundedQueue ----------------------------
(***************************************************************************)
(* What a single-producer single-consumer ring promises: a FIFO queue of   *)
(* at most Capacity values.                                                *)
(***************************************************************************)
EXTENDS Naturals, Sequences

CONSTANTS Values, Capacity

VARIABLE queue

Init == queue = << >>

Put(v) == Len(queue) < Capacity /\ queue' = Append(queue, v)

Take == queue # << >> /\ queue' = Tail(queue)

Next == Take \/ \E v \in Values : Put(v)

Spec == Init /\ [][Next]_queue

=============================================================================
