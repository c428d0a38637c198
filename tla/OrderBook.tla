----------------------------- MODULE OrderBook -----------------------------
(***************************************************************************)
(* What a depth-of-book engine promises its readers: for every book (one   *)
(* side of one symbol) and price, the queue of resting orders in time      *)
(* priority.  How the queues are stored is left open.                      *)
(***************************************************************************)
EXTENDS Naturals, Sequences, SequencesExt

CONSTANTS Refs, Books, Prices, Qtys

VARIABLE queues      \* queues[b][p]: the resting orders, earliest first

Resting(q) == UNION {{q[b][p][k].ref : k \in 1 .. Len(q[b][p])} : b \in Books, p \in Prices}

Init == queues = [b \in Books |-> [p \in Prices |-> << >>]]

(***************************************************************************)
(* The queues q become n.                                                  *)
(***************************************************************************)

\* A new order joins the end of its queue.
Add(q, n, b, p) ==
    \E ref \in Refs \ Resting(q), qty \in Qtys :
        n = [q EXCEPT ![b][p] = Append(@, [ref |-> ref, qty |-> qty])]

\* An execution or a partial cancel: the order shrinks in place.
Reduce(q, n, b, p) ==
    \E k \in 1 .. Len(q[b][p]), qty \in Qtys :
        /\ qty < q[b][p][k].qty
        /\ n = [q EXCEPT ![b][p][k].qty = @ - qty]

\* A filled, cancelled or deleted order leaves its queue.
Leave(q, n, b, p) ==
    \E k \in 1 .. Len(q[b][p]) : n = [q EXCEPT ![b][p] = RemoveAt(@, k)]

\* An order leaves its queue, and its replacement joins the end of the queue
\* of the new price on the same book.
Replace(q, n, b, p) ==
    \E k \in 1 .. Len(q[b][p]), price \in Prices, ref \in Refs \ Resting(q), qty \in Qtys :
        LET left == [q EXCEPT ![b][p] = RemoveAt(@, k)]
        IN  n = [left EXCEPT ![b][price] = Append(@, [ref |-> ref, qty |-> qty])]

Step(q, n) ==
    \E b \in Books, p \in Prices :
        Add(q, n, b, p) \/ Reduce(q, n, b, p) \/ Leave(q, n, b, p) \/ Replace(q, n, b, p)

Next == LET q == queues
            n == queues'
        IN  n # q /\ Step(q, n)

Spec == Init /\ [][Next]_queues

=============================================================================
