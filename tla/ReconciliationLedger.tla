------------------------ MODULE ReconciliationLedger ------------------------
(***************************************************************************)
(* The open-order table of the execution gateway: template class           *)
(* ReconciliationLedger in luv_safety.hpp, an open-addressing hash table   *)
(* with linear probing, no tombstones, and backward re-insertion of the    *)
(* probe cluster behind a cancelled entry.                                 *)
(*                                                                         *)
(* Order id 0 marks an empty entry.  The hash (a 64-bit mixer) is the      *)
(* parameter IdHash, so that any pattern of collisions can be chosen.        *)
(***************************************************************************)
EXTENDS Naturals, FiniteSets, FiniteSetsExt, SequencesExt

CONSTANTS OrderIds,            \* order ids offered by the caller, never 0
          TableCapacity,       \* number of entries, a power of two in the code
          IdHash,           \* IdHash[id]: the home slot of an id
          LedgerQtys,           \* quantities offered by the caller
          MaxOpen,        \* bound on the open-order counter
          MaxMismatches   \* bound on the mismatch counter

ASSUME LedgerAssumption ==
    /\ TableCapacity \in Nat \ {0}
    /\ OrderIds \subseteq Nat \ {0}
    /\ IdHash \in [OrderIds -> 0 .. TableCapacity - 1]
    /\ LedgerQtys \subseteq Nat \ {0}

VARIABLES entries,      \* _entries
          open_orders,         \* _open
          mismatches,   \* _mismatches
          holed         \* history: apply() freed an entry inside a cluster

ledgerVars == <<entries, open_orders, mismatches, holed>>

EntrySlots == 0 .. TableCapacity - 1
Entry == [id : OrderIds \cup {0}, rem : Nat]
EmptyEntry == [id |-> 0, rem |-> 0]
Nowhere == TableCapacity     \* a null Entry pointer

Succ(slot) == (slot + 1) % TableCapacity

(***************************************************************************)
(* The private probing helpers, as functions of the table.                 *)
(***************************************************************************)

\* The first slot on id's probe path that holds id or is empty.
find_or_empty(t, id) ==
    LET Probe(d) == (IdHash[id] + d) % TableCapacity
        Stops == {d \in EntrySlots : t[Probe(d)].id \in {id, 0}}
    IN  IF Stops = {} THEN Nowhere ELSE Probe(Min(Stops))

find(t, id) ==
    LET slot == find_or_empty(t, id)
    IN  IF slot # Nowhere /\ t[slot].id = id THEN slot ELSE Nowhere

\* Mutant: the entries behind the freed slot stay where they are.
LeaveCluster(t, removed) == t

\* One turn of the walk: the entry at the slot is taken out and put back where
\* its probe now ends; an empty slot ends the walk.
Reinserted(w) ==
    IF w.tab[w.slot].id = 0 THEN w
    ELSE LET displaced == w.tab[w.slot]
             cleared == [w.tab EXCEPT ![w.slot] = EmptyEntry]
             home == find_or_empty(cleared, displaced.id)
         IN  [tab |-> [cleared EXCEPT ![home] = displaced], slot |-> Succ(w.slot)]

\* The walk that re-inserts every entry behind a freed slot until it meets
\* an empty one.  A full table lets the walk lap once, hence 2 * TableCapacity.
reinsert_cluster(t, removed) ==
    FoldLeft(LAMBDA w, n : Reinserted(w), [tab |-> t, slot |-> Succ(removed)],
             [n \in 1 .. 2 * TableCapacity |-> n]).tab

contains(t, id) == find(t, id) # Nowhere

\* The report matches a stored order.
fits(t, id, filled) == contains(t, id) /\ filled <= t[find(t, id)].rem

\* cancel() leaves the table this way: the entry is freed and the entries
\* behind it move up.
CancelledTable(t, id) ==
    LET slot == find(t, id)
    IN  reinsert_cluster([t EXCEPT ![slot] = EmptyEntry], slot)

-----------------------------------------------------------------------------
(***************************************************************************)
(* The public operations.  A call that returns false without changing the  *)
(* table is a step that changes nothing and is left out.                   *)
(***************************************************************************)

LedgerInit == /\ entries = [slot \in EntrySlots |-> EmptyEntry]
        /\ open_orders = 0
        /\ mismatches = 0
        /\ holed = FALSE

register_order(id, quantity) ==
    LET slot == find_or_empty(entries, id)
    IN  /\ slot # Nowhere
        /\ entries[slot].id = 0
        /\ open_orders < MaxOpen
        /\ entries' = [entries EXCEPT ![slot] = [id |-> id, rem |-> quantity]]
        /\ open_orders' = open_orders + 1
        /\ UNCHANGED <<mismatches, holed>>

replace(id, newQuantity) ==
    /\ contains(entries, id)
    /\ entries' = [entries EXCEPT ![find(entries, id)].rem = newQuantity]
    /\ UNCHANGED <<open_orders, mismatches, holed>>

\* A matching report.  A terminal report, or one that leaves nothing, frees
\* the entry in place: the cluster behind it is not re-inserted.
apply(id, filled, terminal) ==
    LET slot == find(entries, id)
        left == entries[slot].rem - filled
        frees == terminal \/ left = 0
    IN  /\ fits(entries, id, filled)
        /\ entries' = [entries EXCEPT ![slot] =
                          IF frees THEN EmptyEntry ELSE [@ EXCEPT !.rem = left]]
        /\ open_orders' = IF frees THEN open_orders - 1 ELSE open_orders
        /\ holed' = (holed \/ (frees /\ entries[Succ(slot)].id # 0))
        /\ UNCHANGED mismatches

\* An unknown order, or a fill beyond the remaining quantity.
apply_mismatch(id, filled) ==
    /\ ~fits(entries, id, filled)
    /\ mismatches < MaxMismatches
    /\ mismatches' = mismatches + 1
    /\ UNCHANGED <<entries, open_orders, holed>>

cancel(id) ==
    /\ contains(entries, id)
    /\ entries' = CancelledTable(entries, id)
    /\ open_orders' = open_orders - 1
    /\ UNCHANGED <<mismatches, holed>>

LedgerNext == \E id \in OrderIds :
            \/ cancel(id)
            \/ \E q \in LedgerQtys : \/ register_order(id, q)
                               \/ replace(id, q)
                               \/ apply_mismatch(id, q)
                               \/ \E terminal \in BOOLEAN : apply(id, q, terminal)

-----------------------------------------------------------------------------
(***************************************************************************)
(* Properties.                                                             *)
(***************************************************************************)

\* Until apply() has freed an entry with a neighbour behind it, every stored
\* order is found by its own probe: cancel()'s re-insertion never strands an
\* order, whatever collides with whatever, no id is stored twice, and
\* open_orders() is the number of stored orders.  After such a hole the same id
\* can be registered twice and the counter drifts from the table.
EveryOrderReachable ==
    ~holed =>
        LET Used == {slot \in EntrySlots : entries[slot].id # 0}
        IN  /\ \A slot \in Used : find(entries, entries[slot].id) = slot
            /\ open_orders = Cardinality(Used)

=============================================================================
