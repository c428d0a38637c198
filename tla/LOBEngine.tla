----------------------------- MODULE LOBEngine -----------------------------
(***************************************************************************)
(* Depth-of-book reconstruction: class LOBEngine of luv_lob.hpp on the     *)
(* PriceLevel slab of luv_arena.hpp.                                       *)
(*                                                                         *)
(* A book is one side of one symbol.  Its levels are an array kept sorted  *)
(* by shifting; a level holds its orders in a fixed array of slots chained *)
(* into a list in time priority; the index maps an order reference to the  *)
(* place of its slot and must follow every shift.  process() runs under    *)
(* the engine's lock, so every message is one step.                        *)
(*                                                                         *)
(* The index is the map that OrderRefMap implements.  Whether its probe    *)
(* window has room for a new key depends on hash collisions, and is the    *)
(* nondeterministic input "room".  A slot's order_id and its active flag   *)
(* are set and cleared together, so a slot is active when it has a ref.    *)
(* The level totals cannot overflow: kMaxOrdersPerLevel * kMaxQuantity is  *)
(* far below 2^63, so the overflow paths of the handlers have no action.   *)
(***************************************************************************)
EXTENDS Integers, FiniteSets, FiniteSetsExt, Sequences

CONSTANTS
    Refs,          \* order references of the feed
    NoRef,         \* reference 0, the mark of an inactive slot
    Books,         \* (symbol, side) pairs
    Bids,          \* the books that are bid sides
    Prices,        \* valid prices
    Qtys,          \* valid quantities
    MaxLevels,     \* kLevelsPerSide
    MaxOrders,     \* kMaxOrdersPerLevel
    MaxEntries     \* OrderRefMap::kMaxEntries

ASSUME LOBAssumption ==
    /\ NoRef \notin Refs
    /\ Bids \subseteq Books
    /\ Prices \subseteq Nat \ {0}
    /\ Qtys \subseteq Nat \ {0}
    /\ MaxLevels \in Nat \ {0}
    /\ MaxOrders \in Nat \ {0}
    /\ MaxEntries \in Nat

VARIABLES
    levels,     \* the slab: levels[b][k] is the k-th PriceLevel of book b
    depth,      \* _meta: the number of levels in use
    index       \* _order_map

vars == <<levels, depth, index>>

Rows == 0 .. MaxLevels - 1
Places == 0 .. MaxOrders - 1
None == -1

EmptySlot == [ref |-> NoRef, qty |-> 0, next |-> None, prev |-> None]
EmptyLevel == [price |-> 0, total |-> 0, count |-> 0, head |-> None,
               orders |-> [i \in Places |-> EmptySlot]]

Location == [book : Books, row : Rows, place : Places]
Nowhere == [book |-> NoRef, row |-> None, place |-> None]

\* The part of the state a handler works on: one book and the index.
Side(b) == [rows |-> levels[b], depth |-> depth[b], index |-> index]

\* Price p is served before price q.
Ahead(b, p, q) == IF b \in Bids THEN p > q ELSE p < q

-----------------------------------------------------------------------------
(***************************************************************************)
(* Price levels.                                                           *)
(***************************************************************************)

\* The variables of the binary search: at is the row it returns.
Interval == [low : 0 .. MaxLevels, high : -1 .. MaxLevels - 1, at : Rows \cup {None}]

\* One turn of its loop; nothing once it has ended.
Halve(sd, b, price) ==
    [s \in Interval |->
        LET mid == s.low + ((s.high - s.low) \div 2)
            at == sd.rows[mid].price
        IN  IF s.at # None \/ s.low > s.high THEN s
            ELSE IF at = price THEN [s EXCEPT !.at = mid]
            ELSE IF Ahead(b, price, at) THEN [s EXCEPT !.high = mid - 1]
            ELSE [s EXCEPT !.low = mid + 1]]

\* The binary search: the row with this price, or None.  A turn takes at least
\* one row out of the interval, so there are at most MaxLevels.
find_level(sd, b, price) ==
    LET all == [low |-> 0, high |-> sd.depth - 1, at |-> None]
        search[n \in 0 .. MaxLevels] ==
            IF n = 0 THEN all ELSE Halve(sd, b, price)[search[n - 1]]
    IN  search[MaxLevels].at

\* Mutant: the first shifted row is skipped.
refresh_from_next(ix, b, rows, first, last) ==
    [r \in Refs |->
        LET at == {p \in (first + 1 .. last) \X Places : rows[p[1]].orders[p[2]].ref = r}
        IN  IF ix[r] # Nowhere /\ at # {}
            THEN LET p == CHOOSE p \in at : TRUE
                 IN  [book |-> b, row |-> p[1], place |-> p[2]]
            ELSE ix[r]]

\* The index entries of the orders on the shifted rows are rewritten.
refresh_level_locations(ix, b, rows, first, last) ==
    [r \in Refs |->
        LET at == {p \in (first .. last) \X Places : rows[p[1]].orders[p[2]].ref = r}
        IN  IF ix[r] # Nowhere /\ at # {}
            THEN LET p == CHOOSE p \in at : TRUE
                 IN  [book |-> b, row |-> p[1], place |-> p[2]]
            ELSE ix[r]]

insert_pos(sd, b, price) ==
    Min({k \in 0 .. sd.depth - 1 : Ahead(b, price, sd.rows[k].price)} \cup {sd.depth})

\* insert_level_impl(), for a book that is not at its full depth.
insert_level_impl(sd, b, price) ==
    LET pos == insert_pos(sd, b, price)
        rows == [k \in Rows |->
                    CASE k = pos -> [EmptyLevel EXCEPT !.price = price]
                      [] k > pos /\ k <= sd.depth -> sd.rows[k - 1]
                      [] OTHER -> sd.rows[k]]
    IN  [rows  |-> rows,
         depth |-> sd.depth + 1,
         index |-> refresh_level_locations(sd.index, b, rows, pos + 1, sd.depth)]

remove_level_if_empty(sd, b, row) ==
    LET last == sd.depth - 1
        rows == [k \in Rows |->
                    CASE k = last -> EmptyLevel
                      [] k >= row /\ k < last -> sd.rows[k + 1]
                      [] OTHER -> sd.rows[k]]
    IN  IF sd.rows[row].count > 0 \/ sd.depth = 0 THEN sd
        ELSE [rows  |-> rows,
              depth |-> last,
              index |-> refresh_level_locations(sd.index, b, rows, row, last - 1)]

-----------------------------------------------------------------------------
(***************************************************************************)
(* Order slots and the list through them.                                  *)
(***************************************************************************)

\* alloc_slot(): the first inactive place, or None.
alloc_slot(level) ==
    LET free == {i \in Places : level.orders[i].ref = NoRef}
    IN  IF free = {} THEN None ELSE Min(free)

\* One step of the walk along next, which stays at the last slot.
Follow(level) ==
    [i \in Places |-> IF level.orders[i].next = None THEN i ELSE level.orders[i].next]

\* The places of the walk along next from the head.
Walk(level) ==
    LET walk[k \in 0 .. MaxOrders] == IF k = 0 THEN level.head ELSE Follow(level)[walk[k - 1]]
    IN  walk

\* The place it ends at.
TailOf(level) == Walk(level)[MaxOrders]

\* Mutant: the slot is linked in front.
link_in_front(level, i) ==
    [level EXCEPT !.head = i,
                  !.orders = [j \in Places |->
                      CASE j = i -> [level.orders[i] EXCEPT !.next = level.head, !.prev = None]
                        [] j = level.head -> [level.orders[j] EXCEPT !.prev = i]
                        [] OTHER -> level.orders[j]]]

link_slot(level, i) ==
    IF level.head = None
    THEN [level EXCEPT !.head = i, !.orders[i].next = None, !.orders[i].prev = None]
    ELSE [level EXCEPT !.orders[TailOf(level)].next = i,
                       !.orders[i].next = None, !.orders[i].prev = TailOf(level)]

\* Mutant: the follower keeps its link to the slot that left.
unlink_forward(level, i) ==
    LET slot == level.orders[i]
    IN  [level EXCEPT !.head = IF slot.prev = None THEN slot.next ELSE @,
                      !.orders = [j \in Places |->
                          CASE j = slot.prev -> [level.orders[j] EXCEPT !.next = slot.next]
                            [] OTHER -> level.orders[j]]]

\* unlink_slot(); deactivate_slot() follows it everywhere.
unlink_slot(level, i) ==
    LET slot == level.orders[i]
    IN  [level EXCEPT !.head = IF slot.prev = None THEN slot.next ELSE @,
                      !.orders = [j \in Places |->
                          CASE j = slot.prev -> [level.orders[j] EXCEPT !.next = slot.next]
                            [] j = slot.next -> [level.orders[j] EXCEPT !.prev = slot.prev]
                            [] OTHER -> level.orders[j]]]

Unlinked(level, i) == [unlink_slot(level, i) EXCEPT !.orders[i] = EmptySlot]

\* Mutant: the requested quantity is taken whole.
requested_qty(requested, available) == requested

clamped_qty(requested, available) ==
    IF requested <= 0 \/ available <= 0 THEN 0
    ELSE IF requested < available THEN requested ELSE available

valid_location(ref) ==
    LET loc == index[ref]
    IN  /\ loc # Nowhere
        /\ loc.row < depth[loc.book]
        /\ levels[loc.book][loc.row].orders[loc.place].ref = ref
        /\ levels[loc.book][loc.row].count > 0

-----------------------------------------------------------------------------
(***************************************************************************)
(* The two halves the handlers are made of.                                *)
(***************************************************************************)

\* The order leaves its slot, the index and, with its last order, the level.
TornDown(sd, b, ref) ==
    LET loc == sd.index[ref]
        left == [Unlinked(sd.rows[loc.row], loc.place) EXCEPT !.count = @ - 1]
    IN  remove_level_if_empty([sd EXCEPT !.rows[loc.row] = left, !.index[ref] = Nowhere],
                              b, loc.row)

\* Deleted with what is left of its quantity.
Detached(sd, b, ref) ==
    LET loc == sd.index[ref]
        qty == sd.rows[loc.row].orders[loc.place].qty
    IN  TornDown([sd EXCEPT !.rows[loc.row].total = @ - clamped_qty(qty, @)], b, ref)

\* A level for the price: the existing one or a new one.
Opened(sd, b, price) ==
    IF find_level(sd, b, price) = None THEN insert_level_impl(sd, b, price) ELSE sd

\* There is a level for the price with a place in it.
Fits(sd, b, price) ==
    LET row == find_level(sd, b, price)
    IN  IF row = None THEN sd.depth < MaxLevels ELSE alloc_slot(sd.rows[row]) # None

\* Mutant: the level's total is not brought up to date.
AttachedUncounted(sd, b, price, ref, qty) ==
    LET ready == Opened(sd, b, price)
        row == find_level(ready, b, price)
        place == alloc_slot(ready.rows[row])
        slot == [EmptySlot EXCEPT !.ref = ref, !.qty = qty]
        level == link_slot([ready.rows[row] EXCEPT !.orders[place] = slot], place)
    IN  [ready EXCEPT !.rows[row] = [level EXCEPT !.count = @ + 1],
                      !.index[ref] = [book |-> b, row |-> row, place |-> place]]

\* The order enters the first free place of its level and the index.
Attached(sd, b, price, ref, qty) ==
    LET ready == Opened(sd, b, price)
        row == find_level(ready, b, price)
        place == alloc_slot(ready.rows[row])
        slot == [EmptySlot EXCEPT !.ref = ref, !.qty = qty]
        level == link_slot([ready.rows[row] EXCEPT !.orders[place] = slot], place)
    IN  [ready EXCEPT !.rows[row] = [level EXCEPT !.total = @ + qty, !.count = @ + 1],
                      !.index[ref] = [book |-> b, row |-> row, place |-> place]]

\* OrderRefMap's answer for a key it does not hold.
can_insert(ix, room) == Cardinality({r \in Refs : ix[r] # Nowhere}) < MaxEntries /\ room

Becomes(b, sd) ==
    /\ levels' = [levels EXCEPT ![b] = sd.rows]
    /\ depth' = [depth EXCEPT ![b] = sd.depth]
    /\ index' = sd.index

-----------------------------------------------------------------------------
(***************************************************************************)
(* The message handlers.  Messages that only move statistics are left out: *)
(* those process_unlocked() refuses, trades, adds of a known order, a      *)
(* replace of an unknown order or one the pre-flight check refuses, and    *)
(* everything else about an unknown order.                                 *)
(***************************************************************************)
Init ==
    /\ levels = [b \in Books |-> [k \in Rows |-> EmptyLevel]]
    /\ depth = [b \in Books |-> 0]
    /\ index = [r \in Refs |-> Nowhere]

on_add_order(b, price, ref, qty, room) ==
    /\ index[ref] = Nowhere
    /\ Fits(Side(b), b, price) /\ can_insert(index, room)
    /\ Becomes(b, Attached(Side(b), b, price, ref, qty))

\* Mutant: the level made for the order is left behind.
LevelLeftBehind(sd, b, price, ref, qty) == Opened(sd, b, price)

\* The index refuses the order after it has been placed: it is taken out
\* again, with the level that was made for it.
RolledBack(sd, b, price, ref, qty) == Detached(Attached(sd, b, price, ref, qty), b, ref)

on_add_order_rejected(b, price, ref, qty, room) ==
    /\ index[ref] = Nowhere
    /\ ~(Fits(Side(b), b, price) /\ can_insert(index, room))
    /\ Becomes(b, IF Fits(Side(b), b, price)
                  THEN RolledBack(Side(b), b, price, ref, qty) ELSE Side(b))

\* What an execution or a cancellation takes from the order and its level.
Reduced(sd, b, ref, delta) ==
    LET loc == sd.index[ref]
    IN  [sd EXCEPT !.rows[loc.row].orders[loc.place].qty = @ - delta,
                   !.rows[loc.row].total = @ - delta]

\* on_order_executed() and on_order_cancel() do the same to the book.
on_order_executed(ref, qty) ==
    LET loc == index[ref]
        b == loc.book
        rest == levels[b][loc.row].orders[loc.place].qty
        reduced == Reduced(Side(b), b, ref, clamped_qty(qty, rest))
    IN  /\ valid_location(ref)
        /\ Becomes(b, IF reduced.rows[loc.row].orders[loc.place].qty > 0 THEN reduced
                      ELSE TornDown(reduced, b, ref))

on_order_delete(ref) ==
    LET b == index[ref].book
    IN  /\ valid_location(ref)
        /\ Becomes(b, Detached(Side(b), b, ref))

on_order_replace(ref, new, price, qty, room) ==
    LET b == index[ref].book
        left == Detached(Side(b), b, ref)
    IN  /\ valid_location(ref) /\ index[new] = Nowhere
        /\ can_insert(index, room)
        /\ Fits(left, b, price)
        /\ Becomes(b, Attached(left, b, price, new, qty))

\* The book has no level, or the level no place, for the new terms: the
\* original is gone by then.
replace_lost(ref, new, price, room) ==
    LET b == index[ref].book
        left == Detached(Side(b), b, ref)
    IN  /\ valid_location(ref) /\ index[new] = Nowhere
        /\ can_insert(index, room)
        /\ ~Fits(left, b, price)
        /\ Becomes(b, left)

-----------------------------------------------------------------------------
AddMessage ==
    \E b \in Books, price \in Prices, ref \in Refs, qty \in Qtys, room \in BOOLEAN :
        \/ on_add_order(b, price, ref, qty, room)
        \/ on_add_order_rejected(b, price, ref, qty, room)

ReplaceMessage ==
    \E ref, new \in Refs, price \in Prices, room \in BOOLEAN :
        \/ replace_lost(ref, new, price, room)
        \/ \E qty \in Qtys : on_order_replace(ref, new, price, qty, room)

Next ==
    \/ AddMessage
    \/ ReplaceMessage
    \/ \E ref \in Refs : \/ on_order_delete(ref)
                         \/ \E qty \in Qtys : on_order_executed(ref, qty)

Spec == Init /\ [][Next]_vars

-----------------------------------------------------------------------------
(***************************************************************************)
(* Properties.                                                             *)
(***************************************************************************)
Slot == [ref : Refs \cup {NoRef}, qty : Nat, next : Places \cup {None}, prev : Places \cup {None}]

Level == [price : Prices \cup {0}, total : Nat, count : 0 .. MaxOrders,
          head : Places \cup {None}, orders : [Places -> Slot]]

LOBTypeOK ==
    /\ levels \in [Books -> [Rows -> Level]]
    /\ depth \in [Books -> 0 .. MaxLevels]
    /\ index \in [Refs -> Location \cup {Nowhere}]

\* The index and the slab agree through every shift, rollback and reuse of a
\* slot: a reference is indexed exactly where its slot is, and every active
\* slot is indexed.  valid_location() therefore never has anything to refuse.
IndexAgrees ==
    /\ \A r \in Refs :
          index[r] # Nowhere =>
              LET loc == index[r]
              IN  loc.row < depth[loc.book] /\ levels[loc.book][loc.row].orders[loc.place].ref = r
    /\ \A b \in Books, k \in Rows, i \in Places :
          LET r == levels[b][k].orders[i].ref
          IN  r # NoRef => index[r] = [book |-> b, row |-> k, place |-> i]

\* The rows in use are strictly ordered from the best price and none is empty;
\* the rows behind them are clear.  It is what the binary search relies on and
\* what makes row 0 the best bid or ask.
LevelsOrdered ==
    \A b \in Books :
        /\ \A k \in 0 .. depth[b] - 1 : levels[b][k].count > 0
        /\ \A k \in 1 .. depth[b] - 1 : Ahead(b, levels[b][k - 1].price, levels[b][k].price)
        /\ \A k \in depth[b] .. MaxLevels - 1 : levels[b][k] = EmptyLevel

Active(level) == {i \in Places : level.orders[i].ref # NoRef}

\* The quantities of a level's active slots, place by place, and their sum.
Quantities(level) ==
    [n \in 1 .. MaxOrders |-> IF n - 1 \in Active(level) THEN level.orders[n - 1].qty ELSE 0]

TotalQty(level) ==
    LET sum[n \in 0 .. MaxOrders] == IF n = 0 THEN 0 ELSE sum[n - 1] + Quantities(level)[n]
    IN  sum[MaxOrders]

\* A level's order_count and total_qty are those of its active slots.
AggregatesAgree ==
    \A b \in Books, k \in Rows :
        LET level == levels[b][k]
        IN  /\ level.count = Cardinality(Active(level))
            /\ level.total = TotalQty(level)
            /\ \A i \in Active(level) : level.orders[i].qty > 0

\* The list runs through exactly the active slots, in both directions.
ListsLinked ==
    \A b \in Books, k \in Rows :
        LET level == levels[b][k]
            slot == level.orders
        IN  /\ level.head = None <=> Active(level) = {}
            /\ level.head # None => level.head \in Active(level) /\ slot[level.head].prev = None
            /\ \A i \in Active(level) :
                  /\ slot[i].next # None => slot[slot[i].next].prev = i
                  /\ slot[i].prev # None => slot[slot[i].prev].next = i
                  /\ slot[i].prev = None => level.head = i

\* The slab after every message: whatever levels were inserted, shifted, emptied,
\* rolled back or refilled, index, order of levels, totals and lists agree with the
\* slots, and no quantity has been driven below zero.
SlabConsistent == LOBTypeOK /\ IndexAgrees /\ LevelsOrdered /\ AggregatesAgree /\ ListsLinked

-----------------------------------------------------------------------------
(***************************************************************************)
(* The engine implements the abstract book.                                *)
(***************************************************************************)

\* The orders of a level along its list.
Queue(level) ==
    LET order(i) == [ref |-> level.orders[i].ref, qty |-> level.orders[i].qty]
    IN  [k \in 1 .. level.count |-> order(Walk(level)[k - 1])]

QueueAt(b, price) ==
    LET rows == {k \in 0 .. depth[b] - 1 : levels[b][k].price = price}
    IN  IF rows = {} THEN << >> ELSE Queue(levels[b][CHOOSE k \in rows : TRUE])

Abstract == INSTANCE OrderBook WITH
                queues <- [b \in Books |-> [p \in Prices |-> QueueAt(b, p)]]

\* Read along the lists, the levels are queues in time priority that change
\* only by an order joining the end, shrinking in place, leaving, or being
\* replaced at the end of the queue of its new price on the same book.
ImplementsOrderBook == Abstract!Spec

=============================================================================
