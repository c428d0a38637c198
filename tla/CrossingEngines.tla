-------------------------- MODULE CrossingEngines --------------------------
(***************************************************************************)
(* Two matching engines of the research headers: DarkPoolEngine of         *)
(* luv_dark_pool.hpp, which fills an incoming order against resting ones   *)
(* by price, display and time, and AuctionCrossEngine of luv_auction.hpp,  *)
(* which finds the price at which an auction would pair most volume.  One  *)
(* symbol; the engines skip the orders of others.                          *)
(***************************************************************************)
EXTENDS Integers, FiniteSets, FiniteSetsExt, SequencesExt

CONSTANTS
    DarkOrders,      \* orders offered to the dark pool
    Takers,          \* incoming orders to match, with their quotes
    MaxResting,      \* kMaxRestingOrders
    MaxFills,        \* max_fills of a call
    MaxAdded,        \* bound on the orders added
    AuctionOrders,   \* orders offered to the auction
    MaxAuction,      \* kMaxAuctionOrders
    AuctionPrices,   \* every price an auction could have
    ReferencePrice   \* reference_price

Sides == {"buy", "sell"}

ASSUME CrossingAssumption ==
    /\ {MaxResting, MaxFills, MaxAuction} \subseteq Nat \ {0} /\ MaxAdded \in Nat
    /\ DarkOrders \subseteq [firm : Nat, side : Sides, mode : {"displayed", "hidden", "midpoint"},
                             price : Int, qty : Nat \ {0}, min_qty : Nat]
    /\ Takers \subseteq [firm : Nat, side : Sides, price : Int, qty : Nat, bid : Nat, ask : Nat]
    /\ AuctionOrders \subseteq [side : Sides, price : Int, qty : Nat \ {0}, is_market : BOOLEAN]
    /\ AuctionPrices \subseteq Int

VARIABLES
    resting,        \* orders_ of the dark pool
    order_count,    \* order_count_ of the dark pool
    added,          \* history: orders added so far; the time of the next one
    filled,         \* history: quantity filled of each order added
    gone,           \* history: quantity cancelled of each order added
    cross,          \* history: the last cross: its taker, the book before it, its fills
    auction         \* orders_ of the auction

darkVars == <<resting, order_count, added, filled, gone, cross>>
crossingVars == <<darkVars, auction>>

DarkSlots == 1 .. MaxResting
Free == [active |-> FALSE]

-----------------------------------------------------------------------------
(***************************************************************************)
(* The dark pool.                                                          *)
(***************************************************************************)
Midpoint(t) == (t.bid + t.ask) \div 2
EffectivePrice(o, t) == IF o.mode = "midpoint" THEN Midpoint(t) ELSE o.price

\* An active order of the other side and of another firm whose price crosses.
Candidate(o, t) ==
    /\ o.active
    /\ o.side # t.side /\ o.firm # t.firm
    /\ IF t.side = "buy" THEN t.price >= EffectivePrice(o, t) ELSE t.price <= EffectivePrice(o, t)

\* Mutant: display is not looked at.
PriceTime(a, b, t) ==
    LET pa == EffectivePrice(a, t)
        pb == EffectivePrice(b, t)
    IN  IF pa # pb THEN (t.side = "buy") = (pa < pb) ELSE a.ts < b.ts

\* The comparison of the sort: better price, then displayed, then earlier.
Before(a, b, t) ==
    LET pa == EffectivePrice(a, t)
        pb == EffectivePrice(b, t)
        da == a.mode = "displayed"
        db == b.mode = "displayed"
    IN  CASE pa # pb -> (t.side = "buy") = (pa < pb)
          [] pa = pb /\ da # db -> da
          [] OTHER -> a.ts < b.ts

\* The candidates as the sort leaves them.
SortedMakers(book, t) ==
    LET found == {i \in DarkSlots : Candidate(book[i], t)}
    IN  CHOOSE s \in [1 .. Cardinality(found) -> found] :
            \A i, j \in DOMAIN s : i < j => Before(book[s[i]], book[s[j]], t)

\* A maker whose minimum the fill would not reach is passed over.
Visit(book, w, i) ==
    LET qty == Min({w.left, book[i].qty})
    IN  IF w.left = 0 \/ Len(w.fills) = MaxFills \/ qty < book[i].min_qty THEN w
        ELSE [left |-> w.left - qty, fills |-> Append(w.fills, <<i, qty>>)]

\* The fills, in order, as <<slot, quantity>>.
Fills(book, t) ==
    FoldLeft(LAMBDA w, i : Visit(book, w, i), [left |-> t.qty, fills |-> <<>>],
             SortedMakers(book, t)).fills

FilledAt(fills, i) ==
    FoldLeft(+, 0, [k \in DOMAIN fills |-> IF fills[k][1] = i THEN fills[k][2] ELSE 0])

DarkInit ==
    /\ resting = [i \in DarkSlots |-> Free]
    /\ order_count = 0
    /\ added = 0
    /\ filled = [n \in 1 .. MaxAdded |-> 0]
    /\ gone = [n \in 1 .. MaxAdded |-> 0]
    /\ cross = [taker |-> [qty |-> 0], before |-> <<>>, fills |-> <<>>]

add_order(o) ==
    LET free == {i \in DarkSlots : ~resting[i].active}
    IN  /\ order_count < MaxResting /\ free # {} /\ added < MaxAdded
        /\ resting' = [resting EXCEPT ![Min(free)] =
                [active |-> TRUE, ts |-> added + 1, size |-> o.qty, firm |-> o.firm,
                 side |-> o.side, mode |-> o.mode, price |-> o.price, qty |-> o.qty,
                 min_qty |-> o.min_qty]]
        /\ order_count' = order_count + 1
        /\ added' = added + 1
        /\ UNCHANGED <<filled, gone, cross, auction>>

cancel_order(i) ==
    /\ resting[i].active
    /\ resting' = [resting EXCEPT ![i] = Free]
    /\ order_count' = order_count - 1
    /\ gone' = [gone EXCEPT ![resting[i].ts] = resting[i].qty]
    /\ UNCHANGED <<added, filled, cross, auction>>

match_cross(t) ==
    LET fills == Fills(resting, t)
        Left(i) == resting[i].qty - FilledAt(fills, i)
        emptied == {i \in {f[1] : f \in ToSet(fills)} : Left(i) = 0}
    IN  /\ resting' = [i \in DarkSlots |->
                CASE i \in emptied -> Free
                  [] ~resting[i].active -> Free
                  [] OTHER -> [resting[i] EXCEPT !.qty = Left(i)]]
        /\ order_count' = order_count - Cardinality(emptied)
        /\ filled' = [n \in 1 .. MaxAdded |->
                filled[n] + FoldLeft(+, 0, [k \in DOMAIN fills |->
                                IF resting[fills[k][1]].ts = n THEN fills[k][2] ELSE 0])]
        /\ cross' = [taker |-> t, before |-> resting, fills |-> fills]
        /\ UNCHANGED <<added, gone, auction>>

DarkNext ==
    \/ \E o \in DarkOrders : add_order(o)
    \/ \E i \in DarkSlots : cancel_order(i)
    \/ \E t \in Takers : match_cross(t)

-----------------------------------------------------------------------------
(***************************************************************************)
(* The auction.                                                            *)
(***************************************************************************)
Meets(o, side, price) ==
    o.side = side /\ (\/ o.is_market
                      \/ side = "buy" /\ o.price >= price
                      \/ side = "sell" /\ o.price <= price)

Volume(side, price) ==
    FoldLeft(+, 0, [k \in DOMAIN auction |->
                        IF Meets(auction[k], side, price) THEN auction[k].qty ELSE 0])

Paired(price) == Min({Volume("buy", price), Volume("sell", price)})

Imbalance(price) ==
    Max({Volume("buy", price), Volume("sell", price)}) - Paired(price)

PriceLevels == {o.price : o \in {p \in ToSet(auction) : ~p.is_market}}

\* Mutant: ties go to the larger imbalance.
ImprovesUnbalanced(p, best) ==
    Paired(p) > Paired(best) \/ (Paired(p) = Paired(best) /\ Imbalance(p) > Imbalance(best))

Improves(p, best) ==
    Paired(p) > Paired(best) \/ (Paired(p) = Paired(best) /\ Imbalance(p) < Imbalance(best))

Ascending ==
    CHOOSE s \in [1 .. Cardinality(PriceLevels) -> PriceLevels] :
        \A i, j \in DOMAIN s : i < j => s[i] < s[j]

\* The scan of the levels from the lowest price.
Best == FoldLeft(LAMBDA b, p : IF Improves(p, b) THEN p ELSE b, Ascending[1], Ascending)

compute_noii ==
    IF PriceLevels = {}
    THEN [price |-> ReferencePrice, paired |-> 0, imbalance |-> 0]
    ELSE [price |-> Best, paired |-> Paired(Best), imbalance |-> Imbalance(Best)]

add_auction_order(o) ==
    /\ Len(auction) < MaxAuction
    /\ auction' = Append(auction, o)
    /\ UNCHANGED darkVars

auction_reset ==
    /\ auction' = <<>>
    /\ UNCHANGED darkVars

AuctionNext == auction_reset \/ \E o \in AuctionOrders : add_auction_order(o)

CrossingInit == DarkInit /\ auction = <<>>

-----------------------------------------------------------------------------
(***************************************************************************)
(* Properties.                                                             *)
(***************************************************************************)

\* No share appears or disappears: what is left, filled and cancelled of a
\* resting order is what was offered, and active_orders() counts what is left.
SharesConserved ==
    LET live == {i \in DarkSlots : resting[i].active}
    IN  /\ order_count = Cardinality(live)
        /\ \A i \in live : /\ resting[i].qty > 0
                           /\ resting[i].qty + filled[resting[i].ts] = resting[i].size
                           /\ gone[resting[i].ts] = 0

\* What the first k fills took.
TakenBy(f, k) == FoldLeft(+, 0, [m \in 1 .. k |-> f[m][2]])

\* Better price, or as good and displayed when the other is not, or alike and earlier.
Better(a, b, t) ==
    LET p == EffectivePrice(a, t)
        q == EffectivePrice(b, t)
    IN  \/ (t.side = "buy" /\ p < q) \/ (t.side = "sell" /\ p > q)
        \/ p = q /\ a.mode = "displayed" /\ b.mode # "displayed"
        \/ p = q /\ ((a.mode = "displayed") = (b.mode = "displayed")) /\ a.ts < b.ts

\* A cross never fills more than the taker wants, and fills a resting order only
\* when every order that comes first by price, display and time was used up
\* before it or could not be filled to its minimum with what was left.
PriorityKept ==
    LET f == cross.fills
        t == cross.taker
        b == cross.before
    IN  /\ TakenBy(f, Len(f)) <= t.qty
        /\ \A k \in DOMAIN f : \A i \in DarkSlots :
                Candidate(b[i], t) /\ Better(b[i], b[f[k][1]], t) =>
                    \/ \E m \in 1 .. k - 1 : f[m] = <<i, b[i].qty>>
                    \/ Min({t.qty - TakenBy(f, k - 1), b[i].qty}) < b[i].min_qty

\* The indicative price pairs as much as any price could, not only as much as the
\* orders' own prices, and of those leaves the least unpaired; without limit
\* orders nothing is paired.
AuctionPairsMost ==
    LET noii == compute_noii
    IN  PriceLevels # {} =>
            /\ \A p \in AuctionPrices : Paired(p) <= noii.paired
            /\ \A p \in PriceLevels : Paired(p) = noii.paired => noii.imbalance <= Imbalance(p)

\* DarkPoolEngine and AuctionCrossEngine: after every sequence of orders, cancels and
\* crosses no share is lost or made, priority was kept, and the auction's price pairs
\* most.
CrossingSound == SharesConserved /\ PriorityKept /\ AuctionPairsMost
=============================================================================
