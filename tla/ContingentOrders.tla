-------------------------- MODULE ContingentOrders --------------------------
(***************************************************************************)
(* ContingentOrderManager of luv_contingent_orders.hpp: one-cancels-other  *)
(* pairs and trailing stops in an array that only grows.  Its caller       *)
(* numbers the orders, reports fills and feeds market prices.              *)
(***************************************************************************)
EXTENDS Naturals, FiniteSetsExt, SequencesExt

CONSTANTS
    kMaxOrders,    \* kMaxOrders
    Trails,        \* trailing stops clients ask for: [buy, delta]
    TickPrices,    \* market prices
    MaxTicks       \* bound on the price updates

ASSUME ContingentAssumption ==
    /\ {kMaxOrders, MaxTicks} \subseteq Nat
    /\ TickPrices \subseteq Nat \ {0}
    /\ Trails \subseteq [buy : BOOLEAN, delta : Nat]

VARIABLES
    contingent,   \* orders_ up to order_count_; an order's id is its position
    ticks         \* history: the prices seen

contingentVars == <<contingent, ticks>>

\* The stop of an order whose best price so far is peak.
StopAt(o, peak) ==
    IF o.buy THEN peak + o.delta
    ELSE IF peak > o.delta THEN peak - o.delta ELSE 0

Leg(pair) == [type |-> "oco", pair |-> pair, state |-> "active"]

\* Mutant: the stop stays where it was first set.
PeakOnly(o, price) == [o EXCEPT !.peak = price]

\* A new best price takes the stop with it.
Followed(o, price) == [o EXCEPT !.peak = price, !.stop = StopAt(o, price)]

OnPrice(o, price) ==
    IF o.type # "trailing" \/ o.state # "active" THEN o
    ELSE IF (IF o.buy THEN price < o.peak ELSE price > o.peak) THEN Followed(o, price)
    ELSE IF (IF o.buy THEN price >= o.stop ELSE price <= o.stop /\ o.stop > 0)
         THEN [o EXCEPT !.state = "triggered"]
    ELSE o

Cancelled(orders, id) ==
    IF id \in DOMAIN orders /\ orders[id].state = "active"
    THEN [orders EXCEPT ![id].state = "cancelled"] ELSE orders

-----------------------------------------------------------------------------
ContingentInit == contingent = <<>> /\ ticks = <<>>

add_oco_pair ==
    LET a == Len(contingent) + 1
    IN  /\ Len(contingent) + 2 <= kMaxOrders
        /\ contingent' = contingent \o <<Leg(a + 1), Leg(a)>>
        /\ UNCHANGED ticks

add_trailing_stop(spec, initial) ==
    /\ Len(contingent) < kMaxOrders
    /\ LET o == [type |-> "trailing", state |-> "active", buy |-> spec.buy, delta |-> spec.delta,
                 peak |-> initial, initial |-> initial, since |-> Len(ticks), stop |-> 0]
       IN  contingent' = Append(contingent, [o EXCEPT !.stop = StopAt(o, initial)])
    /\ UNCHANGED ticks

on_market_price(price) ==
    /\ Len(ticks) < MaxTicks
    /\ contingent' = [i \in DOMAIN contingent |-> OnPrice(contingent[i], price)]
    /\ ticks' = Append(ticks, price)

\* Mutant: a fill leaves the other leg working.
FilledAlone(id) == [contingent EXCEPT ![id].state = "filled"]

\* A fill is taken whatever the order's state: one that crossed the cancellation
\* of its leg makes both legs filled.
AfterFill(id) ==
    LET filled == [contingent EXCEPT ![id].state = "filled"]
    IN  IF filled[id].type = "oco" THEN Cancelled(filled, filled[id].pair) ELSE filled

on_order_fill(id) == contingent' = AfterFill(id) /\ UNCHANGED ticks

cancel_contingent(id) == contingent' = Cancelled(contingent, id) /\ UNCHANGED ticks

ContingentNext ==
    \/ add_oco_pair
    \/ \E spec \in Trails, price \in TickPrices : add_trailing_stop(spec, price)
    \/ \E price \in TickPrices : on_market_price(price)
    \/ \E id \in DOMAIN contingent : on_order_fill(id) \/ cancel_contingent(id)

-----------------------------------------------------------------------------
\* The prices an order's stop has followed, and the retreats from the best of
\* them that should have triggered it.
Path(o) == [k \in 1 .. Len(ticks) - o.since + 1 |->
               IF k = 1 THEN o.initial ELSE ticks[o.since + k - 1]]
Retreats(o) ==
    {j \in DOMAIN Path(o) :
        \E i \in 1 .. j - 1 :
            IF o.buy THEN Path(o)[j] >= Path(o)[i] + o.delta
            ELSE Path(o)[i] > o.delta /\ Path(o)[j] <= Path(o)[i] - o.delta}

\* A filled leg has no working partner, and a trailing stop is triggered by the
\* first price that retreats delta from the best one since it was placed,
\* however the prices moved, and by no other.
ContingenciesHold ==
    \A i \in DOMAIN contingent :
        LET o == contingent[i]
        IN  IF o.type = "oco"
            THEN o.state = "filled" => contingent[o.pair].state # "active"
            ELSE /\ o.state = "active" => Retreats(o) = {}
                 /\ o.state = "triggered" => Retreats(o) # {}
=============================================================================
