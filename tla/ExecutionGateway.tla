-------------------------- MODULE ExecutionGateway --------------------------
(***************************************************************************)
(* The execution gateway of luv_execution.hpp with the parts it owns: the  *)
(* per-symbol order slots and risk state of the arena, the pending-order   *)
(* rate limiter, the circuit breaker in the configuration the gateway      *)
(* constructs it with (one failure opens it, no cool-down, no half-open    *)
(* probes), the open-order ledger and the recovery log.                    *)
(*                                                                         *)
(* The gateway is owned by one thread and every public call runs to        *)
(* completion, so every call is one step.  The ledger is the map that      *)
(* ReconciliationLedger implements while no two ids share a probe cluster. *)
(* Calls that return without changing anything are left out.               *)
(***************************************************************************)
EXTENDS Integers, FiniteSets, RecoveryLedger

CONSTANTS
    NoId,            \* order id 0, which marks a cleared slot
    Symbols,         \* symbols
    IdPairs,         \* the <<symbol, id>> pairs callers submit orders under
    MaxActive,       \* kMaxActiveOrders: order slots per symbol
    RateLimit,       \* pending orders the rate limiter admits
    Qtys,            \* order quantities callers use
    Prices,          \* order prices callers use
    MaxOrderQty,     \* RiskLimits.max_order_qty
    MaxAbsPosition,  \* RiskLimits.max_abs_position
    MaxRejections,   \* RiskLimits.max_consecutive_rejections
    Outcomes,        \* what a recovery-log append can come to
    NetBound,        \* bound: replace reports keep |net_position| below it
    RejectBound,     \* bound on a symbol's reject_count
    FillBound        \* bound on the number of fills applied

ASSUME GatewayAssumption ==
    /\ IsFiniteSet(Symbols)
    /\ IdPairs \subseteq Symbols \X Ids
    /\ NoId \notin Ids
    /\ MaxActive \in Nat
    /\ RateLimit \in Nat
    /\ Qtys \subseteq Nat \ {0}
    /\ Prices \subseteq Nat \ {0}
    /\ MaxOrderQty \in Nat
    /\ MaxAbsPosition \in Nat
    /\ MaxRejections \in Nat
    /\ Outcomes \subseteq AppendOutcomes

VARIABLES
    orders,      \* exec_states[s].orders
    risk,        \* exec_states[s].risk
    pending,     \* _rate_limiter._pending
    breaker,     \* _breaker.state()
    ledger,      \* _reconciliation: remaining quantity by id, 0 if absent
    wal,         \* the recovery log
    reports,     \* _fill_report_count and _dropped_fill_notifications
    settled      \* history: executed quantity and cost by symbol

vars == <<orders, risk, pending, breaker, ledger, wal, reports, settled>>

Slots == 1 .. MaxActive
Sides == {"buy", "sell"}
SlotStates == {"empty", "live", "partial", "done"}

EmptyOrder == [id |-> NoId, price |-> 0, qty |-> 0, filled |-> 0,
               side |-> "buy", state |-> "empty"]

InitialRisk == [net |-> 0, gross |-> 0, count |-> 0, rejects |-> 0, halted |-> FALSE]

Open(order) == order.state \in {"live", "partial"}

signed_qty_delta(side, qty) == IF side = "buy" THEN qty ELSE -qty

Abs(x) == IF x < 0 THEN -x ELSE x

\* Mutant: the scan runs from the last slot down.
LastMatch(s, id, i) ==
    /\ orders[s][i].id = id /\ orders[s][i].state # "empty"
    /\ \A j \in i + 1 .. MaxActive : ~(orders[s][j].id = id /\ orders[s][j].state # "empty")

\* The slot a scan for id stops at: the first one that is not empty.
FirstMatch(s, id, i) ==
    /\ orders[s][i].id = id /\ orders[s][i].state # "empty"
    /\ \A j \in 1 .. i - 1 : ~(orders[s][j].id = id /\ orders[s][j].state # "empty")

NoMatch(s, id) ==
    \A i \in Slots : ~(orders[s][i].id = id /\ orders[s][i].state # "empty")

\* Mutant: the last free slot is picked.
LastFree(s, i) == ~Open(orders[s][i]) /\ \A j \in i + 1 .. MaxActive : Open(orders[s][j])

\* The slot reserve_order_slot() picks: the first one empty or terminal.
FirstFree(s, i) == ~Open(orders[s][i]) /\ \A j \in 1 .. i - 1 : Open(orders[s][j])

\* release_order_slot(): the first slot under the id is cleared, whatever its
\* state.
release_order_slot(slots, id) ==
    [i \in Slots |-> IF slots[i].id = id /\ \A j \in 1 .. i - 1 : slots[j].id # id
                     THEN EmptyOrder ELSE slots[i]]

Reserved(r, side, qty, price) ==
    [r EXCEPT !.net = @ + signed_qty_delta(side, qty), !.gross = @ + price * qty]

\* Mutant: the exposure is not given back.
release_position(r, side, qty, price) == [r EXCEPT !.net = @ - signed_qty_delta(side, qty)]

release_reservation(r, side, qty, price) ==
    [r EXCEPT !.net = @ - signed_qty_delta(side, qty), !.gross = @ - price * qty]

OneFewer(n) == IF n > 0 THEN n - 1 ELSE 0

\* Mutant: the count is not given back.
ClosedUncounted(r) == r

\* order_count goes up with an order that opens and down with one that ends.
Opened(r) == [r EXCEPT !.count = @ + 1]

Closed(r) == [r EXCEPT !.count = OneFewer(@)]

CountedReject(r) == [r EXCEPT !.rejects = @ + 1]

Halted(r) == [r EXCEPT !.halted = TRUE]

-----------------------------------------------------------------------------
(***************************************************************************)
(* Failing closed: a report the gateway cannot reconcile halts the symbol  *)
(* and trips the breaker.                                                  *)
(***************************************************************************)
HaltAndTrip(s) ==
    /\ risk' = [risk EXCEPT ![s] = Halted(@)]
    /\ breaker' = "open"
    /\ UNCHANGED <<orders, pending, ledger, reports, settled>>

Init ==
    /\ orders = [s \in Symbols |-> [i \in Slots |-> EmptyOrder]]
    /\ risk = [s \in Symbols |-> InitialRisk]
    /\ pending = 0
    /\ breaker = "closed"
    /\ ledger = [id \in Ids |-> 0]
    /\ wal = EmptyLog
    /\ reports = [applied |-> 0, dropped |-> 0]
    /\ settled = [s \in Symbols |-> [qty |-> 0, cost |-> 0]]

-----------------------------------------------------------------------------
(***************************************************************************)
(* try_build: admission of a new order.  "sound" stands for the checks of  *)
(* PreTradeRisk::evaluate that read only the intent and the limits: alpha  *)
(* age, price range and collar, loss limit and notional overflow.          *)
(***************************************************************************)
evaluate(s, side, qty, sound) ==
    /\ qty <= MaxOrderQty
    /\ Abs(risk[s].net + signed_qty_delta(side, qty)) <= MaxAbsPosition
    /\ ~risk[s].halted
    /\ sound

Admits == breaker = "closed" /\ pending < RateLimit

\* The breaker or the rate limiter refuses: the symbol halts.
try_build_blocked(s) ==
    /\ ~Admits
    /\ risk[s].rejects < RejectBound
    /\ risk' = [risk EXCEPT ![s] = Halted(CountedReject(@))]
    /\ UNCHANGED <<orders, pending, breaker, ledger, wal, reports, settled>>

\* Pre-trade risk refuses: the limiter's token is handed back.
try_build_refused(s, side, qty, sound) ==
    /\ Admits
    /\ ~evaluate(s, side, qty, sound)
    /\ risk[s].rejects < RejectBound
    /\ risk' = [risk EXCEPT ![s] = CountedReject(@)]
    /\ UNCHANGED <<orders, pending, breaker, ledger, wal, reports, settled>>

\* The symbol already has kMaxActiveOrders orders.
try_build_full(s, side, qty) ==
    /\ Admits
    /\ evaluate(s, side, qty, TRUE)
    /\ risk[s].count >= MaxActive
    /\ risk[s].rejects < RejectBound
    /\ risk' = [risk EXCEPT ![s] = Halted(CountedReject(@))]
    /\ UNCHANGED <<orders, pending, breaker, ledger, wal, reports, settled>>

\* The ledger already has an order under this id.
try_build_duplicate(s, id, side, qty) ==
    /\ Admits
    /\ evaluate(s, side, qty, TRUE)
    /\ risk[s].count < MaxActive
    /\ ledger[id] # 0
    /\ risk[s].rejects < RejectBound
    /\ risk' = [risk EXCEPT ![s] = CountedReject(@)]
    /\ breaker' = "open"
    /\ UNCHANGED <<orders, pending, ledger, wal, reports, settled>>

\* reserve_order_slot(), for the slots and for the risk state.
ReservedSlots(s, i, id, side, qty, price) ==
    [orders[s] EXCEPT ![i] = [id |-> id, price |-> price, qty |-> qty, filled |-> 0,
                              side |-> side, state |-> "live"]]

Reservable(s, i, id, side, qty) ==
    /\ Admits
    /\ evaluate(s, side, qty, TRUE)
    /\ risk[s].count < MaxActive
    /\ ledger[id] = 0
    /\ FirstFree(s, i)

\* The order is reserved, then the audit log or the recovery log fails:
\* ledger entry, slot, reservation and token are all given back.
try_build_unlogged(s, i, id, side, qty, price, failure) ==
    /\ Reservable(s, i, id, side, qty)
    /\ risk[s].rejects < RejectBound
    /\ orders' = [orders EXCEPT ![s] =
                    release_order_slot(ReservedSlots(s, i, id, side, qty, price), id)]
    /\ risk' = [risk EXCEPT ![s] = CountedReject(@)]
    /\ breaker' = "open"
    /\ wal' = IF failure = "audit" THEN wal
              ELSE Appended(wal, Event("Add", id, qty, price, side), failure)
    /\ UNCHANGED <<pending, ledger, reports, settled>>

try_build(s, i, id, side, qty, price) ==
    /\ Reservable(s, i, id, side, qty)
    /\ orders' = [orders EXCEPT ![s] = ReservedSlots(s, i, id, side, qty, price)]
    /\ risk' = [risk EXCEPT ![s] = Opened(Reserved(@, side, qty, price))]
    /\ pending' = pending + 1
    /\ ledger' = [ledger EXCEPT ![id] = qty]
    /\ wal' = Appended(wal, Event("Add", id, qty, price, side), "ok")
    /\ UNCHANGED <<breaker, reports, settled>>

\* reserve_order_slot() also returns false when it finds no free slot.  The
\* count it checks first equals the number of open slots (SlotAccounting), so
\* that path is dead and has no action.

-----------------------------------------------------------------------------
(***************************************************************************)
(* try_replace only checks and encodes; apart from the reject counter, the *)
(* halt flag and the breaker it changes nothing.                           *)
(***************************************************************************)
Replaceable(s, id) ==
    ledger[id] # 0 /\ \E i \in Slots : orders[s][i].id = id /\ Open(orders[s][i])

try_replace_blocked(s) ==
    /\ breaker = "open"
    /\ risk[s].rejects < RejectBound
    /\ risk' = [risk EXCEPT ![s] = Halted(CountedReject(@))]
    /\ UNCHANGED <<orders, pending, breaker, ledger, wal, reports, settled>>

\* The order is unknown, or the replacement fails pre-trade risk as if it
\* were a new order on the side of the original.
try_replace_refused(s, id, qty, sound) ==
    /\ breaker = "closed"
    /\ Replaceable(s, id) =>
         \E i \in Slots : /\ orders[s][i].id = id /\ Open(orders[s][i])
                          /\ ~evaluate(s, orders[s][i].side, qty, sound)
    /\ risk[s].rejects < RejectBound
    /\ risk' = [risk EXCEPT ![s] = CountedReject(@)]
    /\ UNCHANGED <<orders, pending, breaker, ledger, wal, reports, settled>>

try_replace_unaudited(s, id, qty) ==
    /\ breaker = "closed"
    /\ ledger[id] # 0
    /\ \E i \in Slots : /\ orders[s][i].id = id /\ Open(orders[s][i])
                        /\ evaluate(s, orders[s][i].side, qty, TRUE)
    /\ risk[s].rejects < RejectBound
    /\ risk' = [risk EXCEPT ![s] = CountedReject(@)]
    /\ breaker' = "open"
    /\ UNCHANGED <<orders, pending, ledger, wal, reports, settled>>

-----------------------------------------------------------------------------
(***************************************************************************)
(* Reports from the venue or the simulator.                                *)
(***************************************************************************)

\* No slot carries the id: fill and cancel reports fail closed.
report_unknown(s, id) ==
    /\ NoMatch(s, id)
    /\ HaltAndTrip(s)
    /\ UNCHANGED wal

\* A fill that is not positive, exceeds the order, or whose id the ledger does
\* not know.
fill_mismatched(s, i, id, qty) ==
    /\ FirstMatch(s, id, i)
    /\ qty <= 0 \/ qty > orders[s][i].qty \/ ledger[id] = 0
    /\ HaltAndTrip(s)
    /\ UNCHANGED wal

FillEvent(order, qty, terminal) ==
    Event(IF terminal /\ qty < order.qty THEN "TerminalFill" ELSE "Fill",
          order.id, qty, order.price, order.side)

\* The recovery log fails, or the ledger refuses what the log already holds.
fill_unlogged(s, i, id, qty, terminal, outcome) ==
    /\ FirstMatch(s, id, i)
    /\ qty > 0 /\ qty <= orders[s][i].qty /\ ledger[id] # 0
    /\ outcome # "ok" \/ qty > ledger[id]
    /\ wal' = Appended(wal, FillEvent(orders[s][i], qty, terminal), outcome)
    /\ HaltAndTrip(s)

\* Mutant: the report is taken for the cumulative quantity.
CumulativelyFilled(order, qty, terminal) ==
    [order EXCEPT !.filled = @ + qty, !.qty = @ - (order.filled + qty),
                  !.state = IF terminal \/ qty = order.qty THEN "done" ELSE "partial"]

\* The slot and the risk state after a fill.
FilledOrder(order, qty, terminal) ==
    [order EXCEPT !.filled = @ + qty, !.qty = @ - qty,
                  !.state = IF terminal \/ qty = order.qty THEN "done" ELSE "partial"]

FilledRisk(r, order, qty, terminal) ==
    LET left == order.qty - qty
        ends == terminal \/ left = 0
        kept == IF terminal /\ left > 0
                THEN release_reservation(r, order.side, left, order.price) ELSE r
    IN  IF ends THEN Closed(kept) ELSE kept

\* Mutants: the terminal flag, or the quantity, is ignored.
ReconciledIgnoringEnd(id, qty, terminal) == [ledger EXCEPT ![id] = @ - qty]

ReconciledIgnoringQty(id, qty, terminal) == [ledger EXCEPT ![id] = IF terminal THEN 0 ELSE @]

\* _reconciliation.apply(): the entry goes with the order.
Reconciled(id, qty, terminal) == [ledger EXCEPT ![id] = IF terminal THEN 0 ELSE @ - qty]

apply_execution_report(s, i, id, qty, terminal, delivered) ==
    LET order == orders[s][i]
    IN  /\ FirstMatch(s, id, i)
        /\ qty > 0 /\ qty <= order.qty /\ ledger[id] # 0 /\ qty <= ledger[id]
        /\ reports.applied < FillBound
        /\ orders' = [orders EXCEPT ![s][i] = FilledOrder(@, qty, terminal)]
        /\ risk' = [risk EXCEPT ![s] = FilledRisk(@, order, qty, terminal)]
        /\ pending' = IF terminal \/ qty = order.qty THEN OneFewer(pending) ELSE pending
        /\ ledger' = Reconciled(id, qty, terminal)
        /\ wal' = Appended(wal, FillEvent(order, qty, terminal), "ok")
        /\ reports' = [applied |-> reports.applied + 1,
                       dropped |-> reports.dropped + (IF delivered THEN 0 ELSE 1)]
        /\ settled' = [settled EXCEPT
                         ![s].qty = @ + signed_qty_delta(order.side, qty),
                         ![s].cost = @ + order.price * qty]
        /\ UNCHANGED breaker

\* An open slot whose id the ledger does not know, or a failing log.
cancel_unlogged(s, i, id, outcome) ==
    /\ FirstMatch(s, id, i)
    /\ Open(orders[s][i])
    /\ ledger[id] = 0 \/ outcome # "ok"
    /\ wal' = IF ledger[id] = 0 THEN wal
              ELSE Appended(wal, Event("Cancel", id, orders[s][i].qty,
                                       orders[s][i].price, orders[s][i].side), outcome)
    /\ HaltAndTrip(s)

apply_cancel_report(s, i, id) ==
    LET order == orders[s][i]
    IN  /\ FirstMatch(s, id, i)
        /\ Open(order)
        /\ ledger[id] # 0
        /\ orders' = [orders EXCEPT ![s][i] = EmptyOrder]
        /\ risk' = [risk EXCEPT ![s] =
                      Closed(release_reservation(@, order.side, order.qty, order.price))]
        /\ pending' = OneFewer(pending)
        /\ ledger' = [ledger EXCEPT ![id] = 0]
        /\ wal' = Appended(wal, Event("Cancel", id, order.qty, order.price, order.side), "ok")
        /\ UNCHANGED <<breaker, reports, settled>>

\* The simulator-local cancel of the REST interface: the open order is looked
\* up by id in every symbol.
cancel_order(id) ==
    \E s \in Symbols, i \in Slots :
        /\ \E j \in Slots : orders[s][j].id = id /\ Open(orders[s][j])
        /\ apply_cancel_report(s, i, id)

\* Replace reports look for an open order, passing over terminal slots.
FirstOpen(s, id, i) ==
    /\ orders[s][i].id = id /\ Open(orders[s][i])
    /\ \A j \in 1 .. i - 1 : ~(orders[s][j].id = id /\ Open(orders[s][j]))

replace_unknown(s, id) ==
    /\ \A i \in Slots : ~(orders[s][i].id = id /\ Open(orders[s][i]))
    /\ HaltAndTrip(s)
    /\ UNCHANGED wal

\* Mutant: the old terms are logged.
OldTermsEvent(order, qty, price) == Event("Replace", order.id, order.qty, order.price, order.side)

ReplaceEvent(order, qty, price) == Event("Replace", order.id, qty, price, order.side)

\* The ledger does not know the id, the terms are not positive, or the log
\* fails.
replace_unlogged(s, i, id, qty, price, outcome) ==
    /\ FirstOpen(s, id, i)
    /\ ledger[id] = 0 \/ qty <= 0 \/ outcome # "ok"
    /\ wal' = IF ledger[id] = 0 \/ qty <= 0 THEN wal
              ELSE Appended(wal, ReplaceEvent(orders[s][i], qty, price), outcome)
    /\ HaltAndTrip(s)

\* The venue accepted new terms: the reservation moves to them without a
\* further risk check.
apply_replace_report(s, i, id, qty, price) ==
    LET order == orders[s][i]
        freed == release_reservation(risk[s], order.side, order.qty, order.price)
    IN  /\ FirstOpen(s, id, i)
        /\ ledger[id] # 0
        /\ Abs(freed.net + signed_qty_delta(order.side, qty)) <= NetBound
        /\ orders' = [orders EXCEPT ![s][i].qty = qty, ![s][i].price = price]
        /\ risk' = [risk EXCEPT ![s] = Reserved(freed, order.side, qty, price)]
        /\ ledger' = [ledger EXCEPT ![id] = qty]
        /\ wal' = Appended(wal, ReplaceEvent(order, qty, price), "ok")
        /\ UNCHANGED <<pending, breaker, reports, settled>>

\* Mutant: the reject is not counted.
RejectedUncounted(r) == IF r.rejects + 1 >= MaxRejections THEN Halted(r) ELSE r

\* Every reject report counts against the symbol and opens the breaker; the
\* count is cumulative, and past its limit the symbol halts.
RejectedRisk(r) ==
    IF r.rejects + 1 >= MaxRejections THEN Halted(CountedReject(r)) ELSE CountedReject(r)

reject_unknown(s, id) ==
    /\ NoMatch(s, id)
    /\ risk[s].rejects < RejectBound
    /\ risk' = [risk EXCEPT ![s] = RejectedRisk(@)]
    /\ breaker' = "open"
    /\ UNCHANGED <<orders, pending, ledger, wal, reports, settled>>

\* A reject of an open order undoes its reservation.  Nothing is logged.
apply_reject_report(s, i, id) ==
    LET order == orders[s][i]
    IN  /\ FirstMatch(s, id, i)
        /\ Open(order)
        /\ risk[s].rejects < RejectBound
        /\ orders' = [orders EXCEPT ![s][i] = EmptyOrder]
        /\ risk' = [risk EXCEPT ![s] =
                      Closed(release_reservation(RejectedRisk(@), order.side, order.qty,
                                                 order.price))]
        /\ breaker' = "open"
        /\ pending' = OneFewer(pending)
        /\ ledger' = [ledger EXCEPT ![id] = 0]
        /\ UNCHANGED <<wal, reports, settled>>

-----------------------------------------------------------------------------
(***************************************************************************)
(* Operator controls.                                                      *)
(***************************************************************************)
halt_symbol(s) ==
    /\ ~risk[s].halted
    /\ risk' = [risk EXCEPT ![s] = Halted(@)]
    /\ UNCHANGED <<orders, pending, breaker, ledger, wal, reports, settled>>

resume_symbol(s) ==
    /\ risk[s].halted
    /\ risk' = [risk EXCEPT ![s].halted = FALSE]
    /\ UNCHANGED <<orders, pending, breaker, ledger, wal, reports, settled>>

\* circuit_breaker().reset()
reset_breaker ==
    /\ breaker = "open"
    /\ breaker' = "closed"
    /\ UNCHANGED <<orders, risk, pending, ledger, wal, reports, settled>>

-----------------------------------------------------------------------------
Submission(s, id) ==
    \E side \in Sides, qty \in Qtys :
        \/ \E sound \in BOOLEAN : try_build_refused(s, side, qty, sound)
        \/ try_build_full(s, side, qty)
        \/ try_build_duplicate(s, id, side, qty)
        \/ \E i \in Slots, price \in Prices :
              \/ try_build(s, i, id, side, qty, price)
              \/ \E failure \in {"audit"} \cup (Outcomes \ {"ok"}) :
                    try_build_unlogged(s, i, id, side, qty, price, failure)

Replacement(s, id) ==
    \E qty \in Qtys : \/ try_replace_unaudited(s, id, qty)
                      \/ \E sound \in BOOLEAN : try_replace_refused(s, id, qty, sound)

FillReport(s, id) ==
    \E i \in Slots, qty \in Qtys \cup {0} :
        \/ fill_mismatched(s, i, id, qty)
        \/ \E terminal \in BOOLEAN :
              \/ \E outcome \in Outcomes : fill_unlogged(s, i, id, qty, terminal, outcome)
              \/ \E delivered \in BOOLEAN :
                    apply_execution_report(s, i, id, qty, terminal, delivered)

CancelReport(s, id) ==
    \E i \in Slots : \/ apply_cancel_report(s, i, id)
                     \/ \E outcome \in Outcomes : cancel_unlogged(s, i, id, outcome)

ReplaceReport(s, id) ==
    \/ replace_unknown(s, id)
    \/ \E i \in Slots, price \in Prices :
          \/ \E qty \in Qtys : apply_replace_report(s, i, id, qty, price)
          \/ \E qty \in Qtys \cup {0}, outcome \in Outcomes :
                replace_unlogged(s, i, id, qty, price, outcome)

RejectReport(s, id) ==
    \/ reject_unknown(s, id)
    \/ \E i \in Slots : apply_reject_report(s, i, id)

Next ==
    \/ reset_breaker
    \/ \E id \in Ids : cancel_order(id)
    \/ \E s \in Symbols : \/ halt_symbol(s)
                          \/ resume_symbol(s)
                          \/ try_build_blocked(s)
                          \/ try_replace_blocked(s)
    \/ \E pair \in IdPairs : Submission(pair[1], pair[2])
    \/ \E s \in Symbols, id \in Ids : \/ Replacement(s, id)
                                      \/ report_unknown(s, id)
                                      \/ FillReport(s, id)
                                      \/ CancelReport(s, id)
                                      \/ ReplaceReport(s, id)
                                      \/ RejectReport(s, id)

Spec == Init /\ [][Next]_vars

-----------------------------------------------------------------------------
(***************************************************************************)
(* Properties.                                                             *)
(***************************************************************************)
Order == [id : Ids \cup {NoId}, price : Nat, qty : Nat, filled : Nat,
          side : Sides, state : SlotStates]

RiskState == [net : Int, gross : Int, count : Nat, rejects : Nat, halted : BOOLEAN]

TypeOK ==
    /\ orders \in [Symbols -> [Slots -> Order]]
    /\ risk \in [Symbols -> RiskState]
    /\ pending \in Nat
    /\ breaker \in {"closed", "open"}
    /\ ledger \in [Ids -> Nat]
    /\ wal \in RecoveryLog
    /\ reports \in [applied : Nat, dropped : Nat]
    /\ settled \in [Symbols -> [qty : Int, cost : Int]]

OpenSlots(s) == {i \in Slots : Open(orders[s][i])}

AllOpenSlots == {p \in Symbols \X Slots : Open(orders[p[1]][p[2]])}

\* Every path that ends an order (full fill, terminal partial fill, cancel,
\* reject, failed logging) gives back exactly what admission took: a symbol's
\* order_count is the number of its open slots and the limiter holds one
\* token per open order, so neither the slab nor the limiter leaks.
SlotAccounting ==
    /\ \A s \in Symbols : risk[s].count = Cardinality(OpenSlots(s))
    /\ pending = Cardinality(AllOpenSlots)

\* The ledger and the slots never disagree: an open slot's id has exactly the
\* slot's remaining quantity in the ledger, and an id in the ledger has an
\* open slot.  It is what makes contains() a test for an open order.
LedgerMatchesSlots ==
    /\ \A s \in Symbols, i \in Slots :
          Open(orders[s][i]) => /\ orders[s][i].qty > 0
                                /\ ledger[orders[s][i].id] = orders[s][i].qty
    /\ \A id \in Ids :
          ledger[id] # 0 => \E s \in Symbols, i \in Slots :
                               Open(orders[s][i]) /\ orders[s][i].id = id

\* Callers keep an id to one symbol.
SingleSymbolIds == \A p, q \in IdPairs : p[2] = q[2] => p[1] = q[1]

\* A retained terminal order never hides the open order that reuses its id:
\* every scan of a symbol meets the open slot first.
OpenSlotFoundFirst ==
    \A s \in Symbols, i, j \in Slots :
        /\ Open(orders[s][i])
        /\ orders[s][j].state # "empty"
        /\ orders[s][j].id = orders[s][i].id
        => i <= j

\* What an open order still reserves of the position and of the exposure.
ReservedQty(order) == IF Open(order) THEN signed_qty_delta(order.side, order.qty) ELSE 0

ReservedCost(order) == IF Open(order) THEN order.price * order.qty ELSE 0

\* The sum of a function on the slots.
SlotSum(h) ==
    LET sum[n \in 0 .. MaxActive] == IF n = 0 THEN 0 ELSE sum[n - 1] + h[n]
    IN  sum[MaxActive]

QtyReserved(s) == SlotSum([i \in Slots |-> ReservedQty(orders[s][i])])

CostReserved(s) == SlotSum([i \in Slots |-> ReservedCost(orders[s][i])])

\* net_position and gross_exposure are what has been executed plus what the
\* open orders still reserve, on every symbol: no path releases a reservation
\* twice, keeps one for a closed order, or forgets a settled fill.
RiskReconciles ==
    \A s \in Symbols : /\ risk[s].net = settled[s].qty + QtyReserved(s)
                       /\ risk[s].gross = settled[s].cost + CostReserved(s)

Recovered(order) == [rem |-> order.qty, price |-> order.price, side |-> order.side]

\* While the log is readable and the writer in step with it, a crash at any
\* point loses no open order: replay returns it with the terms in force.
OpenOrdersSurviveCrash ==
    wal.valid /\ ~wal.behind =>
        \A s \in Symbols, i \in Slots :
            Open(orders[s][i]) => wal.book[orders[s][i].id] = Recovered(orders[s][i])

\* The result of replaying the log after a crash is the set of open orders.
ReplayMatchesState ==
    /\ wal.valid
    /\ OpenOrdersSurviveCrash
    /\ \A id \in Ids : wal.book[id].rem # 0 => ledger[id] # 0

\* A terminal order is immutable history: a late fill, cancel, replace or
\* reject never changes it; only a new order (or its rollback) reuses the slot.
TerminalImmutable ==
    [][\A s \in Symbols, i \in Slots :
          (orders[s][i].state = "done" /\ orders'[s][i] # orders[s][i]) =>
              /\ orders'[s][i].state \in {"live", "empty"}
              /\ FirstFree(s, i)
              /\ breaker = "closed" /\ ~risk[s].halted]_vars

\* A step that meets a mismatch or fails to log leaves every order, every
\* reservation and the ledger as they were, except for slots that held no
\* open order: opening the breaker never coincides with losing an open order,
\* unless the venue rejected that order.
FailClosedKeepsOrders ==
    [][breaker = "closed" /\ breaker' = "open" =>
          \A s \in Symbols, i \in Slots :
              Open(orders[s][i]) =>
                  \/ orders'[s][i] = orders[s][i] /\ ledger'[orders[s][i].id] = orders[s][i].qty
                  \/ orders'[s][i] = EmptyOrder /\ risk'[s].rejects > risk[s].rejects]_vars

=============================================================================
