---------------------------- MODULE RiskStrategies ----------------------------
(***************************************************************************)
(* The algorithmic strategies and their sandbox (luv_strategy.hpp), and    *)
(* AutonomousRiskEngine (luv_risk_engine.hpp), whose members are separate  *)
(* atomics: several threads validate an order and later record its fill,   *)
(* every load and every update a step of its own, while the operator       *)
(* trips or resets the kill switch and halts symbols.                      *)
(***************************************************************************)
EXTENDS Integers, Sequences, SequencesExt

CONSTANTS
    Desks,            \* threads that call the engine
    DeskSymbols,      \* symbol indices the callers use
    kRiskSymbols,     \* NumSymbols
    RiskConfig,       \* _config
    RiskOrders,       \* orders offered: symbol, side, price, qty, ref
    RiskPnls,         \* pnl_delta of a fill
    StrategyConfigs,  \* StrategyConfig offered
    StrategyBudget,   \* _budget: max_orders and max_qty
    MaxViolations     \* bound on the violations counted

ASSUME RiskAssumption ==
    /\ kRiskSymbols \in Nat /\ DeskSymbols \subseteq Nat
    /\ RiskConfig \in [max_notional : Nat, max_qty : Nat, collar_bps : Nat, max_gross : Nat,
                       max_net : Nat, max_drawdown : Nat]
    /\ IsFiniteSet(Desks) /\ Desks # {}
    /\ RiskOrders \subseteq [symbol : DeskSymbols, side : {"buy", "sell"}, price : Int, qty : Int, ref : Int]
    /\ RiskPnls \subseteq Int
    /\ StrategyConfigs \subseteq [total : Int, slices : Nat, price : Int, interval : Nat, base_id : Nat]
    /\ StrategyBudget \in [max_orders : Nat, max_qty : Nat]

VARIABLES
    engine,     \* _kill_switch_active, gross, loss, net positions, halted symbols
    desk,       \* each thread's place and its order
    resetting,  \* a reset_kill_switch between its two stores
    sandbox,    \* _state and _violations
    emitted     \* what the last execute_safe was asked for and returned

engineVars == <<engine, desk, resetting>>
sandboxVars == <<sandbox, emitted>>
strategyVars == <<engineVars, sandboxVars>>

NoOrder == CHOOSE o \in RiskOrders : TRUE
NoPlan == [total |-> 0, orders |-> <<>>]

EngineInit ==
    /\ engine = [killed |-> FALSE, gross |-> 0, loss |-> 0,
                 net |-> [s \in DeskSymbols |-> 0], halted |-> {}]
    /\ desk = [t \in Desks |-> [at |-> "idle", order |-> NoOrder, pnl |-> 0]]
    /\ resetting = FALSE

SandboxInit == sandbox = [active |-> TRUE, violations |-> 0] /\ emitted = NoPlan

StrategiesInit == EngineInit /\ SandboxInit

-----------------------------------------------------------------------------
Magnitude(n) == IF n < 0 THEN -n ELSE n
Notional(o) == o.qty * o.price

\* The fat-finger collar around the reference price.
Collared(o) ==
    o.ref > 0 /\ RiskConfig.collar_bps > 0 =>
        Magnitude(o.price - o.ref) <= (o.ref * RiskConfig.collar_bps) \div 10000

\* The checks that read nothing another thread changes but the switch and the halts.
FirstChecks(o) ==
    /\ ~engine.killed
    /\ o.symbol < kRiskSymbols /\ o.symbol \notin engine.halted
    /\ o.qty > 0 /\ o.qty <= RiskConfig.max_qty
    /\ o.price > 0
    /\ RiskConfig.max_notional > 0 => Notional(o) <= RiskConfig.max_notional
    /\ Collared(o)

Go(t, at) == desk' = [desk EXCEPT ![t].at = at]

\* A check that fails returns its reason to the caller.
validate_pre_trade(t, o) ==
    /\ desk[t].at = "idle" /\ FirstChecks(o)
    /\ desk' = [desk EXCEPT ![t] = [at |-> "gross", order |-> o, pnl |-> 0]]
    /\ UNCHANGED <<engine, resetting>>

check_gross(t) ==
    /\ desk[t].at = "gross"
    /\ Go(t, IF RiskConfig.max_gross > 0
                /\ engine.gross + Notional(desk[t].order) > RiskConfig.max_gross
             THEN "idle" ELSE "net")
    /\ UNCHANGED <<engine, resetting>>

Signed(o) == IF o.side = "buy" THEN o.qty ELSE -o.qty

\* Mutant: the position before the order is compared.
Current(o) == engine.net[o.symbol]

Proposed(o) == engine.net[o.symbol] + Signed(o)

check_net(t) ==
    /\ desk[t].at = "net"
    /\ Go(t, IF RiskConfig.max_net > 0 /\ Magnitude(Proposed(desk[t].order)) > RiskConfig.max_net
             THEN "idle" ELSE "approved")
    /\ UNCHANGED <<engine, resetting>>

-----------------------------------------------------------------------------
\* record_fill, its first update: the approved order fills. Nothing was reserved for it.
fill_gross(t, pnl) ==
    /\ desk[t].at = "approved"
    /\ engine' = [engine EXCEPT !.gross = @ + Notional(desk[t].order)]
    /\ desk' = [desk EXCEPT ![t].at = "position", ![t].pnl = pnl]
    /\ UNCHANGED resetting

fill_position(t) ==
    LET o == desk[t].order
    IN  /\ desk[t].at = "position"
        /\ engine' = [engine EXCEPT !.net[o.symbol] = @ + Signed(o)]
        /\ Go(t, IF desk[t].pnl < 0 THEN "loss" ELSE "idle")
        /\ UNCHANGED resetting

\* fetch_add tells this thread the total it reached.
fill_loss(t) ==
    LET total == engine.loss - desk[t].pnl
    IN  /\ desk[t].at = "loss"
        /\ engine' = [engine EXCEPT !.loss = total]
        /\ Go(t, IF RiskConfig.max_drawdown > 0 /\ total >= RiskConfig.max_drawdown
                 THEN "trip" ELSE "idle")
        /\ UNCHANGED resetting

fill_trip(t) ==
    /\ desk[t].at = "trip"
    /\ engine' = [engine EXCEPT !.killed = TRUE]
    /\ Go(t, "idle")
    /\ UNCHANGED resetting

trip_kill_switch == engine' = [engine EXCEPT !.killed = TRUE] /\ UNCHANGED <<desk, resetting>>

\* Mutant: the loss is forgotten before the switch is released.
LossFirst(e, last) == IF last THEN [e EXCEPT !.killed = FALSE] ELSE [e EXCEPT !.loss = 0]

\* reset_kill_switch stores the switch, then the loss.
ResetStore(e, last) == IF last THEN [e EXCEPT !.loss = 0] ELSE [e EXCEPT !.killed = FALSE]

reset_kill_switch ==
    /\ engine' = ResetStore(engine, resetting)
    /\ resetting' = ~resetting
    /\ UNCHANGED desk

halt_symbol(s) ==
    /\ s < kRiskSymbols
    /\ engine' = [engine EXCEPT !.halted = @ \cup {s}]
    /\ UNCHANGED <<desk, resetting>>

resume_symbol(s) ==
    /\ s < kRiskSymbols
    /\ engine' = [engine EXCEPT !.halted = @ \ {s}]
    /\ UNCHANGED <<desk, resetting>>

EngineNext ==
    \/ trip_kill_switch \/ reset_kill_switch
    \/ \E s \in DeskSymbols : halt_symbol(s) \/ resume_symbol(s)
    \/ \E t \in Desks :
        \/ \E o \in RiskOrders : validate_pre_trade(t, o)
        \/ check_gross(t) \/ check_net(t)
        \/ \E pnl \in RiskPnls : fill_gross(t, pnl)
        \/ fill_position(t) \/ fill_loss(t) \/ fill_trip(t)

-----------------------------------------------------------------------------
\* Mutant: the remainder of the division is dropped.
SliceQtyEven(request, i) == request.total \div request.slices

\* The last slice takes the remainder.
SliceQty(request, i) ==
    request.total \div request.slices + (IF i = request.slices - 1 THEN request.total % request.slices ELSE 0)

Slice(request, i, price) ==
    [qty |-> SliceQty(request, i), price |-> price, at |-> request.interval * i, id |-> request.base_id + i]

TWAPStrategy(request) ==
    IF request.total <= 0 \/ request.slices = 0 \/ request.price <= 0 THEN <<>>
    ELSE [i \in 1 .. request.slices |-> Slice(request, i - 1, request.price)]

\* The price climbs with every slice, on either side.
VWAPStrategy(request) ==
    IF request.total <= 0 \/ request.slices = 0 \/ request.price <= 0 THEN <<>>
    ELSE [i \in 1 .. request.slices |-> Slice(request, i - 1, request.price + (i - 1) * 100)]

IOCStrategy(request) ==
    IF request.total <= 0 \/ request.price <= 0 THEN <<>>
    ELSE <<[qty |-> request.total, price |-> request.price, at |-> 0, id |-> request.base_id]>>

Plans(request) == {TWAPStrategy(request), VWAPStrategy(request), IOCStrategy(request)}

quarantine ==
    /\ sandbox.violations < MaxViolations
    /\ sandbox' = [active |-> FALSE, violations |-> sandbox.violations + 1]
    /\ emitted' = NoPlan

sandbox_reset == sandbox' = [sandbox EXCEPT !.active = TRUE] /\ UNCHANGED emitted

\* The strategy returns its plan, or throws.
execute_safe(request, plan, throws) ==
    IF ~sandbox.active THEN emitted' = NoPlan /\ UNCHANGED sandbox
    ELSE IF request.total > StrategyBudget.max_qty \/ throws \/ Len(plan) > StrategyBudget.max_orders
         THEN quarantine
         ELSE emitted' = [total |-> request.total, orders |-> plan] /\ UNCHANGED sandbox

SandboxNext ==
    \/ quarantine \/ sandbox_reset
    \/ \E request \in StrategyConfigs : \E plan \in Plans(request), throws \in BOOLEAN :
            execute_safe(request, plan, throws)

-----------------------------------------------------------------------------
(***************************************************************************)
(* Properties.                                                             *)
(***************************************************************************)

Others == Cardinality(Desks) - 1

\* AutonomousRiskEngine reserves nothing for an approved order, so the limits hold
\* only up to what the other threads had approved at the time: the net position and
\* the gross notional exceed them by at most one order of every other thread. A limit
\* of zero is off.
ExposureBounded ==
    /\ RiskConfig.max_net > 0 =>
        \A s \in DeskSymbols :
            Magnitude(engine.net[s]) <= RiskConfig.max_net + Others * RiskConfig.max_qty
    /\ RiskConfig.max_gross > 0 /\ RiskConfig.max_notional > 0 =>
        engine.gross <= RiskConfig.max_gross + Others * RiskConfig.max_notional

\* record_fill against reset_kill_switch: when no trip and no reset is under way, a
\* loss at the drawdown limit has the kill switch on. A fill that lands between the
\* reset's two stores cannot leave its loss counted and the switch released.
DrawdownKills ==
    ~resetting /\ (\A t \in Desks : desk[t].at # "trip") =>
        (RiskConfig.max_drawdown > 0 /\ engine.loss >= RiskConfig.max_drawdown => engine.killed)

\* StrategySandboxContainer and the plans: the slices that leave the sandbox add up
\* to the quantity asked for, with ids of their own, within the budget.
PlansWhole ==
    LET orders == emitted.orders
    IN  /\ orders # <<>> => FoldLeft(LAMBDA sum, o : sum + o.qty, 0, orders) = emitted.total
        /\ emitted.total <= StrategyBudget.max_qty /\ Len(orders) <= StrategyBudget.max_orders
        /\ \A i, j \in DOMAIN orders : i # j => orders[i].id # orders[j].id

\* Exposure, drawdown and plans stay within what luv_risk_engine.hpp and
\* luv_strategy.hpp promise.
StrategiesSound == ExposureBounded /\ DrawdownKills /\ PlansWhole
=============================================================================
