----------------------------- MODULE EngineLoop -----------------------------
(***************************************************************************)
(* main_engine.cpp with its control plane: the execution thread's loop     *)
(* (due simulated fills, REST requests through the bridge, strategy        *)
(* orders), the egress thread, and the order in which main() shuts the     *)
(* threads down.                                                           *)
(*                                                                         *)
(* The execution gateway is reduced to what the loop can tell apart: per   *)
(* symbol the order slots with their ids and whether each order is open,   *)
(* and whether the circuit breaker has tripped.  ExecutionGateway models   *)
(* it in full.  The checks of pre-trade risk and of the rate limiter are   *)
(* the choice "sound".                                                     *)
(***************************************************************************)
EXTENDS HttpServer

CONSTANTS
    Symbols,         \* symbol indices, scanned in order
    MaxActive,       \* kMaxActiveOrders
    OutboundCap,     \* kPacketQueueCapacity
    FillCap,         \* kSimulatedRestFillCapacity
    TurnBudget       \* kMaxHttpRequestsPerExecutionTurn

ASSUME LoopAssumption ==
    /\ Symbols \subseteq Nat /\ Symbols # {}
    /\ MaxActive \in Nat \ {0} /\ OutboundCap \in Nat /\ FillCap \in Nat
    /\ TurnBudget \in Nat \ {0}

VARIABLES
    gw,         \* the gateway: order slots and the breaker
    fills,      \* SimulatedRestFillQueue
    outbound,   \* packets in the egress queue
    strategy,   \* client_order_id: the next strategy order's id
    loop,       \* where the execution thread is
    budget,     \* requests it may still take this turn
    shutdown    \* ShutdownController::requested()

engineVars == <<gw, fills, outbound, strategy, loop, budget, shutdown>>
vars == <<httpVars, engineVars>>

OrderSlots == 1 .. MaxActive
EmptySlot == [id |-> 0, st |-> "empty", by |-> "none"]

-----------------------------------------------------------------------------
(***************************************************************************)
(* The gateway as the loop sees it.                                        *)
(***************************************************************************)
Holds(g, s, i, id) == g.slots[s][i].id = id /\ g.slots[s][i].st # "empty"

Places(g, id) == {p \in Symbols \X OrderSlots : Holds(g, p[1], p[2], id)}

Before(p, q) == p[1] < q[1] \/ (p[1] = q[1] /\ p[2] <= q[2])

First(P) == CHOOSE p \in P : \A q \in P : Before(p, q)

OpenPlaces(g, id) == {p \in Places(g, id) : g.slots[p[1]][p[2]].st = "open"}

Slot(g, p) == g.slots[p[1]][p[2]]

FreeOrderSlots(g, s) == {i \in OrderSlots : g.slots[s][i].st # "open"}

Passes(g, s, id, sound) ==
    ~g.tripped /\ sound /\ FreeOrderSlots(g, s) # {} /\ OpenPlaces(g, id) = {}

\* try_build: a duplicate of an open id trips the breaker, a symbol without a
\* free slot only refuses.
try_build(g, s, id, by, sound) ==
    IF Passes(g, s, id, sound)
    THEN [g EXCEPT !.slots[s][Min(FreeOrderSlots(g, s))] = [id |-> id, st |-> "open", by |-> by]]
    ELSE [g EXCEPT !.tripped = @ \/ (sound /\ FreeOrderSlots(g, s) # {}
                                           /\ OpenPlaces(g, id) # {})]

\* cancel_order: the first open order under the id.
cancel_order(g, id) ==
    LET P == OpenPlaces(g, id) IN
    IF P = {} THEN g ELSE [g EXCEPT !.slots[First(P)[1]][First(P)[2]].st = "done"]

\* apply_reject_report for an order just built: the slot is cleared, and the
\* rejection counts as the failure that opens the breaker.
apply_reject_report(g, s, id) ==
    LET i == Min({j \in OrderSlots : Holds(g, s, j, id)})
    IN  [g EXCEPT !.slots[s][i] = EmptySlot, !.tripped = TRUE]

-----------------------------------------------------------------------------
(***************************************************************************)
(* The execution thread.                                                   *)
(***************************************************************************)
LoopGoes(from, to) == loop = from /\ loop' = to

\* What complete_due finds: nothing or a terminal order is a stale event; a
\* live order on another symbol cannot be reconciled.
Mismatched(fill) ==
    LET P == Places(gw, fill.id)
    IN  {p \in P : p = First(P) /\ Slot(gw, p).st = "open" /\ p[1] # fill.sym}

Matched(fill) ==
    LET P == Places(gw, fill.id)
    IN  {p \in P : p = First(P) /\ Slot(gw, p).st = "open" /\ p[1] = fill.sym}

\* Nothing is due yet.
fill_not_due ==
    /\ ~shutdown
    /\ LoopGoes("fills", "requests") /\ budget' = TurnBudget
    /\ UNCHANGED <<httpVars, gw, fills, outbound, strategy, shutdown>>

EndsLoop(fill) == Mismatched(fill) # {}

\* One due entry: its order is filled if it is open where the entry says,
\* and an order that is live elsewhere stops the engine.
complete_due ==
    /\ ~shutdown
    /\ fills # <<>>
    /\ LET fill == Head(fills)
           ends == EndsLoop(fill)
       IN  /\ gw' = [gw EXCEPT !.slots = [s \in Symbols |-> [i \in OrderSlots |->
                       IF <<s, i>> \in Matched(fill) THEN [@[s][i] EXCEPT !.st = "done"]
                       ELSE @[s][i]]]]
           /\ LoopGoes("fills", IF ends THEN "joining" ELSE "requests")
           /\ shutdown' = ends
    /\ fills' = Tail(fills)
    /\ budget' = TurnBudget
    /\ UNCHANGED <<httpVars, outbound, strategy>>

\* The deferred response goes first; while it does not fit no request is taken.
Flushable == bridge.deferred = NoResponse \/ Len(bridge.responses) < ResponseCap

Flushed(b) ==
    IF b.deferred = NoResponse THEN b
    ELSE [b EXCEPT !.responses = Append(@, b.deferred), !.deferred = NoResponse]

\* Mutant: a response that does not fit is dropped.
Dropped(b, r) ==
    IF Len(b.responses) < ResponseCap THEN [b EXCEPT !.responses = Append(@, r)] ELSE b

\* A response that does not fit is kept aside.
Responded(b, r) ==
    IF Len(b.responses) < ResponseCap THEN [b EXCEPT !.responses = Append(@, r)]
    ELSE [b EXCEPT !.deferred = r]

\* process_one on an empty request queue, behind a deferred response that does
\* not fit, or with the turn's budget used up.
process_none ==
    /\ ~Flushable \/ bridge.requests = <<>> \/ budget = 0
    /\ bridge' = IF Flushable /\ budget > 0 THEN Flushed(bridge) ELSE bridge
    /\ LoopGoes("requests", "tick")
    /\ UNCHANGED <<env, http, turn, running, starts, nextOrder, nextReq>>
    /\ UNCHANGED <<gw, fills, outbound, strategy, budget, shutdown>>

Taken == /\ budget > 0 /\ Flushable /\ bridge.requests # <<>>
         /\ budget' = budget - 1
         /\ UNCHANGED <<env, http, turn, running, starts, nextOrder, nextReq, strategy>>

Popped == [Flushed(bridge) EXCEPT !.requests = Tail(@)]

\* process_one on a query, a cancel or a positions request.
process_answer ==
    /\ LoopGoes("requests", "requests") /\ Taken
    /\ LET r == Head(bridge.requests)
       IN  /\ r.ask.cmd # "submit"
           /\ bridge' = Responded(Popped, r)
           /\ gw' = IF r.ask.cmd = "cancel" THEN cancel_order(gw, r.ask.id) ELSE gw
    /\ UNCHANGED <<fills, outbound, shutdown>>

Submission(s) == /\ LoopGoes("requests", "requests") /\ Taken
                 /\ Head(bridge.requests).ask.cmd = "submit"
                 /\ bridge' = Popped

\* An order the gateway refuses.
process_refused(s, sound) ==
    LET id == Head(bridge.requests).ask.id IN
    /\ Submission(s)
    /\ ~Passes(gw, s, id, sound)
    /\ gw' = try_build(gw, s, id, "rest", sound)
    /\ UNCHANGED <<fills, outbound, shutdown>>

\* Mutant: the order keeps its slot although its packet was not sent.
BlockedKept(s) ==
    LET id == Head(bridge.requests).ask.id IN
    /\ Submission(s)
    /\ Passes(gw, s, id, TRUE)
    /\ outbound = OutboundCap
    /\ gw' = try_build(gw, s, id, "rest", TRUE)
    /\ UNCHANGED <<fills, outbound, shutdown>>

\* An accepted order whose packet finds the egress queue full is rejected.
process_blocked(s) ==
    LET id == Head(bridge.requests).ask.id IN
    /\ Submission(s)
    /\ Passes(gw, s, id, TRUE)
    /\ outbound = OutboundCap
    /\ gw' = apply_reject_report(try_build(gw, s, id, "rest", TRUE), s, id)
    /\ UNCHANGED <<fills, outbound, shutdown>>

\* An accepted order is sent and its fill scheduled; a full fill queue rejects
\* the order and stops the engine.
process_submit(s) ==
    LET id == Head(bridge.requests).ask.id
        built == try_build(gw, s, id, "rest", TRUE)
        room == Len(fills) < FillCap
    IN  /\ Taken
        /\ Head(bridge.requests).ask.cmd = "submit"
        /\ bridge' = Popped
        /\ LoopGoes("requests", IF room THEN "requests" ELSE "joining")
        /\ Passes(gw, s, id, TRUE)
        /\ outbound < OutboundCap
        /\ outbound' = outbound + 1
        /\ gw' = IF room THEN built ELSE apply_reject_report(built, s, id)
        /\ fills' = IF room THEN Append(fills, [id |-> id, sym |-> s]) ELSE fills
        /\ shutdown' = (shutdown \/ ~room)

\* A tick without a signal, or no tick.
tick_idle ==
    /\ ~shutdown
    /\ LoopGoes("tick", "fills")
    /\ UNCHANGED <<httpVars, gw, fills, outbound, strategy, budget, shutdown>>

\* A signal: a strategy order under the next id of its own counter.
tick_signal(s, sound) ==
    /\ ~shutdown
    /\ LoopGoes("tick", "fills")
    /\ strategy <= env.signals
    /\ strategy' = strategy + 1
    /\ LET passes == Passes(gw, s, strategy, sound)
           built == try_build(gw, s, strategy, "strategy", sound)
       IN  /\ gw' = IF passes /\ outbound = OutboundCap
                    THEN apply_reject_report(built, s, strategy) ELSE built
           /\ outbound' = IF passes /\ outbound < OutboundCap THEN outbound + 1 ELSE outbound
    /\ UNCHANGED <<httpVars, fills, budget, shutdown>>

\* The loop sees the shutdown at its top and after the REST requests.
leave_loop ==
    /\ shutdown
    /\ loop \in {"fills", "tick"}
    /\ loop' = "joining"
    /\ UNCHANGED <<httpVars, gw, fills, outbound, strategy, budget, shutdown>>

Execution ==
    \/ fill_not_due \/ complete_due
    \/ process_none \/ process_answer
    \/ \E s \in Symbols :
        \/ process_blocked(s) \/ process_submit(s)
        \/ \E sound \in BOOLEAN : process_refused(s, sound) \/ tick_signal(s, sound)
    \/ tick_idle \/ leave_loop

-----------------------------------------------------------------------------
\* The egress thread sends a packet.
egress ==
    /\ outbound > 0
    /\ outbound' = outbound - 1
    /\ UNCHANGED <<httpVars, gw, fills, strategy, loop, budget, shutdown>>

\* A signal handler asks for shutdown.
request_shutdown ==
    /\ ~shutdown
    /\ shutdown' = TRUE
    /\ UNCHANGED <<httpVars, gw, fills, outbound, strategy, loop, budget>>

\* Mutant: the HTTP thread is joined without being stopped.
JoinUnstopped ==
    /\ LoopGoes("joining", "stopping")
    /\ outbound = 0
    /\ UNCHANGED httpVars
    /\ UNCHANGED <<gw, fills, outbound, strategy, budget, shutdown>>

\* main() after the loop: the egress thread ends once its queue is empty, then
\* the HTTP thread is stopped and joined.
join_egress ==
    /\ LoopGoes("joining", "stopping")
    /\ outbound = 0
    /\ running' = FALSE
    /\ UNCHANGED <<env, http, turn, starts, bridge, nextOrder, nextReq>>
    /\ UNCHANGED <<gw, fills, outbound, strategy, budget, shutdown>>

join_http ==
    /\ LoopGoes("stopping", "exited")
    /\ turn \in {"ended", "off"}
    /\ turn' = "off"
    /\ UNCHANGED <<env, http, running, starts, bridge, nextOrder, nextReq>>
    /\ UNCHANGED <<gw, fills, outbound, strategy, budget, shutdown>>

Main == join_egress \/ join_http

InLoop == loop \in {"fills", "requests", "tick"}

\* While the engine runs its listener may be stopped and started again.
ServerOwner == InLoop /\ (start \/ stop \/ stop_joins) /\ UNCHANGED engineVars

Http == HttpNext /\ UNCHANGED engineVars

Init ==
    /\ HttpInit
    /\ gw = [slots |-> [s \in Symbols |-> [i \in OrderSlots |-> EmptySlot]], tripped |-> FALSE]
    /\ fills = <<>> /\ outbound = 0 /\ strategy = 1
    /\ loop = "fills" /\ budget = 0 /\ shutdown = FALSE

Next == Http \/ ServerOwner \/ Execution \/ egress \/ request_shutdown \/ Main

\* Every thread keeps running.  Peers need do nothing: the I/O thread's poll
\* times out, and every deadline passes.
Fairness ==
    /\ \A s \in ClientSlots : WF_vars(TurnPast(s) /\ UNCHANGED engineVars)
    /\ WF_vars(end_of_serve /\ UNCHANGED engineVars)
    /\ WF_vars(Execution)
    /\ WF_vars(egress) /\ WF_vars(Main)

Spec == Init /\ [][Next]_vars /\ Fairness

-----------------------------------------------------------------------------
RestOpen(s, i) == gw.slots[s][i].st = "open" /\ gw.slots[s][i].by = "rest"

\* No order a REST client placed keeps its reservation without a simulated
\* report still to come: the loop rejects what it cannot send or schedule, and
\* drops a report only when the order it is for is no longer open.
RestOrdersHaveReport ==
    \A s \in Symbols, i \in OrderSlots :
        RestOpen(s, i) =>
            \E k \in DOMAIN fills : fills[k] = [id |-> gw.slots[s][i].id, sym |-> s]

\* A requested shutdown ends the process: every packet is sent, every thread
\* joined, and no client keeps its connection.
ShutdownCompletes ==
    shutdown ~> (loop = "exited" /\ outbound = 0 /\ FreeSlots = ClientSlots)
=============================================================================
