----------------------------- MODULE StopOrders -----------------------------
(***************************************************************************)
(* StopOrderTable of luv_execution.hpp: stop and pegged orders that wait   *)
(* in a fixed table and are routed through the gateway when a quote        *)
(* triggers them.  The gateway's answer (ExecutionGateway.try_build) is a  *)
(* choice: it may refuse any of them.                                      *)
(***************************************************************************)
EXTENDS Integers, FiniteSets, SequencesExt

CONSTANTS
    StopSpecs,       \* conditional orders clients register
    MaxTriggers,     \* MaxTriggers
    Quotes,          \* <<symbol, best_bid, best_ask>>
    MaxPackets,      \* max_packets of a call
    MaxRegistered    \* bound on the registrations

ASSUME StopAssumption ==
    /\ {MaxTriggers, MaxPackets, MaxRegistered} \subseteq Nat \ {0}
    /\ \A o \in StopSpecs : {o.id, o.qty} \subseteq Nat

VARIABLES
    triggers,       \* _triggers
    active_count,   \* _active_count
    ended           \* history: for each id how often it was registered, routed, cancelled

stopVars == <<triggers, active_count, ended>>

Indices == 1 .. MaxTriggers
ClientIds == {o.id : o \in StopSpecs}
Inactive == [active |-> FALSE]
Waiting(o) == [active |-> TRUE, id |-> o.id, symbol |-> o.symbol, type |-> o.type, side |-> o.side,
               stop |-> o.stop, limit |-> o.limit, offset |-> o.offset]
Live(t) == {i \in Indices : t[i].active}

\* The price an order would be routed at, 0 when the quote does not trigger it.
TriggerPrice(o, bid, ask) ==
    LET stopped == \/ o.side = "buy" /\ ask > 0 /\ ask >= o.stop
                   \/ o.side = "sell" /\ bid > 0 /\ bid <= o.stop
        near == IF o.side = "buy" THEN ask ELSE bid
    IN  CASE o.type = "stop_loss" -> IF stopped THEN near ELSE 0
          [] o.type = "stop_limit" -> IF ~stopped THEN 0 ELSE IF o.limit > 0 THEN o.limit ELSE near
          [] o.type = "pegged_bid" -> IF bid > 0 THEN bid + o.offset ELSE 0
          [] o.type = "pegged_ask" -> IF ask > 0 THEN ask + o.offset ELSE 0
          [] o.type = "pegged_mid" ->
                IF bid > 0 /\ ask > 0 THEN (bid + ask) \div 2 + o.offset ELSE 0

\* Mutant: a trigger the gateway refuses is gone.
DroppedIfRefused(t, i, passed) == [t EXCEPT ![i] = Inactive]

\* Only an order the gateway took leaves the table.
AfterRouting(t, i, passed) == IF passed THEN [t EXCEPT ![i] = Inactive] ELSE t

\* One turn of the scan of evaluate_bbo; the last ones do nothing once the
\* caller's packets are used up.
Visited(w, i, symbol, bid, ask, admitted) ==
    IF Len(w.routed) = MaxPackets \/ ~w.table[i].active THEN w
    ELSE IF w.table[i].symbol # symbol THEN w
    ELSE IF TriggerPrice(w.table[i], bid, ask) <= 0 THEN w
    ELSE LET passed == i \in admitted
             id == w.table[i].id
         IN  [table |-> AfterRouting(w.table, i, passed),
              routed |-> IF passed THEN Append(w.routed, id) ELSE w.routed]

Scan(symbol, bid, ask, admitted) ==
    FoldLeft(LAMBDA w, i : Visited(w, i, symbol, bid, ask, admitted),
             [table |-> triggers, routed |-> <<>>], [i \in Indices |-> i])

-----------------------------------------------------------------------------
StopInit ==
    /\ triggers = [i \in Indices |-> Inactive]
    /\ active_count = 0
    /\ ended = [id \in ClientIds |-> [registered |-> 0, routed |-> 0, cancelled |-> 0]]

\* The first free slot takes the order; nothing looks for the same id.
register_trigger(o) ==
    LET free == Indices \ Live(triggers)
    IN  /\ o.id # 0 /\ o.qty > 0 /\ free # {}
        /\ ended[o.id].registered < MaxRegistered
        /\ LET i == CHOOSE j \in free : \A k \in free : j <= k
           IN  triggers' = [triggers EXCEPT ![i] = Waiting(o)]
        /\ active_count' = active_count + 1
        /\ ended' = [ended EXCEPT ![o.id].registered = @ + 1]

cancel_trigger(id) ==
    LET matching == {i \in Live(triggers) : triggers[i].id = id}
    IN  /\ id # 0 /\ matching # {}
        /\ LET i == CHOOSE j \in matching : \A k \in matching : j <= k
           IN  triggers' = [triggers EXCEPT ![i] = Inactive]
        /\ active_count' = IF active_count > 0 THEN active_count - 1 ELSE 0
        /\ ended' = [ended EXCEPT ![id].cancelled = @ + 1]

\* A quote, with the triggers whose order the gateway would take.
evaluate_bbo(symbol, bid, ask, admitted) ==
    LET w == Scan(symbol, bid, ask, admitted)
    IN  /\ active_count > 0
        /\ triggers' = w.table
        /\ active_count' = active_count - Len(w.routed)
        /\ ended' = [id \in ClientIds |->
                       [ended[id] EXCEPT !.routed =
                            @ + Cardinality({k \in DOMAIN w.routed : w.routed[k] = id})]]

StopNext ==
    \/ \E o \in StopSpecs : register_trigger(o)
    \/ \E id \in ClientIds : cancel_trigger(id)
    \/ \E q \in Quotes, admitted \in SUBSET Live(triggers) : evaluate_bbo(q[1], q[2], q[3], admitted)

-----------------------------------------------------------------------------
\* Every conditional order ends once: routed, cancelled or still waiting, so that
\* one the gateway refuses is tried again and one it took is never sent twice,
\* and active_count() is what waits.
TriggersAccounted ==
    /\ active_count = Cardinality(Live(triggers))
    /\ \A id \in ClientIds :
        ended[id].registered = ended[id].routed + ended[id].cancelled
                               + Cardinality({i \in Live(triggers) : triggers[i].id = id})
=============================================================================
