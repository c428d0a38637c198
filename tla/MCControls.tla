----------------------------- MODULE MCControls -----------------------------
(***************************************************************************)
(* The controls that work on their own, each on a small instance: part,    *)
(* chosen once, says which of them runs.                                   *)
(*                                                                         *)
(*  - a ledger of four entries and four ids that share two home slots, one *)
(*    of them the last, so that clusters wrap around the table;            *)
(*  - an order map of seven slots with a probe window of three: four       *)
(*    references share a home slot, a fifth lives inside their window;     *)
(*  - a breaker without and one with a cool-down, probes and limits;       *)
(*  - the audit and compliance trails, the trader registry, the telemetry  *)
(*    ring and its sinks, the conditional orders, the crossing engines,    *)
(*    the replicas and the session and market controls;                    *)
(*  - the OUCH packets and a FIX session over a faulty channel.            *)
(***************************************************************************)
EXTENDS ReconciliationLedger, OrderRefMap, CircuitBreaker, Compliance, Telemetry, StopOrders,
        ContingentOrders, CrossingEngines, Replication, MarketProtections, SessionServices,
        OrderEncoding

CONSTANTS r1, r2, r3, r4, r5

VARIABLE part

MCIdHash == 1 :> 3 @@ 2 :> 3 @@ 3 :> 0 @@ 4 :> 3
MCRefHash == [r \in Refs |-> IF r = r5 THEN 0 ELSE 6]

Breaker(failures, cool_down, probes, rate, window) ==
    [max_failures |-> failures, cool_down |-> cool_down, half_open |-> FALSE, max_probes |-> probes,
     needed |-> probes, max_rejections |-> 2, max_rate |-> rate, window |-> window, max_loss |-> 1]
MCBreakers == {Breaker(0, 0, 1, 0, 0), Breaker(1, 2, 2, 1, 2)}

MCTiers == "unverified" :> [single |-> 0, daily |-> 0] @@ "basic" :> [single |-> 2, daily |-> 3]

Bearer(name, scheme, token) == [name |-> name, scheme |-> scheme, token |-> token]
Request(complete, line, headers) == [complete |-> complete, line |-> line, headers |-> headers]
MCScrapes == {Request(FALSE, "metrics", <<>>), Request(TRUE, "health", <<>>),
              Request(TRUE, "other", <<>>),
              Request(TRUE, "metrics", <<Bearer("Authorization", "Bearer", "right")>>),
              Request(TRUE, "metrics", <<Bearer("Authorization", "Bearer", "wrong"),
                                         Bearer("Authorization", "Bearer", "right")>>)}

Stop(id, type, side, stop_at, limit, offset) ==
    [id |-> id, qty |-> 1, symbol |-> 1, type |-> type, side |-> side, stop |-> stop_at,
     limit |-> limit, offset |-> offset]
MCStops == {Stop(1, "stop_loss", "sell", 2, 0, 0), Stop(2, "stop_limit", "buy", 3, 4, 0),
            Stop(3, "pegged_bid", "buy", 0, 0, -1), Stop(3, "pegged_ask", "sell", 0, 0, 1),
            Stop(3, "pegged_mid", "buy", 0, 0, 0)}
MCQuotes == {<<1, 1, 2>>, <<1, 2, 3>>, <<1, 0, 3>>, <<2, 2, 3>>}

MCTrails == {[buy |-> FALSE, delta |-> 1], [buy |-> TRUE, delta |-> 2]}

Dark(firm, side, mode, price, qty, minimum) ==
    [firm |-> firm, side |-> side, mode |-> mode, price |-> price, qty |-> qty, min_qty |-> minimum]
MCDark == {Dark(1, "sell", "displayed", 2, 1, 0), Dark(1, "sell", "hidden", 2, 2, 2),
           Dark(1, "sell", "midpoint", 0, 1, 0), Dark(2, "sell", "displayed", 1, 2, 0),
           Dark(1, "buy", "hidden", 2, 1, 0), Dark(1, "buy", "displayed", 1, 2, 0)}
Taker(firm, side, price, qty) ==
    [firm |-> firm, side |-> side, price |-> price, qty |-> qty, bid |-> 1, ask |-> 3]
MCTakers == {Taker(2, "buy", 2, 1), Taker(2, "buy", 2, 3), Taker(2, "buy", 1, 2),
             Taker(3, "sell", 1, 2), Taker(3, "buy", 3, 4)}

MCAuction == [side : {"buy", "sell"}, price : {1, 3}, qty : {1, 2}, is_market : {FALSE}]
             \cup [side : {"buy", "sell"}, price : {0}, qty : {1}, is_market : {TRUE}]

Office(id, side, qty, price) == [id |-> id, side |-> side, qty |-> qty, price |-> price]
MCOffice == {Office(1, "buy", 1, 1), Office(1, "buy", 2, 1), Office(1, "buy", 1, 2),
             Office(2, "sell", 1, 1)}

MCMmp == [window |-> 2, volume |-> 3, notional |-> 5, delta |-> 2]
Execution(side, qty, price) == [side |-> side, qty |-> qty, price |-> price]
MCTrades == {Execution("buy", 1, 1), Execution("sell", 2, 1), Execution("buy", 1, 3)}

Luld(tier1, open_or_close) == [tier1 |-> tier1, open_or_close |-> open_or_close, timeout |-> 2]
MCLuld == {Luld(TRUE, FALSE), Luld(FALSE, TRUE)}
MCNbbo == {<<39000, 41000>>, <<42000, 42500>>, <<7000, 7001>>, <<37000, 38000>>, <<41000, 50000>>}

MCFixLength == "report" :> 150 @@ "logon" :> 70 @@ "heartbeat" :> 60
Delimited(n, delim) ==
    [i \in 1 .. n |-> [Piece(IF i = 1 THEN 8 ELSE 30 + i, Number(i)) EXCEPT !.delim = delim]]
MCFixTexts == {Delimited(3, "soh"), Delimited(3, "bar"), Delimited(12, "soh"),
               [Delimited(3, "bar") EXCEPT ![3].delim = "end"],
               Delimited(2, "bar") \o Delimited(1, "soh"), Tail(Delimited(3, "soh"))}

-----------------------------------------------------------------------------
allVars == <<ledgerVars, mapVars, breakerVars, auditVars, complianceVars, telemetryVars, stopVars,
             contingentVars, crossingVars, replicationVars, protectionVars, sessionVars, encodingVars>>
vars == <<part, allVars>>

Parts == {"ledger", "map", "breaker", "audit", "registry", "monitor", "trail", "telemetry", "stops",
          "contingent", "dark", "auction", "pair", "regions", "mmp", "luld", "locates", "rule201",
          "guard", "copy", "offices", "watchdog", "ouch", "fix"}

\* The choices another part's Init leaves open are fixed, for they do not matter.
Init ==
    /\ part \in Parts
    /\ LedgerInit /\ MapInit /\ BreakerInit /\ AuditInit /\ ComplianceInit /\ TelemetryInit
    /\ StopInit /\ ContingentInit /\ CrossingInit /\ ReplicationInit /\ ProtectionsInit
    /\ SessionsInit /\ EncodingInit
    /\ part = "breaker" \/ setting.cool_down = 0
    /\ part = "telemetry" \/ (source = "engine" /\ sink.kind = "http")
    /\ part = "luld" \/ luld.config = Luld(TRUE, FALSE)

Tables ==
    \/ /\ part = "ledger" /\ LedgerNext
       /\ UNCHANGED <<part, mapVars, breakerVars, auditVars, complianceVars, telemetryVars, stopVars,
                      contingentVars, crossingVars, replicationVars, protectionVars, sessionVars>>
    \/ /\ part = "map" /\ MapNext
       /\ UNCHANGED <<part, ledgerVars, breakerVars, auditVars, complianceVars, telemetryVars,
                      stopVars, contingentVars, crossingVars, replicationVars, protectionVars,
                      sessionVars>>

Limits ==
    /\ part = "breaker" /\ BreakerNext
    /\ UNCHANGED <<part, ledgerVars, mapVars, auditVars, complianceVars, telemetryVars, stopVars,
                   contingentVars, crossingVars, replicationVars, protectionVars, sessionVars>>

Trails_ ==
    \/ /\ part = "audit" /\ AuditNext /\ UNCHANGED complianceVars
       /\ UNCHANGED <<part, ledgerVars, mapVars, breakerVars, telemetryVars, stopVars,
                      contingentVars, crossingVars, replicationVars, protectionVars, sessionVars>>
    \/ /\ \/ part = "registry" /\ RegistryNext /\ UNCHANGED <<monitorVars, trailVars>>
          \/ part = "monitor" /\ MonitorNext /\ UNCHANGED <<registryVars, trailVars>>
          \/ part = "trail" /\ TrailNext /\ UNCHANGED <<registryVars, monitorVars, sars, moment>>
       /\ UNCHANGED <<part, ledgerVars, mapVars, breakerVars, auditVars, telemetryVars, stopVars,
                      contingentVars, crossingVars, replicationVars, protectionVars, sessionVars>>

Metrics ==
    /\ part = "telemetry" /\ TelemetryNext
    /\ UNCHANGED <<part, ledgerVars, mapVars, breakerVars, auditVars, complianceVars, stopVars,
                   contingentVars, crossingVars, replicationVars, protectionVars, sessionVars>>

Conditional ==
    /\ \/ part = "stops" /\ StopNext /\ UNCHANGED contingentVars
       \/ part = "contingent" /\ ContingentNext /\ UNCHANGED stopVars
    /\ UNCHANGED <<part, ledgerVars, mapVars, breakerVars, auditVars, complianceVars, telemetryVars,
                   crossingVars, replicationVars, protectionVars, sessionVars>>

Venues ==
    \/ /\ \/ part = "dark" /\ DarkNext
          \/ part = "auction" /\ AuctionNext
       /\ UNCHANGED <<part, ledgerVars, mapVars, breakerVars, auditVars, complianceVars,
                      telemetryVars, stopVars, contingentVars, replicationVars, protectionVars,
                      sessionVars>>
    \/ /\ \/ part = "pair" /\ PairNext
          \/ part = "regions" /\ RegionNext
       /\ UNCHANGED <<part, ledgerVars, mapVars, breakerVars, auditVars, complianceVars,
                      telemetryVars, stopVars, contingentVars, crossingVars, protectionVars,
                      sessionVars>>

Sessions ==
    \/ /\ \/ part = "mmp" /\ MmpNext
          \/ part = "luld" /\ LuldNext
          \/ part = "locates" /\ LocateNext
          \/ part = "rule201" /\ Rule201Next
       /\ UNCHANGED <<part, ledgerVars, mapVars, breakerVars, auditVars, complianceVars,
                      telemetryVars, stopVars, contingentVars, crossingVars, replicationVars,
                      sessionVars>>
    \/ /\ \/ part = "guard" /\ GuardNext
          \/ part = "copy" /\ CopyNext
          \/ part = "offices" /\ OfficesNext
          \/ part = "watchdog" /\ WatchdogNext
       /\ UNCHANGED <<part, ledgerVars, mapVars, breakerVars, auditVars, complianceVars,
                      telemetryVars, stopVars, contingentVars, crossingVars, replicationVars,
                      protectionVars>>

Encodings ==
    /\ \/ part = "ouch" /\ OuchNext /\ UNCHANGED fixVars
       \/ part = "fix" /\ FixNext /\ UNCHANGED ouchVars
    /\ UNCHANGED <<part, ledgerVars, mapVars, breakerVars, auditVars, complianceVars, telemetryVars,
                   stopVars, contingentVars, crossingVars, replicationVars, protectionVars,
                   sessionVars>>

Alone ==
    /\ Tables \/ Limits \/ Trails_ \/ Metrics \/ Conditional \/ Venues \/ Sessions
    /\ UNCHANGED encodingVars

Next == Alone \/ Encodings

Spec == Init /\ [][Next]_vars

-----------------------------------------------------------------------------
\* ReconciliationLedger, OrderRefMap of luv_lob.hpp: after every sequence of
\* insertions and removals, wrapped clusters and tombstones included, every order
\* that is open is found, every lookup answers what was stored, and an insertion
\* that can_insert() promised room for succeeds.
TablesSound ==
    part \in {"ledger", "map"} => EveryOrderReachable /\ LookupReturnsStored /\ PreflightSound

\* StopOrderTable of luv_execution.hpp and ContingentOrderManager: a conditional
\* order is neither lost when the gateway refuses it nor sent twice, a filled leg
\* leaves no working partner, and a trailing stop follows the best price.
ConditionalOrdersEnd ==
    part \in {"stops", "contingent"} => TriggersAccounted /\ ContingenciesHold

\* The market protections and the session services of the research headers keep
\* their bounds and answer for the calls they were given, in every sequence of calls;
\* an OUCH packet carries its intent and a FIX session accepts what was sent, in order.
VenueControlsSound ==
    /\ part = "ouch" => PacketCarriesIntent /\ ParsesPieces
    /\ part = "fix" => FixInOrder
    /\ part = "mmp" => SelfTradesPrevented
    /\ part \in {"mmp", "luld", "locates", "rule201"} => ProtectionsSound
    /\ part \in {"guard", "copy", "offices", "watchdog"} => SessionsSound
=============================================================================
