----------------------------- MODULE Telemetry -----------------------------
(***************************************************************************)
(* luv_telemetry.hpp: what the trading thread publishes (the engine's      *)
(* snapshots, heartbeats, or the batches of TelemetryBatchCollector)       *)
(* through the telemetry ring, and the one background sink that consumes   *)
(* it: the metrics server that Prometheus scrapes, or the UDP bridge.      *)
(*                                                                         *)
(* The ring is a bounded queue, which is what SPSCRing implements.  A      *)
(* snapshot is the two fields whose meaning differs: the fills observed    *)
(* since the last one, and all fills so far.                               *)
(***************************************************************************)
EXTENDS Naturals, FiniteSets, SequencesExt

CONSTANTS
    TelemCap,       \* capacity of telem_ring
    MaxPerLoop,     \* kMaxSnapshotsPerLoop
    MaxBatch,       \* max_batch of the bridge
    MaxLatencies,   \* MaxLatencies
    Latencies,      \* latencies recorded
    MaxRecorded,    \* bound on the fills recorded
    MaxDrops,       \* bound on the drops counted
    ScrapeRequests  \* what scrapers send

ASSUME TelemetryAssumption ==
    /\ {TelemCap, MaxPerLoop, MaxBatch, MaxLatencies} \subseteq Nat \ {0}
    /\ {MaxRecorded, MaxDrops} \subseteq Nat /\ Latencies \subseteq Nat

VARIABLES
    source,      \* which producer runs: "engine", "collector" or "heartbeat"
    telem,       \* the snapshots in arena.telem_ring
    drops,       \* arena.telemetry_drops
    batch,       \* _batch, _latencies and the totals of the collector
    sink,        \* the background thread
    answer,      \* the last response of the metrics server
    delivered    \* history: fills in the collector's snapshots the sink took

telemetryVars == <<source, telem, drops, batch, sink, answer, delivered>>

EmptyBatch == [filled |-> 0, latencies |-> <<>>]
Snapshot(fills, total) == [fill_count |-> fills, fills_total |-> total]

\* percentile(rank) of the sorted latencies.
percentile(sorted, rank) ==
    LET n == Len(sorted)
        denominator == IF rank >= 1000 THEN 1000 ELSE 100
        index == (n * rank + denominator - 1) \div denominator
    IN  IF n = 0 THEN 0
        ELSE sorted[IF index = 0 THEN 1 ELSE IF index < n THEN index ELSE n]

\* flush sorts the latencies.
Sorted(s) ==
    LET places == CHOOSE p \in Surjection(DOMAIN s, DOMAIN s) :
                     \A i, j \in DOMAIN s : i < j => s[p[i]] <= s[p[j]]
    IN  [i \in DOMAIN s |-> s[places[i]]]

-----------------------------------------------------------------------------
TelemetryInit ==
    /\ source \in {"engine", "collector", "heartbeat"}
    /\ telem = <<>> /\ drops = 0
    /\ batch = [now |-> EmptyBatch, total |-> 0]
    /\ \E kind \in {"http", "bridge"} :
        sink = [kind |-> kind, pc |-> "stopped", running |-> FALSE,
                snapshot |-> Snapshot(0, 0), sequence |-> 0, sent |-> 0, errors |-> 0, pumped |-> 0]
    /\ answer = [status |-> 0, total |-> 0]
    /\ delivered = 0

\* publish(): into the ring, or counted as dropped.
Published(snapshot) ==
    IF Len(telem) < TelemCap
    THEN telem' = Append(telem, snapshot) /\ UNCHANGED drops
    ELSE telem' = telem /\ drops < MaxDrops /\ drops' = drops + 1

record_fill ==
    /\ batch.total < MaxRecorded
    /\ batch' = [batch EXCEPT !.now.filled = @ + 1, !.total = @ + 1]
    /\ UNCHANGED <<source, telem, drops, sink, answer, delivered>>

\* Latencies beyond the capacity are only counted.
record_latency(ns) ==
    /\ source = "collector" /\ Len(batch.now.latencies) < MaxLatencies
    /\ batch' = [batch EXCEPT !.now.latencies = Append(@, ns)]
    /\ UNCHANGED <<source, telem, drops, sink, answer, delivered>>

\* Mutant: the batch is cleared although the ring was full.
ClearedAnyway(b) == [b EXCEPT !.now = EmptyBatch]

\* What a flush of the batch that found the ring full leaves.
FlushRefused(b) == b

\* The snapshot carries the median and the 99th percentile of the latencies,
\* which nothing else depends on.
flush_batch ==
    /\ source = "collector"
    /\ Published(Snapshot(batch.now.filled, batch.total))
    /\ batch' = IF telem' = telem THEN FlushRefused(batch)
                ELSE [batch EXCEPT !.now = EmptyBatch]
    /\ UNCHANGED <<source, sink, answer, delivered>>

\* publish_metrics_snapshot of the engine: both fields are the total.
publish_metrics_snapshot ==
    /\ source = "engine"
    /\ Published(Snapshot(batch.total, batch.total))
    /\ UNCHANGED <<source, batch, sink, answer, delivered>>

\* A heartbeat counts the slots that hold fills and leaves the totals zero.
publish_heartbeat(slots) ==
    /\ source = "heartbeat"
    /\ Published(Snapshot(slots, 0))
    /\ UNCHANGED <<source, batch, sink, answer, delivered>>

-----------------------------------------------------------------------------
(***************************************************************************)
(* MetricsHttpServer.                                                      *)
(***************************************************************************)
\* The fills that a sequence of snapshots adds to a sum.
FillsIn(base, snapshots) ==
    FoldLeft(LAMBDA sum, s : sum + s.fill_count, base, snapshots)

Consumed(n) ==
    /\ telem' = SubSeq(telem, n + 1, Len(telem))
    /\ delivered' = IF source = "collector" THEN FillsIn(delivered, SubSeq(telem, 1, n))
                    ELSE delivered

Drainable == IF Len(telem) < MaxPerLoop THEN Len(telem) ELSE MaxPerLoop

Drained(s) == IF Drainable = 0 THEN s ELSE [s EXCEPT !.snapshot = telem[Drainable]]

start ==
    /\ sink.kind = "http" /\ sink.pc = "stopped"
    /\ sink' = [sink EXCEPT !.pc = "poll", !.running = TRUE, !.snapshot = Snapshot(0, 0)]
    /\ answer' = [status |-> 0, total |-> 0]
    /\ UNCHANGED <<source, telem, drops, batch, delivered>>

\* One turn of serve() without a client, and the drain after its loop.
serve ==
    /\ sink.kind = "http" /\ sink.pc = "poll"
    /\ Consumed(Drainable)
    /\ sink' = [Drained(sink) EXCEPT !.pc = IF sink.running THEN "poll" ELSE "done"]
    /\ UNCHANGED <<source, drops, batch, answer>>

\* The first Authorization header decides.
has_valid_bearer(headers) ==
    LET auth == SelectSeq(headers, LAMBDA h : h.name = "Authorization")
    IN  auth # <<>> /\ auth[1].scheme = "Bearer" /\ auth[1].token = "right"

\* Nothing is answered to headers that do not arrive in time.
Status(request) ==
    CASE ~request.complete -> 0
      [] request.line = "health" -> 200
      [] request.line = "metrics" -> IF has_valid_bearer(request.headers) THEN 200 ELSE 401
      [] OTHER -> 404

Scrapes(request) == request.line = "metrics" /\ Status(request) = 200

service_client(request) ==
    /\ sink.kind = "http" /\ sink.pc = "poll" /\ sink.running
    /\ IF Scrapes(request)
       THEN /\ Consumed(Drainable) /\ sink' = Drained(sink)
            /\ answer' = [status |-> 200, total |-> sink'.snapshot.fills_total]
       ELSE /\ UNCHANGED <<telem, delivered, sink>>
            /\ answer' = [answer EXCEPT !.status = Status(request)]
    /\ UNCHANGED <<source, drops, batch>>

stop ==
    /\ sink.kind = "http" /\ sink.running
    /\ sink' = [sink EXCEPT !.running = FALSE]
    /\ UNCHANGED <<source, telem, drops, batch, answer, delivered>>

join ==
    /\ sink.pc = "done"
    /\ sink' = [sink EXCEPT !.pc = "stopped"]
    /\ UNCHANGED <<source, telem, drops, batch, answer, delivered>>

-----------------------------------------------------------------------------
(***************************************************************************)
(* TelemetryBridge.                                                        *)
(***************************************************************************)
bridge_start ==
    /\ sink.kind = "bridge" /\ sink.pc = "stopped" /\ sink.sequence = 0
    /\ sink' = [sink EXCEPT !.pc = "pump", !.running = TRUE, !.pumped = 0]
    /\ UNCHANGED <<source, telem, drops, batch, answer, delivered>>

\* pump_once sends the oldest snapshot and consumes it whether or not that worked.
pump_once(ok) ==
    /\ sink.kind = "bridge" /\ sink.pc = "pump" /\ sink.pumped < MaxBatch /\ telem # <<>>
    /\ Consumed(1)
    /\ sink' = [sink EXCEPT !.sequence = @ + 1, !.snapshot = telem[1],
                            !.sent = IF ok THEN @ + 1 ELSE @, !.pumped = IF ok THEN @ + 1 ELSE @,
                            !.errors = IF ok THEN @ ELSE @ + 1]
    /\ sink.sequence < MaxRecorded
    /\ UNCHANGED <<source, drops, batch, answer>>

\* run_loop: once stopped it pumps until a round sends nothing.
run_loop ==
    /\ sink.kind = "bridge" /\ sink.pc = "pump" /\ (sink.pumped = MaxBatch \/ telem = <<>>)
    /\ sink' = [sink EXCEPT !.pumped = 0,
                            !.pc = IF ~sink.running /\ sink.pumped = 0 THEN "done" ELSE "pump"]
    /\ UNCHANGED <<source, telem, drops, batch, answer, delivered>>

bridge_stop ==
    /\ sink.kind = "bridge" /\ sink.running
    /\ sink' = [sink EXCEPT !.running = FALSE]
    /\ UNCHANGED <<source, telem, drops, batch, answer, delivered>>

TelemetryNext ==
    \/ record_fill \/ flush_batch \/ publish_metrics_snapshot
    \/ \E slots \in 0 .. batch.total : publish_heartbeat(slots)
    \/ \E ns \in Latencies : record_latency(ns)
    \/ start \/ serve \/ stop \/ join
    \/ \E request \in ScrapeRequests : service_client(request)
    \/ bridge_start \/ run_loop \/ bridge_stop
    \/ \E ok \in BOOLEAN : pump_once(ok)

-----------------------------------------------------------------------------
(***************************************************************************)
(* Properties.                                                             *)
(***************************************************************************)

\* No fill is lost or counted twice between the collector and the sink, however
\* often the ring was full: what was recorded is in the batch, in the ring or
\* with the sink, and every snapshot the bridge took was sent or counted as an
\* error.
FillsAccounted ==
    /\ source = "collector" =>
        batch.total = batch.now.filled + delivered + FillsIn(0, telem)
    /\ sink.sequence = sink.sent + sink.errors

\* A counter that Prometheus scrapes never goes back while the server runs: the
\* last answer, the server's snapshot and the ring are in order of their totals.
CountersMonotone ==
    source # "heartbeat" =>
        LET shown == <<answer.total, sink.snapshot.fills_total>>
                     \o [i \in DOMAIN telem |-> telem[i].fills_total] \o <<batch.total>>
        IN  \A i \in 1 .. Len(shown) - 1 : shown[i] <= shown[i + 1]

\* The exported median and 99th percentile are the nearest-rank ones: the least
\* latency that at least that share of the latencies does not exceed.
PercentilesNearestRank ==
    LET sorted == Sorted(batch.now.latencies)
        Share(v) == 100 * Cardinality({i \in DOMAIN sorted : sorted[i] <= v})
    IN  \A rank \in {50, 99} :
            sorted # <<>> =>
                LET p == percentile(sorted, rank)
                IN  /\ Share(p) >= rank * Len(sorted)
                    /\ \A v \in ToSet(sorted) : v < p => Share(v) < rank * Len(sorted)

\* However full the ring, slow the sink and mixed the publishers of luv_telemetry.hpp,
\* no fill is lost or counted twice, no scraped counter goes back, and the
\* percentiles are those of the batch.
TelemetrySound == FillsAccounted /\ CountersMonotone /\ PercentilesNearestRank
=============================================================================
