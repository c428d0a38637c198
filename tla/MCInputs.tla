------------------------------ MODULE MCInputs ------------------------------
(***************************************************************************)
(* What comes in from outside, one reader at a time: packets of a feed     *)
(* that are lost, repeated, reordered and damaged, with tickers that       *)
(* collide in a table of four; the synthetic and the replayed feed; the    *)
(* frames of a WebSocket peer. And what threads share: a pool of three     *)
(* blocks, rings of two slots, a risk engine between two desks.            *)
(***************************************************************************)
EXTENDS FeedIngress, SimFeedSource, WebSocketFrame, SharedBuffers, RiskStrategies

VARIABLE reader   \* which of them runs

vars == <<reader, ingressVars, simVars, frameVars, bufferVars, strategyVars>>

MCTickerHash == (1 :> 3) @@ (2 :> 3) @@ (3 :> 0)

MCRegistrations == {<<1, 0>>, <<2, 1>>, <<2, 0>>, <<3, 1>>, <<3, 2>>}

Add == Message("A", 36, 1, 9, 1, 1, 1, 2, "B", 0)
Short == [Add EXCEPT !.len = 35]
Trade == Message("P", 44, 1, 0, 0, 1, 1, 1, "S", 1)
Cross == Message("Q", 40, 1, 0, 0, 0, 1, 1, "none", 1)
Halt == Message("H", 25, 1, 0, 0, 0, 0, 1, "P", 0)
RegSho == Message("Y", 20, 1, 0, 0, 0, 0, 3, "1", 0)
Delete == Message("D", 19, 1, 1, 1, 0, 0, 0, "none", 0)
Replace == Message("U", 35, 1, 0, 1, 1, 1, 0, "none", 2)
Priced == Message("C", 36, 1, 0, 1, 1, 1, 0, "Y", 1)

\* A packet that is what its header says.
Whole(sequence, messages_) ==
    LET blocks == [i \in DOMAIN messages_ |-> messages_[i].len]
    IN  [contiguous |-> TRUE, size |-> HeaderSize + BlockBytes(blocks), sequence |-> sequence,
         count |-> Len(blocks), blocks |-> blocks, messages |-> messages_]

MCPackets ==
    {Whole(n, <<Add>>) : n \in 1 .. 4}
      \cup {Whole(2, <<Trade, Short, Cross>>), Whole(3, <<Halt, RegSho>>), Whole(3, <<>>),
            Whole(1, <<Delete, Replace, Priced>>),
            [Whole(2, <<Add>>) EXCEPT !.size = @ + 1],
            [Whole(2, <<Add>>) EXCEPT !.count = 2],
            [Whole(2, <<Add>>) EXCEPT !.contiguous = FALSE]}

Simulated == [mode |-> "synthetic", symbols |-> 1, prebuf_count |-> 2, reorder_window |-> 0,
              burst_size |-> 1, burst_interval |-> 1, min_qty |-> 1, max_qty |-> 2,
              min_price |-> 1, max_price |-> 1, rolls |-> {"A", "E", "X", "D"}, file |-> <<>>]

MCSimConfigs ==
    {Simulated, [Simulated EXCEPT !.symbols = 2],
     [Simulated EXCEPT !.prebuf_count = 4, !.reorder_window = 2, !.rolls = {"D"}],
     [Simulated EXCEPT !.prebuf_count = 3, !.reorder_window = 1, !.rolls = {"D"}],
     [Simulated EXCEPT !.prebuf_count = 3, !.reorder_window = 5, !.rolls = {"D"}, !.burst_interval = 2],
     [Simulated EXCEPT !.mode = "replay", !.burst_size = 0,
                       !.file = <<[whole |-> TRUE], [whole |-> TRUE]>>],
     [Simulated EXCEPT !.mode = "replay",
                       !.file = <<[whole |-> TRUE], [whole |-> FALSE], [whole |-> TRUE]>>]}

\* U+00C2 in two bytes, whole, cut and overlong; a surrogate; a plain letter.
Bytes(final, opcode, payload) ==
    [final |-> final, rsv |-> FALSE, opcode |-> opcode, masked |-> TRUE,
     marker |-> IF Len(payload) <= ShortMax THEN Len(payload) ELSE ShortMax + 1,
     size |-> Len(payload), payload |-> payload]

Payloads == {<<65>>, <<195>>, <<130>>, <<195, 130>>, <<192, 130>>, <<237, 160, 128>>}

MCFrames ==
    {Bytes(final, opcode, p) : final \in BOOLEAN, opcode \in {0, 1, 2}, p \in Payloads}
      \cup {Bytes(TRUE, 9, <<65>>), Bytes(FALSE, 9, <<>>), Bytes(TRUE, 3, <<>>),
            Bytes(TRUE, 8, <<>>), Bytes(TRUE, 8, <<3>>), Bytes(TRUE, 8, <<3, 232>>),
            Bytes(TRUE, 8, <<3, 237>>), Bytes(TRUE, 8, <<3, 232, 195>>),
            [Bytes(TRUE, 1, <<65>>) EXCEPT !.masked = FALSE],
            [Bytes(TRUE, 1, <<65>>) EXCEPT !.marker = ShortMax + 1],
            [Bytes(TRUE, 2, <<>>) EXCEPT !.marker = ShortMax + 2, !.size = MediumMax + 1],
            [Bytes(TRUE, 2, <<>>) EXCEPT !.marker = ShortMax + 2, !.size = TopBit]}

Upgrade ==
    [complete |-> TRUE, method |-> "GET", rest |-> 0,
     headers |-> <<[name |-> "upgrade", value |-> <<"websocket">>],
                   [name |-> "connection", value |-> <<"keep-alive", "upgrade">>],
                   [name |-> "version", value |-> <<"13">>],
                   [name |-> "key", value |-> <<[size |-> 24, padded |-> TRUE, base64 |-> TRUE,
                                                 low_bits |-> 0]>>]>>]

MCHandshakes == {Upgrade, [Upgrade EXCEPT !.method = "POST"], [Upgrade EXCEPT !.rest = 1],
                 [Upgrade EXCEPT !.headers = Tail(@)]}

MCRisk == [max_notional |-> 4, max_qty |-> 2, collar_bps |-> 5000, max_gross |-> 7, max_net |-> 2,
           max_drawdown |-> 2]
RiskOrder(side, price, qty, ref) ==
    [symbol |-> 0, side |-> side, price |-> price, qty |-> qty, ref |-> ref]
MCRiskOrders == {RiskOrder("buy", 1, 2, 0), RiskOrder("sell", 1, 1, 1), RiskOrder("buy", 2, 1, 1)}

MCPnls == {-1, 0}

Plan(total, slices) == [total |-> total, slices |-> slices, price |-> 10, interval |-> 5, base_id |-> 7]
MCPlans == {Plan(7, 3), Plan(2, 3), Plan(6, 4), Plan(9, 1), Plan(0, 2), Plan(4, 0), Plan(5, 5)}
MCBudget == [max_orders |-> 4, max_qty |-> 8]

-----------------------------------------------------------------------------
Readers == {"feed", "simulator", "peer"}
Sharers == {"pool", "burst", "shards", "desks", "sandbox"}

Init ==
    /\ reader \in Readers \cup Sharers
    /\ IngressInit /\ SimInit /\ FrameInit /\ BuffersInit /\ StrategiesInit
    /\ reader # "simulator" => cfg = Simulated

Reads ==
    /\ \/ reader = "feed" /\ IngressNext /\ UNCHANGED <<simVars, frameVars>>
       \/ reader = "simulator" /\ SimNext /\ UNCHANGED <<ingressVars, frameVars>>
       \/ reader = "peer" /\ FrameNext /\ UNCHANGED <<ingressVars, simVars>>
    /\ UNCHANGED <<reader, bufferVars, strategyVars>>

Shares ==
    /\ \/ reader = "pool" /\ PoolNext /\ UNCHANGED <<ringVars, strategyVars>>
       \/ reader = "burst" /\ BurstNext /\ UNCHANGED <<poolVars, strategyVars>>
       \/ reader = "shards" /\ ShardNext /\ UNCHANGED <<poolVars, strategyVars>>
       \/ reader = "desks" /\ EngineNext /\ UNCHANGED <<bufferVars, sandboxVars>>
       \/ reader = "sandbox" /\ SandboxNext /\ UNCHANGED <<bufferVars, engineVars>>
    /\ UNCHANGED <<reader, ingressVars, simVars, frameVars>>

Next == Reads \/ Shares

Spec == Init /\ [][Next]_vars

-----------------------------------------------------------------------------
\* LockFreeFixedBlockPool, ZeroCopyPacketRing, SymbolShardedDispatcher and
\* AutonomousRiskEngine, however the steps of their threads interleave: no block and
\* no item is lost or handed out twice, the exposure exceeds its limits by no more
\* than the orders other threads had approved, a loss at the drawdown limit has the
\* kill switch on; and a strategy's slices add up to what was asked for.
SharedStateSound ==
    /\ reader \in {"pool", "burst", "shards"} => BuffersSound
    /\ reader \in {"desks", "sandbox"} => StrategiesSound
=============================================================================
