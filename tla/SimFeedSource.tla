---------------------------- MODULE SimFeedSource ----------------------------
(***************************************************************************)
(* The simulated feed of luv_feed_sim.hpp: the buffer of synthetic         *)
(* messages and the order in which polls take them, shuffled within a      *)
(* window, and the endless replay of a file.  How a poll and the consumer  *)
(* share the tick ring is TickPipeline's subject: here a poll finds room.  *)
(***************************************************************************)
EXTENDS ItchDecoder

CONSTANT SimConfigs   \* SimConfig values; rolls: the types the seed draws

\* init_synthetic refuses an empty buffer.  The ranges, which it takes as they are,
\* are ones whose symbols, quantities, prices and times the decoder accepts.
ASSUME SimAssumption ==
    /\ SimConfigs \subseteq
          [mode : {"synthetic", "replay"}, symbols : 0 .. NumSymbols, prebuf_count : 1 .. Midnight,
           reorder_window : Nat, burst_size : Nat, burst_interval : Nat,
           min_qty : Nat \ {0}, max_qty : 0 .. MaxQuantity,
           min_price : Nat \ {0}, max_price : 0 .. MaxPrice,
           rolls : SUBSET {"A", "E", "X", "D"}, file : Seq([whole : BOOLEAN])]
    /\ \A c \in SimConfigs : 1 .. c.symbols \subseteq Tickers

VARIABLES
    cfg,    \* _cfg
    sim,    \* buffer, cursors and pacing of the source
    pass    \* history: the indices polled in the present pass of the buffer

simVars == <<cfg, sim, pass>>

\* init_synthetic registers the tickers of its symbols; init_replay registers
\* none.  A window larger than the buffer is cut to it.
SimSymbols(c) ==
    FoldLeft(LAMBDA t, i : insert(t, format_stock(i), i), EmptyTable,
             [i \in 1 .. c.symbols |-> i - 1])

ReorderCapacity == IF cfg.reorder_window < cfg.prebuf_count
                   THEN cfg.reorder_window ELSE cfg.prebuf_count

SimInit ==
    /\ cfg \in SimConfigs
    /\ sim = [prebuf |-> <<>>, refs |-> 1, idx |-> 0, pending |-> <<>>, remaining |-> 0,
              since |-> 0, burst |-> 0, cursor |-> 0,
              symbols |-> IF cfg.mode = "synthetic" THEN SimSymbols(cfg) ELSE EmptyTable]
    /\ pass = <<>>

Synthetic == cfg.mode = "synthetic"
Filled == Len(sim.prebuf) = cfg.prebuf_count

\* One round of generate_synthetic_messages.
generate(m) ==
    /\ Synthetic /\ ~Filled
    /\ m.type \in cfg.rolls
    /\ sim' = [sim EXCEPT !.prebuf = Append(@, m),
                          !.refs = IF m.type = "A" THEN @ + 1 ELSE @]
    /\ UNCHANGED <<cfg, pass>>

\* note_attempt: after burst_interval paced messages burst_size unpaced ones.
note_attempt(s) ==
    IF s.burst # 0 THEN [s EXCEPT !.burst = @ - 1]
    ELSE IF cfg.burst_size = 0 \/ cfg.burst_interval = 0 THEN s
    ELSE IF s.since + 1 >= cfg.burst_interval
    THEN [s EXCEPT !.since = 0, !.burst = cfg.burst_size]
    ELSE [s EXCEPT !.since = @ + 1]

Following(i) == (i + 1) % cfg.prebuf_count

\* n more indices enter the window.
Refilled(s, n) ==
    [s EXCEPT !.pending = @ \o [k \in 1 .. n |-> (s.idx + k - 1) % cfg.prebuf_count],
              !.idx = (@ + n) % cfg.prebuf_count]

\* The window before a choice: filled at the start of a pass, one more index
\* while the buffer has any.
Window(s) ==
    IF s.pending = <<>>
    THEN [Refilled(s, ReorderCapacity) EXCEPT !.remaining = cfg.prebuf_count - ReorderCapacity]
    ELSE IF s.remaining # 0 THEN [Refilled(s, 1) EXCEPT !.remaining = @ - 1] ELSE s

\* Mutant: the last index is dropped instead of the chosen one.
DroppedLast(w, choice) == Front(w)

\* The chosen index leaves, the last one takes its place.
Chosen(w, choice) == Front([w EXCEPT ![choice] = w[Len(w)]])

\* next_synthetic_index with the source it leaves.
WindowChoices(s) == IF ReorderCapacity = 0 THEN {1} ELSE DOMAIN Window(s).pending

next_synthetic_index(s, choice) ==
    IF ReorderCapacity = 0 THEN [index |-> s.idx, source |-> [s EXCEPT !.idx = Following(@)]]
    ELSE LET w == Window(s)
         IN  [index |-> w.pending[choice],
              source |-> [w EXCEPT !.pending = Chosen(@, choice)]]

\* A poll that is not too soon and finds room; whether the message is dropped,
\* decoded or skipped leaves the source the same.
poll_synthetic(choice) ==
    LET next == next_synthetic_index(sim, choice)
    IN  /\ Synthetic /\ Filled
        /\ sim' = note_attempt(next.source)
        /\ pass' = IF Len(pass) = cfg.prebuf_count THEN <<next.index>>
                   ELSE Append(pass, next.index)
        /\ UNCHANGED cfg

\* A replay poll.  The file is a sequence of messages, the last or a damaged
\* one with whole = FALSE; a message that is not whole sends the cursor back.
poll_replay ==
    LET start == IF sim.cursor = Len(cfg.file) THEN 0 ELSE sim.cursor
        whole == cfg.file[start + 1].whole
    IN  /\ ~Synthetic /\ cfg.file # <<>>
        /\ sim' = IF whole THEN note_attempt([sim EXCEPT !.cursor = start + 1])
                  ELSE [sim EXCEPT !.cursor = 0]
        /\ UNCHANGED <<cfg, pass>>

SimNext ==
    \/ \E m \in generate_synthetic_messages(cfg, Len(sim.prebuf), sim.refs) : generate(m)
    \/ (Synthetic /\ Filled /\ \E choice \in WindowChoices(sim) : poll_synthetic(choice))
    \/ poll_replay

-----------------------------------------------------------------------------
\* Every message the generator can write decodes with the tickers the source
\* registered: what poll_synthetic skips as undecodable never comes from it.
SyntheticDecodes ==
    \A i \in DOMAIN sim.prebuf : Decodes(sim.symbols, sim.prebuf[i])

\* Shuffling repeats and loses nothing: however the choices fall, a pass over
\* the buffer polls every message once, none earlier than its window allows.
PassIsPermutation ==
    Synthetic =>
        /\ \A j, k \in DOMAIN pass : pass[j] = pass[k] => j = k
        /\ \A k \in DOMAIN pass :
              /\ pass[k] \in 0 .. cfg.prebuf_count - 1
              /\ pass[k] <= k - 1 + (IF ReorderCapacity = 0 THEN 0 ELSE ReorderCapacity - 1)
        /\ Len(sim.pending) <= ReorderCapacity
=============================================================================
