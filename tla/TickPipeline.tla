---------------------------- MODULE TickPipeline ----------------------------
(***************************************************************************)
(* The feed thread and the engine's main loop around the tick ring: the    *)
(* ingest thread and the loop of main_engine.cpp, FeedSimulator::poll() of *)
(* luv_feed_sim.hpp and Consumer::process_one() of luv_consumer.hpp.       *)
(*                                                                         *)
(* The number of messages asked for is left open, so the ingest thread may *)
(* end before any poll.  What a turn of the main loop does besides the     *)
(* tick, control-plane requests and the strategy's order, appears here     *)
(* only through the shutdown it may request.                               *)
(***************************************************************************)
EXTENDS SPSCRing

VARIABLES
    ingest,          \* where the ingest thread is; "ended" is ingest_done
    loop,            \* where the main loop is
    shutdown,        \* ShutdownController::_requested
    control_plane    \* whether the engine serves requests after the feed

pipelineVars == <<ringVars, ingest, loop, shutdown, control_plane>>

PipelineInit ==
    /\ RingInit
    /\ ingest = "turn" /\ loop = "turn"
    /\ shutdown = FALSE /\ control_plane \in BOOLEAN

\* SIGINT, SIGTERM, or a failure in a turn of the main loop.
request_shutdown ==
    /\ ~shutdown /\ shutdown' = TRUE
    /\ UNCHANGED <<ringVars, ingest, loop, control_plane>>

-----------------------------------------------------------------------------
(***************************************************************************)
(* The ingest thread.                                                      *)
(***************************************************************************)
IngestGoes(from, to) ==
    /\ ingest = from /\ ingest' = to
    /\ UNCHANGED <<loop, shutdown, control_plane>>

\* Mutant: the thread does not look for a shutdown.
ingest_regardless == IngestGoes("turn", "poll") /\ UNCHANGED ringVars

ingest_turn == ~shutdown /\ IngestGoes("turn", "poll") /\ UNCHANGED ringVars

\* Shutdown, or the last message asked for has been fed.
ingest_stop == IngestGoes("turn", "ended") /\ UNCHANGED ringVars

\* Too soon for the configured rate.
poll_paced == IngestGoes("poll", "turn") /\ UNCHANGED ringVars

\* size() shows a full ring, or room: then the next message is taken from its
\* source.
poll_full == \E t \in Positions : load_tail(t) /\ Full(t) /\ IngestGoes("poll", "turn")

poll_room == \E t \in Positions : load_tail(t) /\ ~Full(t) /\ IngestGoes("poll", "checked")

should_drop == IngestGoes("checked", "turn") /\ UNCHANGED ringVars

poll_claim == \E t \in Positions : try_claim(t) /\ IngestGoes("checked", "decode")

decode_itch == /\ begin_write \/ \E v \in Values : end_write(v)
               /\ IngestGoes("decode", "decode")

decode_failed == abandon /\ IngestGoes("decode", "turn")

poll_commit == commit /\ IngestGoes("decode", "turn")

Ingest ==
    \/ ingest_turn \/ ingest_stop
    \/ poll_paced \/ poll_full \/ poll_room \/ should_drop \/ poll_claim
    \/ decode_itch \/ decode_failed \/ poll_commit

-----------------------------------------------------------------------------
(***************************************************************************)
(* The main loop.                                                          *)
(***************************************************************************)
LoopGoes(from, to) ==
    /\ loop = from /\ loop' = to
    /\ UNCHANGED <<ingest, shutdown, control_plane>>

loop_turn == ~shutdown /\ LoopGoes("turn", "peek") /\ UNCHANGED ringVars

loop_stop == shutdown /\ LoopGoes("turn", "stopped") /\ UNCHANGED ringVars

peek_found == \E h \in Positions : try_peek(h) /\ LoopGoes("peek", "process")

process_one == consume /\ LoopGoes("process", "turn")

peek_none == \E h \in Positions : load_head(h) /\ h = tail /\ LoopGoes("peek", "empty")

\* ingest_done is not seen to be set.
feed_running == LoopGoes("empty", "turn") /\ UNCHANGED ringVars

\* Mutant: the flag is taken to mean that the empty ring stays empty.
feed_over == ingest = "ended" /\ LoopGoes("empty", "stopped") /\ UNCHANGED ringVars

\* ingest_done is seen, and with it every commit the thread made.
feed_done ==
    /\ ingest = "ended"
    /\ load_head(head)
    /\ LoopGoes("empty", "drained")

\* The flag is followed by a second look at the ring.
ticks_left == size # 0 /\ LoopGoes("drained", "turn") /\ UNCHANGED ringVars

simulator_finished ==
    /\ size = 0
    /\ LoopGoes("drained", IF control_plane THEN "turn" ELSE "stopped")
    /\ UNCHANGED ringVars

MainLoop ==
    \/ loop_turn \/ loop_stop
    \/ peek_found \/ process_one
    \/ peek_none \/ feed_running \/ feed_done \/ ticks_left \/ simulator_finished

PipelineNext == Ingest \/ MainLoop \/ request_shutdown

(***************************************************************************)
(* Both threads keep running.  A committed position and a set flag are     *)
(* seen sooner or later by a thread that keeps loading them, which C++     *)
(* asks of atomic stores: hence strong fairness of the two steps that see  *)
(* them.                                                                   *)
(***************************************************************************)
Fairness ==
    /\ WF_pipelineVars(Ingest) /\ WF_pipelineVars(MainLoop)
    /\ SF_pipelineVars(peek_found) /\ SF_pipelineVars(feed_done)

PipelineSpec == PipelineInit /\ [][PipelineNext]_pipelineVars /\ Fairness

-----------------------------------------------------------------------------
\* The message a poll has taken from its source after size() showed room is
\* never lost to a full ring: try_claim() cannot fail, however old the tails
\* are that the two loads returned.
CheckedClaimSucceeds ==
    ingest = "checked" => \A t \in Loads(seenTail, tail) : ~Full(t)

\* Unless a shutdown was requested, the engine leaves its loop only after the
\* feed has ended and every tick has been consumed.
StopsDrained ==
    loop = "stopped" /\ ~shutdown => ingest = "ended" /\ head = tail

\* Every committed tick is consumed unless the engine is shut down.
TicksConsumed ==
    \A p \in Positions : (tail = p /\ head # p) ~> (tail # p \/ loop = "stopped")

\* A feed that has ended stops an engine without a control plane, and a
\* shutdown stops every engine; both threads can then be joined.
EngineStops ==
    (shutdown \/ (ingest = "ended" /\ ~control_plane))
        ~> (loop = "stopped" /\ ingest = "ended")

=============================================================================
