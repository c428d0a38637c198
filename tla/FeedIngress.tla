----------------------------- MODULE FeedIngress -----------------------------
(***************************************************************************)
(* Market data from a network card: DpdkFeedSource of luv_feed_dpdk.hpp,   *)
(* with the packet framing of luv_moldudp64.hpp, the SequenceTracker and   *)
(* the sequence breaker of luv_safety.hpp and the decoder, writing to the  *)
(* tick ring that the main loop empties.                                   *)
(*                                                                         *)
(* The network may lose, repeat, reorder and damage packets: any packet of *)
(* Packets may arrive at any time.  The messages of a packet are decoded   *)
(* one by one while the consumer goes on.  The ring is a bounded queue.    *)
(***************************************************************************)
EXTENDS ItchDecoder, SequenceTracker

CONSTANTS
    Packets,         \* what can arrive
    Registrations,   \* (ticker, index) pairs the owner may register
    RingCap,         \* Config::kTickCapacity
    MaxAccepted      \* bound on the packets accepted in a run

ASSUME IngressAssumption ==
    /\ RingCap \in Nat \ {0} /\ MaxAccepted \in Nat
    /\ Registrations \subseteq Tickers \X (0 .. NotFound)
    /\ \A p \in Packets : p.sequence \in Nat

VARIABLES
    table,      \* _symbols
    tracker,    \* _sequence
    healthy,    \* _sequence_breaker.allow()
    messages,   \* the rest of the packet under way, with its number
    ring,       \* tick_ring
    seen        \* history: accepted packet numbers and registrations

ingressVars == <<table, tracker, healthy, messages, ring, seen>>

-----------------------------------------------------------------------------
(***************************************************************************)
(* Framing.  A payload declares its sequence number and its message count; *)
(* p.blocks holds the length found at each message's place and p.room the  *)
(* bytes behind the header.                                                *)
(***************************************************************************)
HeaderSize == 20

parse_header(p) == p.size >= HeaderSize

BlockBytes(blocks) == FoldLeft(LAMBDA n, len : n + 2 + len, 0, blocks)

\* Declared messages that are empty, run over the end or leave bytes behind
\* make the packet invalid.
validate_message_block(p) ==
    /\ p.count = Len(p.blocks)
    /\ \A i \in DOMAIN p.blocks : p.blocks[i] # 0
    /\ BlockBytes(p.blocks) = p.size - HeaderSize

-----------------------------------------------------------------------------
IngressInit ==
    /\ table = EmptyTable
    /\ tracker = NewTracker
    /\ healthy = TRUE
    /\ messages = <<>>
    /\ ring = <<>>
    /\ seen = [accepted |-> <<>>, known |-> <<>>]

\* The owner registers a ticker through symbols().
register_symbol(k, idx) ==
    /\ messages = <<>> /\ seen.accepted = <<>>
    /\ table' = insert(table, k, idx)
    /\ seen' = IF idx >= NumSymbols \/ ~HasRoom(table) THEN seen
               ELSE [seen EXCEPT !.known = [j \in {k} \cup DOMAIN @ |-> IF j = k THEN idx ELSE @[j]]]
    /\ table' # table
    /\ UNCHANGED <<tracker, healthy, messages, ring>>

\* A packet process_packet looks at: one piece, long enough, and the breaker
\* has not been tripped.
Looks(p) == messages = <<>> /\ p.contiguous /\ healthy /\ p.size >= HeaderSize

Refused == {"gap", "out_of_order", "duplicate"}

\* Mutant: a repeated packet is taken for a new one.
TolerateRepeats(r) == r \in {"gap", "out_of_order"}

\* The answers that stop the feed.
Stops(r) == r \in Refused

\* Any irregular number trips the breaker for good: nothing resets it.
packet_refused(p) ==
    /\ Looks(p) /\ parse_header(p) /\ validate_message_block(p)
    /\ Stops(Classified(tracker, p.sequence))
    /\ tracker' = observe(tracker, p.sequence)
    /\ healthy' = FALSE
    /\ UNCHANGED <<table, messages, ring, seen>>

process_packet(p) ==
    /\ Looks(p) /\ parse_header(p) /\ validate_message_block(p)
    /\ ~Stops(Classified(tracker, p.sequence))
    /\ Len(seen.accepted) < MaxAccepted
    /\ tracker' = observe(tracker, p.sequence)
    /\ messages' = p.messages
    /\ seen' = [seen EXCEPT !.accepted = Append(@, p.sequence)]
    /\ UNCHANGED <<table, healthy, ring>>

\* One message: it is decoded into a free slot, which is committed if it
\* decodes.
next_message ==
    /\ messages # <<>>
    /\ Len(ring) < RingCap
    /\ ring' = IF Decodes(table, Head(messages))
               THEN Append(ring, decode_itch(table, Head(messages))) ELSE ring
    /\ messages' = Tail(messages)
    /\ UNCHANGED <<table, tracker, healthy, seen>>

\* Without a free slot the rest of the packet is dropped, although its number
\* has been counted as received.
messages_dropped ==
    /\ messages # <<>>
    /\ Len(ring) = RingCap
    /\ messages' = <<>>
    /\ UNCHANGED <<table, tracker, healthy, ring, seen>>

\* The main loop takes a tick (external: TickPipeline).
take_tick ==
    /\ ring # <<>>
    /\ ring' = Tail(ring)
    /\ UNCHANGED <<table, tracker, healthy, messages, seen>>

IngressNext ==
    \/ next_message \/ messages_dropped \/ take_tick
    \/ \E p \in Packets : packet_refused(p) \/ process_packet(p)
    \/ \E r \in Registrations : register_symbol(r[1], r[2])

-----------------------------------------------------------------------------
\* However the network repeats, reorders and loses packets, the packets whose
\* messages reach the ring have consecutive numbers, and as long as the feed
\* is healthy the tracker expects the one after the last of them: a gap is
\* never passed over and no packet is applied twice.
FeedGapFree ==
    LET a == seen.accepted
    IN  /\ \A i \in 1 .. Len(a) - 1 : a[i + 1] = a[i] + 1
        /\ healthy /\ a # <<>> => tracker.next = a[Len(a)] + 1 /\ tracker.gaps = 0

\* Every registered ticker is found with the index it was last given, although
\* lookup stops after half of the table: colliding tickers never push one
\* beyond the last probe.
SymbolsFound ==
    \A k \in DOMAIN seen.known : lookup(table, k) = seen.known[k]
=============================================================================
