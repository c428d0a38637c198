----------------------------- MODULE HttpServer -----------------------------
(***************************************************************************)
(* The REST control plane of luv_http_server.cpp: the one I/O thread with  *)
(* its fixed client table, and the bridge of two bounded queues to the     *)
(* execution thread.  A loop turn of serve() handles the socket events one *)
(* by one and ends by draining the response queue and expiring clients.    *)
(*                                                                         *)
(* Bytes are abstracted: a request on the wire is a record, a             *)
(* reply is one header part and, for GET /positions, BodyParts parts of    *)
(* the shared serialisation buffer.  At the end of a turn any client may   *)
(* have passed its deadline; several of them expire in several turns.      *)
(***************************************************************************)
EXTENDS Integers, FiniteSets, SequencesExt

CONSTANTS
    NumSlots,        \* kMaxClientSlots
    MaxPending,      \* kMaxPendingExecutionResponses
    RequestCap,      \* capacity of requests_
    ResponseCap,     \* capacity of responses_
    FirstOrderId,    \* ServerConfig.first_order_id
    LastOrderId,     \* UINT32_MAX: the last id take_order_id hands out
    LastRequestId,   \* UINT64_MAX: the last id take_http_request_id hands out
    Limit,           \* kMaxRequestBytes - 1
    NumSymbols,      \* Config::kSymbols
    BodyParts,       \* sends a serialised positions body takes
    Environments     \* what may happen around the server, see env

\* What a request asks for: a command and the order id in its path.
Commands == {"none", "submit", "query", "cancel", "positions",
             "upgrade", "invalid_upgrade", "not_found"}

Asks == [cmd : Commands, id : Nat]

ASSUME HttpAssumption ==
    /\ NumSlots \in Nat \ {0} /\ MaxPending \in Nat \ {0}
    /\ RequestCap \in Nat \ {0} /\ ResponseCap \in Nat \ {0}
    /\ FirstOrderId \in Nat /\ LastOrderId \in Nat \ {0}
    /\ LastRequestId \in Nat \ {0}
    /\ BodyParts \in Nat /\ NumSymbols \in Nat
    /\ \A e \in Environments : /\ {e.conns, e.starts, e.signals} \subseteq Nat
                               /\ \A w \in e.wire : w.ask \in Asks

VARIABLES
    env,        \* fixed: the requests peers send, how many peers connect at a
                \* time, how often the listener is started, and how many
                \* orders the strategy places (none without --model)
    http,       \* client table, positions buffer and outstanding ids
    turn,       \* where the I/O thread is in its loop
    running,    \* running_
    starts,     \* starts of the listener so far
    bridge,     \* requests_, responses_ and deferred_response_
    nextOrder,  \* next_order_id_
    nextReq     \* g_next_http_request_id

httpVars == <<env, http, turn, running, starts, bridge, nextOrder, nextReq>>

ClientSlots == 1 .. NumSlots
NoOwner == 0
NoAsk == [cmd |-> "none", id |-> 0]

\* ClientSlot after close_client or before the first accept.  "own" is a
\* history flag: the reply under way answers what this client asked.
FreeClient == [phase |-> "free", req |-> 0, ask |-> NoAsk, owns |-> FALSE,
               head |-> 0, body |-> 0, own |-> TRUE]

\* A response as process_one builds it, with the request it answers.
NoResponse == [req |-> 0, ask |-> NoAsk]

EmptyBridge == [requests |-> <<>>, responses |-> <<>>, deferred |-> NoResponse]

-----------------------------------------------------------------------------
(***************************************************************************)
(* Framing.  w.size bytes have arrived, of which w.header make up the      *)
(* header if it has ended; w.line and w.fields say whether the request     *)
(* line and the header fields pass their checks; w.length is the declared  *)
(* Content-Length, w.body the order it carries.                            *)
(***************************************************************************)
WireRequest(size, ended, header, line, fields, length, auth, ask, body) ==
    [size |-> size, ended |-> ended, header |-> header, line |-> line, fields |-> fields,
     length |-> length, auth |-> auth, ask |-> ask, body |-> body]

wire_request(w) ==
    CASE ~w.ended -> IF w.size >= Limit THEN "too_large" ELSE "incomplete"
      [] w.ended /\ w.header > Limit -> "too_large"
      [] w.ended /\ w.header <= Limit /\ ~(w.line /\ w.fields) -> "invalid"
      [] w.ended /\ w.header <= Limit /\ w.line /\ w.fields ->
            IF w.length > Limit - w.header THEN "too_large"
            ELSE IF w.size < w.header + w.length THEN "incomplete" ELSE "complete"

(***************************************************************************)
(* The fields of an order.  A JSON value is a record of what its text is   *)
(* and a number: an unsigned integer that fits INT64_MAX and its value, a  *)
(* decimal within the x10^4 range and its fractional digits, a quoted name *)
(* of ticker characters and its length, a quoted side, or any other text.  *)
(***************************************************************************)
NoText == [kind |-> "none", n |-> 0]

json_uint64(t) == t.kind = "uint"

json_side(t) == t.kind = "side"

json_decimal_price(t) == t.kind = "uint" \/ (t.kind = "decimal" /\ t.n \in 1 .. 4)

json_symbol_index(t) == t.kind = "name" /\ t.n \in 1 .. 8

\* Exactly one way to name the symbol; the index form takes a fixed-point
\* price and the ticker form a decimal one.
submit_order(b) ==
    /\ (b.symbol_idx = NoText) # (b.symbol = NoText)
    /\ json_uint64(b.qty) /\ json_side(b.side)
    /\ IF b.symbol_idx # NoText
       THEN json_uint64(b.symbol_idx) /\ b.symbol_idx.n < NumSymbols /\ json_uint64(b.price)
       ELSE json_symbol_index(b.symbol) /\ json_decimal_price(b.price)

\* take_order_id and take_http_request_id: the last id is handed out once and
\* then the counter stays at the exhausted sentinel 0.
IdAfter(next, last) == IF next = 0 \/ next = last THEN 0 ELSE next + 1

-----------------------------------------------------------------------------
(***************************************************************************)
(* The client table.  Every operator takes the table h and returns it as   *)
(* the method of the same name leaves it.                                  *)
(***************************************************************************)

\* Mutant: the buffer stays reserved.
BodyKept(h, s) == [h EXCEPT !.client[s].owns = FALSE, !.client[s].body = 0]

release_positions_body(h, s) ==
    IF ~h.client[s].owns THEN h
    ELSE [h EXCEPT !.client[s].owns = FALSE, !.client[s].body = 0,
                   !.owner = IF @ = s THEN NoOwner ELSE @,
                   !.filled = IF h.owner = s THEN 0 ELSE @]

close_client(h, s) == [release_positions_body(h, s) EXCEPT !.client[s] = FreeClient]

\* What ::send can come to.
SendResults == {"sent", "again", "error"}

\* One bounded write: the header first, then the shared body; a client with
\* nothing left to send is closed.
flush_client(h, s, f) ==
    LET c == h.client[s] IN
    CASE c.head = 0 /\ c.body = 0 -> close_client(h, s)
      [] (c.head > 0 \/ c.body > 0) /\ f = "error" -> close_client(h, s)
      [] (c.head > 0 \/ c.body > 0) /\ f = "again" -> h
      [] c.head > 0 /\ f = "sent" -> [h EXCEPT !.client[s].head = 0]
      [] c.head = 0 /\ c.body > 0 /\ f = "sent" -> [h EXCEPT !.client[s].body = @ - 1]

\* A reply is under way; only the reply to GET /positions still needs to know
\* its request.
Sending(c, parts, own) ==
    [c EXCEPT !.phase = "sending", !.head = 1, !.body = parts, !.own = own,
              !.ask = NoAsk, !.req = IF parts = 0 THEN 0 ELSE @]

\* Any reply but a positions snapshot; it gives back a positions reservation.
queue_inline_json(h, s, own, f) ==
    LET g == release_positions_body(h, s)
    IN  flush_client([g EXCEPT !.client[s] = Sending(@, 0, own)], s, f)

queue_positions_json(h, s, own, f) ==
    IF ~h.client[s].owns THEN h
    ELSE flush_client([h EXCEPT !.client[s] = Sending(@, BodyParts, own),
                                !.filled = h.client[s].req], s, f)

Refuse(s, f) == http' = queue_inline_json(http, s, TRUE, f)

-----------------------------------------------------------------------------
(***************************************************************************)
(* The I/O thread.                                                         *)
(***************************************************************************)
Serving == turn = "on" /\ UNCHANGED <<env, turn, running, starts>>

FreeSlots == {s \in ClientSlots : http.client[s].phase = "free"}

\* accept_clients, one connection: the first free slot takes it.  Without a
\* free slot the peer gets a best-effort 503 and nothing changes.
accept_client ==
    /\ Serving /\ running
    /\ FreeSlots # {} /\ Cardinality(ClientSlots \ FreeSlots) < env.conns
    /\ http' = [http EXCEPT !.client[Min(FreeSlots)].phase = "reading"]
    /\ UNCHANGED <<bridge, nextOrder, nextReq>>

\* The peer goes away, or a socket call fails: at any phase.
hang_up(s) ==
    /\ Serving
    /\ http.client[s].phase # "free"
    /\ http' = close_client(http, s)
    /\ UNCHANGED <<bridge, nextOrder, nextReq>>

\* POLLOUT on a client with a reply under way.
continue_reply(s, f) ==
    /\ Serving
    /\ http.client[s].phase = "sending" /\ f # "again"
    /\ http' = flush_client(http, s, f)
    /\ UNCHANGED <<bridge, nextOrder, nextReq>>

Readable(s, w) == Serving /\ http.client[s].phase = "reading"

\* read_client: framing that cannot become a request.
read_malformed(s, w, f) ==
    /\ Readable(s, w)
    /\ wire_request(w) \in {"invalid", "too_large"}
    /\ Refuse(s, f)
    /\ UNCHANGED <<bridge, nextOrder, nextReq>>

Complete(s, w) == Readable(s, w) /\ wire_request(w) = "complete"

\* dispatch_client: no valid bearer token, an unparsable order, an invalid
\* upgrade or an unknown path.
dispatch_refused(s, w, f) ==
    /\ Complete(s, w)
    /\ \/ ~w.auth
       \/ w.ask.cmd = "submit" /\ ~submit_order(w.body)
       \/ w.ask.cmd \in {"invalid_upgrade", "not_found"}
    /\ Refuse(s, f)
    /\ UNCHANGED <<bridge, nextOrder, nextReq>>

\* GET /stream: the WebSocket server takes the duplicated descriptor, or its
\* pool or queue has no room.
dispatch_upgrade(s, w, taken, f) ==
    /\ Complete(s, w) /\ w.auth /\ w.ask.cmd = "upgrade"
    /\ IF taken THEN http' = close_client(http, s) ELSE Refuse(s, f)
    /\ UNCHANGED <<bridge, nextOrder, nextReq>>

Pushed(q, cap, x) == IF Len(q) < cap THEN Append(q, x) ELSE q

\* POST /orders: an id is drawn before the queue is tried, and 202 says only
\* that the order is queued.
dispatch_submit(s, w, f) ==
    /\ Complete(s, w) /\ w.auth /\ w.ask.cmd = "submit" /\ submit_order(w.body)
    /\ nextOrder' = IdAfter(nextOrder, LastOrderId)
    /\ bridge' = IF nextOrder = 0 THEN bridge
                 ELSE [bridge EXCEPT !.requests =
                         Pushed(@, RequestCap, [req |-> 0, ask |-> [w.ask EXCEPT !.id = nextOrder]])]
    /\ Refuse(s, f)
    /\ UNCHANGED nextReq

\* The table once a request that waits for its answer is queued.
Awaiting(h, s, ask) ==
    [h EXCEPT !.outstanding = @ \cup {nextReq},
              !.client[s] = [@ EXCEPT !.phase = "waiting", !.req = nextReq,
                                      !.ask = ask]]

\* reserve_positions_body.
BodyReserved(h, s, ask) ==
    IF ask.cmd # "positions" THEN h
    ELSE [h EXCEPT !.owner = s, !.filled = 0, !.client[s].owns = TRUE]

Waits(ask) == ask.cmd \in {"query", "cancel", "positions"}

\* GET and DELETE: a request id, the positions buffer if needed, response
\* capacity and a place in the queue, or 503 with everything given back.
Reservable(w) ==
    /\ nextReq # 0
    /\ w.ask.cmd = "positions" => http.owner = NoOwner
    /\ Cardinality(http.outstanding) < MaxPending
    /\ Len(bridge.requests) < RequestCap

dispatch_busy(s, w, f) ==
    /\ Complete(s, w) /\ w.auth /\ Waits(w.ask)
    /\ ~Reservable(w)
    /\ nextReq' = IdAfter(nextReq, LastRequestId)
    /\ Refuse(s, f)
    /\ UNCHANGED <<bridge, nextOrder>>

dispatch_waiting(s, w) ==
    /\ Complete(s, w) /\ w.auth /\ Waits(w.ask)
    /\ Reservable(w)
    /\ nextReq' = IdAfter(nextReq, LastRequestId)
    /\ bridge' = [bridge EXCEPT !.requests = Append(@, [req |-> nextReq, ask |-> w.ask])]
    /\ http' = Awaiting(BodyReserved(http, s, w.ask), s, w.ask)
    /\ UNCHANGED nextOrder

\* send_response.
send_response(h, s, r, f) ==
    LET own == r.ask = h.client[s].ask
    IN  IF h.client[s].ask.cmd = "positions" THEN queue_positions_json(h, s, own, f)
        ELSE queue_inline_json(h, s, own, f)

\* One step of drain_responses: an id that is not outstanding belongs to an
\* earlier listener; otherwise its capacity is free again and the client that
\* still waits for it, if any, is answered.
Delivered(h, r, f) ==
    LET g == [h EXCEPT !.outstanding = @ \ {r.req}]
        W == {s \in ClientSlots : h.client[s].phase = "waiting" /\ h.client[s].req = r.req}
    IN  IF r.req \notin h.outstanding \/ W = {} THEN g ELSE send_response(g, Min(W), r, f)

drain_responses(h, f) ==
    LET drained[n \in 0 .. Len(bridge.responses)] ==
            IF n = 0 THEN h ELSE Delivered(drained[n - 1], bridge.responses[n], f)
    IN  drained[Len(bridge.responses)]

\* Mutant: only requests expire, a reply under way does not.
ExpireRequests(h, s, f) ==
    IF h.client[s].phase \in {"free", "sending"} THEN h ELSE queue_inline_json(h, s, TRUE, f)

\* One step of expire_clients: a reply that cannot be delivered is abandoned, a
\* request or an execution that takes too long is answered 408 or 504.
Expired(h, s, f) ==
    IF h.client[s].phase = "free" THEN h
    ELSE IF h.client[s].phase = "sending" THEN close_client(h, s)
    ELSE queue_inline_json(h, s, TRUE, f)

NoClient == 0

\* A reply queued by the drain has a new deadline.
expire_clients(h, late, f) ==
    IF late = NoClient \/ h.client[late] # http.client[late] THEN h ELSE Expired(h, late, f)

\* close_all_clients.
AllClosed ==
    [http EXCEPT !.client = [s \in ClientSlots |-> FreeClient],
                 !.owner = IF @ # NoOwner /\ http.client[@].owns THEN NoOwner ELSE @,
                 !.filled = IF http.owner # NoOwner /\ http.client[http.owner].owns
                            THEN 0 ELSE @]

\* The end of a turn: the response queue is drained, then a late client
\* expires.
end_of_turn(late, f) ==
    /\ Serving /\ running
    /\ http' = expire_clients(drain_responses(http, f), late, f)
    /\ bridge' = [bridge EXCEPT !.responses = <<>>]
    /\ UNCHANGED <<nextOrder, nextReq>>

\* Without running_ the thread closes every client and the listener and ends.
end_of_serve ==
    /\ turn = "on" /\ ~running
    /\ turn' = "ended"
    /\ http' = AllClosed
    /\ UNCHANGED <<env, running, starts, bridge, nextOrder, nextReq>>

\* poll() fails: the thread ends by itself and clears running_.
poll_fails ==
    /\ turn = "on"
    /\ turn' = "ended"
    /\ running' = FALSE
    /\ http' = AllClosed
    /\ UNCHANGED <<env, starts, bridge, nextOrder, nextReq>>

-----------------------------------------------------------------------------
(***************************************************************************)
(* The owner of the server.                                                *)
(***************************************************************************)

\* Mutant: every listener numbers its requests from one.
FreshIds == 1

KeptIds == nextReq

\* start(): the client table is empty and the reservations of an earlier
\* listener are forgotten; what the bridge still holds stays there.
start ==
    /\ turn = "off" /\ ~running
    /\ starts < env.starts
    /\ starts' = starts + 1
    /\ running' = TRUE
    /\ turn' = "on"
    /\ http' = [http EXCEPT !.outstanding = {}, !.owner = NoOwner, !.filled = 0]
    /\ nextReq' = KeptIds
    /\ UNCHANGED <<env, bridge, nextOrder>>

\* stop(): the I/O thread sees it at the end of its turn; the caller joins the
\* thread, also one that has ended by itself.
stop ==
    /\ running
    /\ running' = FALSE
    /\ UNCHANGED <<env, http, turn, starts, bridge, nextOrder, nextReq>>

stop_joins ==
    /\ turn = "ended"
    /\ turn' = "off"
    /\ UNCHANGED <<env, http, running, starts, bridge, nextOrder, nextReq>>

HttpInit ==
    /\ env \in Environments
    /\ http = [client |-> [s \in ClientSlots |-> FreeClient],
               owner |-> NoOwner, filled |-> 0, outstanding |-> {}]
    /\ turn = "off" /\ running = FALSE /\ starts = 0
    /\ bridge = EmptyBridge
    /\ nextOrder = FirstOrderId /\ nextReq = 1

read_client(s, w) ==
    \/ dispatch_waiting(s, w)
    \/ \E f \in SendResults :
        \/ read_malformed(s, w, f) \/ dispatch_refused(s, w, f)
        \/ dispatch_submit(s, w, f) \/ dispatch_busy(s, w, f)
        \/ \E taken \in BOOLEAN : dispatch_upgrade(s, w, taken, f)

HttpNext ==
    \/ accept_client \/ end_of_serve \/ poll_fails
    \/ \E s \in ClientSlots :
        \/ hang_up(s)
        \/ \E w \in env.wire : read_client(s, w)
        \/ \E f \in SendResults : continue_reply(s, f)
    \/ \E late \in ClientSlots \cup {NoClient}, f \in SendResults : end_of_turn(late, f)

\* A turn that finds client s past its deadline.
TurnPast(s) == \E f \in SendResults : end_of_turn(s, f)

-----------------------------------------------------------------------------
Sends(s) == http.client[s].phase = "sending" /\ http.client[s].body > 0

\* A client is only ever sent the answer to what it asked: the response queue
\* outlives the listener, and a reply an earlier listener left behind never
\* passes for the reply to a request of the present one.
AnswersOwnRequest == \A s \in ClientSlots : http.client[s].own

\* The one positions buffer: while its bytes are on their way to a client it
\* belongs to that client and holds the snapshot taken for its request, and it
\* is never reserved for a client that no longer waits for it or sends it.
PositionsBodyExclusive ==
    /\ \A s \in ClientSlots : Sends(s) => http.owner = s /\ http.filled = http.client[s].req
    /\ http.owner # NoOwner =>
         http.client[http.owner].owns /\ http.client[http.owner].phase \in {"waiting", "sending"}

InFlight == {bridge.requests[i].req : i \in DOMAIN bridge.requests}
              \cup {bridge.responses[i].req : i \in DOMAIN bridge.responses}
              \cup {bridge.deferred.req}

\* Response capacity is held exactly as long as an answer is still to come: no
\* timeout, hang-up or restart leaves an id outstanding that no response will
\* release, which would use up the eight ids for good.
CapacityAccounted == http.outstanding \subseteq InFlight

\* Every accepted connection is closed in the end, whatever its peer and the
\* execution thread do: a slot is never lost to a slow or silent one.
ClientsReleased ==
    \A s \in ClientSlots : (http.client[s].phase # "free") ~> (http.client[s].phase = "free")
=============================================================================
