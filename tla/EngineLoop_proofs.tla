-------------------------- MODULE EngineLoop_proofs --------------------------
(***************************************************************************)
(* For any number of client slots, queue places, order slots and symbols,  *)
(* and whatever the peers, the gateway and the restarts of the listener    *)
(* do: the positions buffer has one user, a client is only sent its own    *)
(* answer, response capacity is not lost, and a REST order that is open    *)
(* has its simulated report to come.                                       *)
(***************************************************************************)
EXTENDS EngineLoop, Induction

Phases == {"free", "reading", "waiting", "sending"}

Client == [phase : Phases, req : Nat, ask : Asks, owns : BOOLEAN,
           head : Nat, body : Nat, own : BOOLEAN]

Table == [client : [ClientSlots -> Client], owner : ClientSlots \cup {NoOwner},
          filled : Nat, outstanding : SUBSET Nat]

\* A client owns the positions buffer exactly if the buffer says so; only the
\* owner has bytes of it to send, and then it holds the snapshot for it.
TableOK(h) ==
    /\ h \in Table
    /\ \A s \in ClientSlots : h.client[s].own
    /\ \A s \in ClientSlots :
          h.client[s].owns => h.owner = s /\ h.client[s].phase \in {"waiting", "sending"}
    /\ h.owner # NoOwner => h.client[h.owner].owns
    /\ \A s \in ClientSlots :
          h.client[s].body > 0 =>
              /\ h.client[s].owns /\ h.client[s].phase = "sending"
              /\ h.filled = h.client[s].req

Entry == [req : Nat, ask : Asks]

Elements(q) == {q[i] : i \in DOMAIN q}

Bridge == [requests : Seq(Entry), responses : Seq(Entry), deferred : Entry]

\* The requests and responses under way.
EntriesOf(b) == Elements(b.requests) \cup Elements(b.responses) \cup {b.deferred}

Entries == EntriesOf(bridge)

\* An id that take_http_request_id has handed out.
Issued(q) == nextReq = 0 \/ q < nextReq

\* Every client that waits for the answer e asked what e answers.
Agrees(h, e) ==
    \A s \in ClientSlots :
        h.client[s].phase = "waiting" /\ h.client[s].req = e.req => h.client[s].ask = e.ask

HttpTypeOK ==
    /\ env \in Environments
    /\ TableOK(http)
    /\ bridge \in Bridge
    /\ nextReq \in Nat /\ nextOrder \in Nat

\* Without its thread the listener has no clients.
IdleIsEmpty == turn # "on" => \A s \in ClientSlots : http.client[s] = FreeClient

\* Ids are handed out once, so that an id under way names one request.
IdsMatch ==
    /\ \A s \in ClientSlots :
          http.client[s].phase = "waiting" => http.client[s].req # 0 /\ Issued(http.client[s].req)
    /\ \A e \in Entries : /\ e.req # 0 => Issued(e.req)
                          /\ Agrees(http, e)
                          /\ e.ask.cmd = "submit" => e.req = 0

CapacityInv == 0 \notin http.outstanding /\ CapacityAccounted

HttpInv == HttpTypeOK /\ IdleIsEmpty /\ IdsMatch /\ CapacityInv

-----------------------------------------------------------------------------
(***************************************************************************)
(* The client table.                                                       *)
(***************************************************************************)

\* The table g differs from h in client s only, which does not wait in it.
Settles(h, g, s) ==
    /\ TableOK(g)
    /\ g.outstanding = h.outstanding
    /\ \A t \in ClientSlots \ {s} : g.client[t] = h.client[t]
    /\ g.client[s].phase # "waiting"

LEMMA FreeClientType ==
    /\ FreeClient \in Client
    /\ FreeClient.own = TRUE /\ FreeClient.owns = FALSE /\ FreeClient.body = 0
    /\ FreeClient.phase = "free" /\ FreeClient.req = 0
<1>1. NoAsk \in Asks
  BY DEF NoAsk, Asks, Commands
<1>2. FreeClient \in Client
  BY <1>1 DEF FreeClient, Client, Phases
<1>3. /\ FreeClient.own = TRUE /\ FreeClient.owns = FALSE /\ FreeClient.body = 0
      /\ FreeClient.phase = "free" /\ FreeClient.req = 0
  BY DEF FreeClient
<1> QED BY <1>2, <1>3

\* The table g is h with client s replaced by c.
Moved(h, g, s, c) ==
    /\ g \in Table /\ g.client[s] = c
    /\ \A t \in ClientSlots \ {s} : g.client[t] = h.client[t]
    /\ g.owner = h.owner /\ g.filled = h.filled /\ g.outstanding = h.outstanding

LEMMA ExceptMoves ==
    ASSUME NEW h \in Table, NEW s \in ClientSlots, NEW c \in Client
    PROVE  Moved(h, [h EXCEPT !.client[s] = c], s, c)
BY DEF Moved, Table

\* The client c has the claim of client s on the positions buffer.
Fits(h, s, c) ==
    /\ c \in Client /\ c.own = TRUE /\ c.owns = h.client[s].owns
    /\ c.owns => c.phase \in {"waiting", "sending"}
    /\ c.body > 0 => c.owns /\ c.phase = "sending" /\ h.filled = c.req

\* A client may be replaced by one with the same claim on the buffer.
LEMMA ClientMoved ==
    ASSUME NEW h, TableOK(h), NEW s \in ClientSlots, NEW c, Fits(h, s, c),
           NEW g, Moved(h, g, s, c)
    PROVE  TableOK(g)
<1>1. h \in Table /\ h.client \in [ClientSlots -> Client]
  BY DEF TableOK, Table
<1>2. \A t \in ClientSlots : g.client[t].own
  BY DEF TableOK, Moved, Fits
<1>3. \A t \in ClientSlots :
        g.client[t].owns => g.owner = t /\ g.client[t].phase \in {"waiting", "sending"}
  BY DEF TableOK, Moved, Fits
<1>4. g.owner # NoOwner => g.client[g.owner].owns
  BY <1>1 DEF TableOK, Table, Moved, Fits
<1>5. \A t \in ClientSlots :
        g.client[t].body > 0 =>
            g.client[t].owns /\ g.client[t].phase = "sending" /\ g.filled = g.client[t].req
  BY DEF TableOK, Moved, Fits
<1> QED BY <1>2, <1>3, <1>4, <1>5 DEF TableOK, Moved

\* release_positions_body gives the buffer back and leaves the other clients.
LEMMA BodyReleased ==
    ASSUME NEW h, TableOK(h), NEW s \in ClientSlots, NEW g, g = release_positions_body(h, s)
    PROVE  /\ TableOK(g) /\ g.outstanding = h.outstanding /\ g.owner # s
           /\ \A t \in ClientSlots \ {s} : g.client[t] = h.client[t]
           /\ g.client[s] \in Client /\ g.client[s].own
           /\ ~g.client[s].owns /\ g.client[s].body = 0
<1>1. h \in Table /\ h.client \in [ClientSlots -> Client] /\ h.client[s] \in Client
  BY DEF TableOK, Table
<1>2. CASE ~h.client[s].owns
  <2>1. g = h
    BY <1>2 DEF release_positions_body
  <2>2. h.owner # s /\ ~(h.client[s].body > 0)
    BY <1>1, <1>2 DEF TableOK, NoOwner, ClientSlots
  <2>3. h.client[s].body = 0
    BY <1>1, <2>2 DEF Client
  <2> QED BY <1>1, <1>2, <2>1, <2>2, <2>3 DEF TableOK
<1>3. CASE h.client[s].owns
  <2> DEFINE c == [h.client[s] EXCEPT !.owns = FALSE, !.body = 0]
  <2>1. h.owner = s
    BY <1>3 DEF TableOK
  <2>2. /\ c \in Client /\ c.own = h.client[s].own /\ c.phase = h.client[s].phase
        /\ ~c.owns /\ c.body = 0
    BY <1>1 DEF Client
  <2>3. g = [h EXCEPT !.client[s].owns = FALSE, !.client[s].body = 0,
                      !.owner = NoOwner, !.filled = 0]
    BY <1>3, <2>1 DEF release_positions_body
  <2>4. /\ g.client = [h.client EXCEPT ![s] = c] /\ g.owner = NoOwner /\ g.filled = 0
        /\ g.outstanding = h.outstanding
    <3>1. g.client = [h.client EXCEPT ![s].owns = FALSE, ![s].body = 0]
      BY <1>1, <2>3 DEF Table
    <3>2. g.owner = NoOwner /\ g.filled = 0 /\ g.outstanding = h.outstanding
      BY <1>1, <2>3 DEF Table
    <3>3. g.client = [h.client EXCEPT ![s] = c]
      BY <1>1, <3>1
    <3> QED BY <3>2, <3>3
  <2> HIDE DEF c
  <2>5. /\ g.client[s] = c /\ \A t \in ClientSlots \ {s} : g.client[t] = h.client[t]
        /\ g.client \in [ClientSlots -> Client]
    BY <1>1, <2>2, <2>4
  <2>6. g \in Table
    <3>1. g = [client |-> g.client, owner |-> g.owner, filled |-> g.filled,
               outstanding |-> g.outstanding]
      BY <1>1, <2>3 DEF Table
    <3> QED BY <1>1, <2>4, <2>5, <3>1 DEF Table
  <2>7. \A t \in ClientSlots \ {s} : ~h.client[t].owns /\ ~(h.client[t].body > 0) /\ h.client[t].own
    BY <2>1 DEF TableOK
  <2>8. TableOK(g)
    <3>1. \A t \in ClientSlots : ~g.client[t].owns /\ ~(g.client[t].body > 0) /\ g.client[t].own
      BY <2>2, <2>5, <2>7 DEF TableOK
    <3> QED BY <2>4, <2>6, <3>1 DEF TableOK
  <2>9. s # NoOwner
    BY DEF ClientSlots, NoOwner
  <2> QED BY <2>2, <2>4, <2>5, <2>8, <2>9 DEF TableOK
<1> QED BY <1>2, <1>3

LEMMA ClientClosed ==
    ASSUME NEW h, TableOK(h), NEW s \in ClientSlots
    PROVE  Settles(h, close_client(h, s), s)
<1> DEFINE g == release_positions_body(h, s)
<1>1. /\ TableOK(g) /\ g.outstanding = h.outstanding /\ g.owner # s
      /\ \A t \in ClientSlots \ {s} : g.client[t] = h.client[t]
      /\ ~g.client[s].owns
  BY BodyReleased
<1>2. close_client(h, s) = [g EXCEPT !.client[s] = FreeClient]
  BY DEF close_client
<1> DEFINE k == close_client(h, s)
<1> HIDE DEF g
<1>3. FreeClient \in Client /\ g \in Table /\ g.client[s] \in Client
  BY <1>1, FreeClientType DEF TableOK, Table
<1>4. Moved(g, k, s, FreeClient)
  BY <1>2, <1>3, ExceptMoves
<1> HIDE DEF k
<1>5. Fits(g, s, FreeClient)
  BY <1>1, <1>3, FreeClientType DEF Client, Fits
<1>6. TableOK(k)
  BY <1>1, <1>4, <1>5, ClientMoved
<1>7. Settles(h, k, s)
  BY <1>1, <1>4, <1>6, FreeClientType DEF Settles, Moved
<1> QED BY <1>7 DEF k

\* One write for a reply under way leaves it under way or closes the client.
LEMMA ClientFlushed ==
    ASSUME NEW h, TableOK(h), NEW s \in ClientSlots, h.client[s].phase = "sending",
           NEW f \in SendResults
    PROVE  Settles(h, flush_client(h, s, f), s)
<1> DEFINE c == h.client[s]
<1>1. h \in Table /\ h.client \in [ClientSlots -> Client] /\ c \in Client
  BY DEF TableOK, Table
<1>2. c.head \in Nat /\ c.body \in Nat /\ f \in {"sent", "again", "error"}
  BY <1>1 DEF Client, SendResults
<1>3. Settles(h, h, s)
  BY DEF Settles
<1>4. CASE (c.head = 0 /\ c.body = 0) \/ f = "error"
  <2>1. flush_client(h, s, f) = close_client(h, s)
    BY <1>2, <1>4 DEF flush_client
  <2> QED BY <2>1, ClientClosed
<1>5. CASE (c.head > 0 \/ c.body > 0) /\ f = "again"
  <2>1. flush_client(h, s, f) = h
    BY <1>2, <1>5 DEF flush_client
  <2> QED BY <2>1, <1>3
<1>6. CASE c.head > 0 /\ f = "sent"
  <2> DEFINE d == [c EXCEPT !.head = 0]
             g == flush_client(h, s, f)
  <2>1. g = [h EXCEPT !.client[s].head = 0]
    BY <1>2, <1>6 DEF flush_client
  <2>2. g = [h EXCEPT !.client[s] = d]
    BY <1>1, <2>1 DEF Table
  <2>3. /\ d \in Client /\ d.own = c.own /\ d.owns = c.owns /\ d.phase = "sending"
        /\ d.body = c.body /\ d.req = c.req
    BY <1>1 DEF Client
  <2> HIDE DEF d, g
  <2>4. Moved(h, g, s, d)
    BY <1>1, <2>2, <2>3, ExceptMoves
  <2>5. Fits(h, s, d)
    BY <1>1, <2>3 DEF TableOK, Client, Fits
  <2>6. TableOK(g)
    BY <2>4, <2>5, ClientMoved
  <2>7. Settles(h, g, s)
    BY <2>3, <2>4, <2>6 DEF Settles, Moved
  <2> QED BY <2>7 DEF g
<1>7. CASE c.head = 0 /\ c.body > 0 /\ f = "sent"
  <2> DEFINE d == [c EXCEPT !.body = @ - 1]
             g == flush_client(h, s, f)
  <2>1. g = [h EXCEPT !.client[s].body = @ - 1]
    BY <1>2, <1>7 DEF flush_client
  <2>2. g = [h EXCEPT !.client[s] = d]
    BY <1>1, <2>1 DEF Table
  <2>3. /\ d \in Client /\ d.own = c.own /\ d.owns = c.owns /\ d.phase = "sending"
        /\ d.req = c.req
    BY <1>1, <1>7 DEF Client
  <2> HIDE DEF d, g
  <2>4. Moved(h, g, s, d)
    BY <1>1, <2>2, <2>3, ExceptMoves
  <2>5. Fits(h, s, d)
    BY <1>1, <1>7, <2>3 DEF TableOK, Client, Fits
  <2>6. TableOK(g)
    BY <2>4, <2>5, ClientMoved
  <2>7. Settles(h, g, s)
    BY <2>3, <2>4, <2>6 DEF Settles, Moved
  <2> QED BY <2>7 DEF g
<1> QED BY <1>2, <1>4, <1>5, <1>6, <1>7

\* A reply that needs no buffer gives a reservation of it back.
LEMMA InlineQueued ==
    ASSUME NEW h, TableOK(h), NEW s \in ClientSlots, NEW f \in SendResults
    PROVE  Settles(h, queue_inline_json(h, s, TRUE, f), s)
<1> DEFINE g == release_positions_body(h, s)
           c == Sending(g.client[s], 0, TRUE)
           k == [g EXCEPT !.client[s] = c]
<1>1. queue_inline_json(h, s, TRUE, f) = flush_client(k, s, f)
  BY DEF queue_inline_json
<1>2. /\ TableOK(g) /\ g.outstanding = h.outstanding /\ g.owner # s
      /\ \A t \in ClientSlots \ {s} : g.client[t] = h.client[t]
      /\ g.client[s] \in Client /\ ~g.client[s].owns
  BY BodyReleased
<1> HIDE DEF g
<1>3. /\ c \in Client /\ c.own = TRUE /\ c.owns = g.client[s].owns /\ c.body = 0
      /\ c.phase = "sending"
  <2>1. NoAsk \in Asks
    BY DEF NoAsk, Asks, Commands
  <2> QED BY <1>2, <2>1 DEF Sending, Client, Phases
<1>4. Moved(g, k, s, c)
  <2>1. g \in Table
    BY <1>2 DEF TableOK
  <2> QED BY <1>3, <2>1, ExceptMoves
<1> HIDE DEF c, k
<1>5. Fits(g, s, c)
  BY <1>3 DEF Fits
<1>6. TableOK(k)
  BY <1>2, <1>4, <1>5, ClientMoved
<1>7. k.client[s].phase = "sending"
  BY <1>3, <1>4 DEF Moved
<1>8. Settles(k, flush_client(k, s, f), s)
  BY <1>6, <1>7, ClientFlushed
<1> QED BY <1>1, <1>2, <1>4, <1>8 DEF Settles, Moved

-----------------------------------------------------------------------------
(***************************************************************************)
(* Responses and deadlines.                                                *)
(***************************************************************************)

\* The table g keeps the clients of h that still wait in it and releases the
\* ids R.
Calms(h, g, R) ==
    /\ TableOK(g)
    /\ g.outstanding = h.outstanding \ R
    /\ \A s \in ClientSlots : g.client[s].phase = "waiting" => g.client[s] = h.client[s]

LEMMA SettlesCalms ==
    ASSUME NEW h, NEW g, NEW s \in ClientSlots, Settles(h, g, s)
    PROVE  Calms(h, g, {})
BY DEF Settles, Calms

LEMMA CalmsItself ==
    ASSUME NEW h, TableOK(h)
    PROVE  Calms(h, h, {})
BY DEF Calms

LEMMA CalmsTwice ==
    ASSUME NEW h, NEW g, NEW k, NEW R, NEW Q, Calms(h, g, R), Calms(g, k, Q)
    PROVE  Calms(h, k, R \cup Q)
BY DEF Calms

\* The snapshot is sent from the buffer by the client that has it reserved.
LEMMA PositionsQueued ==
    ASSUME NEW h, TableOK(h), NEW s \in ClientSlots, NEW f \in SendResults
    PROVE  Calms(h, queue_positions_json(h, s, TRUE, f), {})
<1>1. CASE ~h.client[s].owns
  <2>1. queue_positions_json(h, s, TRUE, f) = h
    BY <1>1 DEF queue_positions_json
  <2> QED BY <2>1, CalmsItself
<1>2. CASE h.client[s].owns
  <2> DEFINE c == Sending(h.client[s], BodyParts, TRUE)
             k == [h EXCEPT !.client[s] = c, !.filled = h.client[s].req]
  <2>1. queue_positions_json(h, s, TRUE, f) = flush_client(k, s, f)
    BY <1>2 DEF queue_positions_json
  <2>2. h \in Table /\ h.client \in [ClientSlots -> Client] /\ h.client[s] \in Client /\ h.owner = s
    BY <1>2 DEF TableOK, Table
  <2>3. /\ c \in Client /\ c.own = TRUE /\ c.owns = h.client[s].owns /\ c.body = BodyParts
        /\ c.phase = "sending" /\ c.req = IF BodyParts = 0 THEN 0 ELSE h.client[s].req
    <3>1. NoAsk \in Asks /\ BodyParts \in Nat
      BY HttpAssumption DEF NoAsk, Asks, Commands
    <3> QED BY <2>2, <3>1 DEF Sending, Client, Phases
  <2>4. /\ k \in Table /\ k.client[s] = c /\ k.filled = h.client[s].req
        /\ k.owner = h.owner /\ k.outstanding = h.outstanding
        /\ \A t \in ClientSlots \ {s} : k.client[t] = h.client[t]
    <3> HIDE DEF c
    <3>1. h.client[s].req \in Nat
      BY <2>2 DEF Client
    <3> QED BY <2>2, <2>3, <3>1 DEF Table
  <2> HIDE DEF c, k
  <2>5. TableOK(k)
    <3>1. \A t \in ClientSlots \ {s} : /\ k.client[t].own /\ ~k.client[t].owns
                                       /\ ~(k.client[t].body > 0)
      BY <2>2, <2>4 DEF TableOK
    <3>2. k.client[s].own /\ k.client[s].owns /\ k.client[s].phase = "sending"
      BY <1>2, <2>3, <2>4
    <3>3. k.client[s].body > 0 => k.filled = k.client[s].req
      BY <2>2, <2>3, <2>4, HttpAssumption
    <3> QED BY <2>2, <2>4, <3>1, <3>2, <3>3 DEF TableOK
  <2>6. k.client[s].phase = "sending"
    BY <2>3, <2>4
  <2>7. Settles(k, flush_client(k, s, f), s)
    BY <2>5, <2>6, ClientFlushed
  <2>8. Settles(h, flush_client(k, s, f), s)
    BY <2>4, <2>7 DEF Settles
  <2> QED BY <2>1, <2>8, SettlesCalms
<1> QED BY <1>1, <1>2

\* An answer goes to the client that asked for it, if it still waits.
LEMMA ResponseDelivered ==
    ASSUME NEW h, TableOK(h), NEW r \in Entry, Agrees(h, r), NEW f \in SendResults
    PROVE  Calms(h, Delivered(h, r, f), {r.req})
<1> DEFINE g == [h EXCEPT !.outstanding = @ \ {r.req}]
           W == {s \in ClientSlots : h.client[s].phase = "waiting" /\ h.client[s].req = r.req}
<1>1. h \in Table
  BY DEF TableOK
<1>2. /\ g \in Table /\ g.client = h.client /\ g.owner = h.owner /\ g.filled = h.filled
      /\ g.outstanding = h.outstanding \ {r.req}
  BY <1>1 DEF Table
<1>3. Delivered(h, r, f) = IF r.req \notin h.outstanding \/ W = {} THEN g
                           ELSE send_response(g, Min(W), r, f)
  BY DEF Delivered
<1> HIDE DEF g
<1>4. TableOK(g)
  BY <1>2 DEF TableOK
<1>5. Calms(h, g, {r.req})
  BY <1>2, <1>4 DEF Calms
<1>6. CASE r.req \notin h.outstanding \/ W = {}
  BY <1>3, <1>5, <1>6
<1>7. CASE ~(r.req \notin h.outstanding \/ W = {})
  <2> DEFINE s == Min(W)
             k == send_response(g, s, r, f)
  <2>1. s \in W
    <3>1. W \subseteq Nat /\ W # {}
      BY <1>7, HttpAssumption DEF ClientSlots
    <3> HIDE DEF W
    <3> QED BY <3>1, MinIn
  <2>2. s \in ClientSlots /\ r.ask = g.client[s].ask
    <3> HIDE DEF s
    <3> QED BY <1>2, <2>1 DEF Agrees
  <2> HIDE DEF s
  <2>3. k = IF g.client[s].ask.cmd = "positions" THEN queue_positions_json(g, s, TRUE, f)
            ELSE queue_inline_json(g, s, TRUE, f)
    <3>1. (r.ask = g.client[s].ask) = TRUE
      BY <2>2
    <3> QED BY <3>1, Zenon DEF send_response
  <2>4. Calms(g, queue_positions_json(g, s, TRUE, f), {})
    BY <1>4, <2>2, PositionsQueued
  <2>5. Calms(g, queue_inline_json(g, s, TRUE, f), {})
    BY <1>4, <2>2, InlineQueued, SettlesCalms
  <2>6. Calms(g, k, {})
    BY <2>3, <2>4, <2>5
  <2> HIDE DEF k
  <2>7. Calms(h, k, {r.req})
    BY <1>5, <2>6 DEF Calms
  <2> QED BY <1>3, <1>7, <2>7 DEF k, s
<1> QED BY <1>6, <1>7

LEMMA LateExpired ==
    ASSUME NEW h, TableOK(h), NEW late \in ClientSlots \cup {NoClient}, NEW f \in SendResults
    PROVE  Calms(h, expire_clients(h, late, f), {})
<1>1. CASE expire_clients(h, late, f) = h
  BY <1>1, CalmsItself
<1>2. CASE expire_clients(h, late, f) # h
  <2>1. late \in ClientSlots /\ expire_clients(h, late, f) = Expired(h, late, f)
    BY <1>2 DEF expire_clients
  <2>2. \/ Expired(h, late, f) = h
        \/ Expired(h, late, f) = close_client(h, late)
        \/ Expired(h, late, f) = queue_inline_json(h, late, TRUE, f)
    BY DEF Expired
  <2>3. Calms(h, close_client(h, late), {}) /\ Calms(h, queue_inline_json(h, late, TRUE, f), {})
    BY <2>1, ClientClosed, InlineQueued, SettlesCalms
  <2> QED BY <2>1, <2>2, <2>3, CalmsItself
<1> QED BY <1>1, <1>2

\* The tables that drain_responses goes through: g[k] is left by the first k
\* responses of the queue q.
Drains(h, q, f, g, n) ==
    /\ g = [k \in 0 .. n |-> g[k]] /\ g[0] = h
    /\ \A k \in 1 .. n : g[k] = Delivered(g[k - 1], q[k], f)

LEMMA DrainExists ==
    ASSUME NEW h, NEW q, NEW f
    PROVE  \A n \in Nat : \E g : Drains(h, q, f, g, n)
<1> DEFINE S == {n \in Nat : \E g : Drains(h, q, f, g, n)}
<1>1. 0 \in S
  <2>1. Drains(h, q, f, [k \in 0 .. 0 |-> h], 0)
    BY DEF Drains
  <2> QED BY <2>1
<1>2. \A n \in Nat : n \in S => n + 1 \in S
  <2> SUFFICES ASSUME NEW n \in Nat, n \in S
               PROVE  \E g : Drains(h, q, f, g, n + 1)
    OBVIOUS
  <2>1. PICK g : Drains(h, q, f, g, n)
    OBVIOUS
  <2> DEFINE d == Delivered(g[n], q[n + 1], f)
             k == [m \in 0 .. n + 1 |-> IF m = n + 1 THEN d ELSE g[m]]
  <2> HIDE DEF d
  <2>2. k = [m \in 0 .. n + 1 |-> k[m]] /\ k[0] = h
    BY <2>1 DEF Drains
  <2>3. ASSUME NEW m \in 1 .. n + 1 PROVE k[m] = Delivered(k[m - 1], q[m], f)
    <3>1. CASE m = n + 1
      <4>1. k[m] = d /\ k[m - 1] = g[n]
        BY <3>1
      <4> QED BY <3>1, <4>1 DEF d
    <3>2. CASE m # n + 1
      <4>1. m \in 1 .. n /\ k[m] = g[m] /\ k[m - 1] = g[m - 1]
        BY <3>2
      <4> QED BY <2>1, <4>1 DEF Drains
    <3> QED BY <3>1, <3>2
  <2> HIDE DEF k
  <2>4. Drains(h, q, f, k, n + 1)
    BY <2>2, <2>3 DEF Drains
  <2> QED BY <2>4
<1>3. \A n \in Nat : n \in S
  <2> HIDE DEF S
  <2> QED BY <1>1, <1>2, NatSetInduction
<1> QED BY <1>3

\* drain_responses is the last of them.
LEMMA DrainDefined ==
    ASSUME NEW h, NEW f, Len(bridge.responses) \in Nat
    PROVE  \E g : /\ Drains(h, bridge.responses, f, g, Len(bridge.responses))
                  /\ drain_responses(h, f) = g[Len(bridge.responses)]
<1> DEFINE q == bridge.responses
           N == Len(q)
           body(g) == [n \in 0 .. N |-> IF n = 0 THEN h ELSE Delivered(g[n - 1], q[n], f)]
           drained[n \in 0 .. N] == IF n = 0 THEN h ELSE Delivered(drained[n - 1], q[n], f)
<1>1. PICK g : Drains(h, q, f, g, N)
  BY DrainExists
<1>2. g = body(g)
  <2>1. \A n \in 0 .. N : g[n] = body(g)[n]
    BY <1>1 DEF Drains
  <2> QED BY <1>1, <2>1 DEF Drains
<1>3. drained = CHOOSE k : k = body(k)
  OBVIOUS
<1>4. drain_responses(h, f) = drained[N]
  BY Zenon DEF drain_responses
<1>5. drained = body(drained)
  <2> HIDE DEF body, drained
  <2> QED BY <1>2, <1>3
<1> HIDE DEF drained
<1>6. /\ drained = [n \in 0 .. N |-> drained[n]] /\ drained[0] = h
      /\ \A n \in 1 .. N : drained[n] = Delivered(drained[n - 1], q[n], f)
  <2> DEFINE D(n) == Delivered(drained[n - 1], q[n], f)
  <2>1. \A n \in 1 .. N : D(n) = Delivered(drained[n - 1], q[n], f)
    OBVIOUS
  <2>2. drained = [n \in 0 .. N |-> IF n = 0 THEN h ELSE D(n)]
    BY <1>5
  <2> HIDE DEF D
  <2>3. drained = [n \in 0 .. N |-> drained[n]] /\ drained[0] = h
        /\ \A n \in 1 .. N : drained[n] = D(n)
    BY <2>2
  <2> QED BY <2>1, <2>3
<1>7. Drains(h, q, f, drained, N)
  BY <1>6 DEF Drains
<1> QED BY <1>4, <1>7

Answered(q) == {e.req : e \in Elements(q)}

\* The whole queue releases its ids and answers only clients that asked.
LEMMA ResponsesDrained ==
    ASSUME NEW h, TableOK(h), NEW f \in SendResults, bridge.responses \in Seq(Entry),
           \A e \in Elements(bridge.responses) : Agrees(h, e)
    PROVE  Calms(h, drain_responses(h, f), Answered(bridge.responses))
<1> DEFINE q == bridge.responses
           N == Len(q)
           R(n) == {q[k].req : k \in 1 .. n}
<1>1. N \in Nat /\ DOMAIN q = 1 .. N /\ \A k \in 1 .. N : q[k] \in Entry /\ Agrees(h, q[k])
  BY DEF Elements
<1>2. PICK g : Drains(h, q, f, g, N) /\ drain_responses(h, f) = g[N]
  BY <1>1, DrainDefined
<1> DEFINE C(n) == Calms(h, g[n], R(n))
           S == {n \in Nat : n <= N => C(n)}
<1>3. 0 \in S
  <2>1. g[0] = h /\ R(0) = {}
    BY <1>2 DEF Drains
  <2>2. C(0)
    BY <2>1, CalmsItself
  <2> HIDE DEF C
  <2> QED BY <2>2
<1>4. \A n \in Nat : n \in S => n + 1 \in S
  <2> SUFFICES ASSUME NEW n \in Nat, n \in S, n + 1 <= N
               PROVE  C(n + 1)
    <3> HIDE DEF C
    <3> QED OBVIOUS
  <2> DEFINE r == q[n + 1]
  <2>1. C(n)
    <3> HIDE DEF C
    <3> QED BY <1>1
  <2>2. g[n + 1] = Delivered(g[n], r, f)
    <3>1. \A k \in 1 .. N : g[k] = Delivered(g[k - 1], q[k], f)
      BY <1>2 DEF Drains
    <3>2. n + 1 \in 1 .. N /\ (n + 1) - 1 = n
      BY <1>1
    <3> HIDE DEF q, N
    <3> QED BY <3>1, <3>2
  <2>3. r \in Entry /\ Agrees(h, r)
    BY <1>1
  <2>4. Agrees(g[n], r) /\ TableOK(g[n])
    <3> HIDE DEF r
    <3> QED BY <2>1, <2>3 DEF Calms, Agrees
  <2>5. Calms(g[n], g[n + 1], {r.req})
    <3> HIDE DEF r
    <3> QED BY <2>2, <2>3, <2>4, ResponseDelivered
  <2>6. R(n + 1) = R(n) \cup {r.req}
    OBVIOUS
  <2> HIDE DEF R, r
  <2>7. Calms(h, g[n + 1], R(n) \cup {r.req})
    BY <2>1, <2>5, CalmsTwice
  <2> QED BY <2>6, <2>7
<1>5. \A n \in Nat : n \in S
  <2> HIDE DEF S
  <2> QED BY <1>3, <1>4, NatSetInduction
<1>6. R(N) = Answered(q)
  BY <1>1 DEF Answered, Elements
<1>7. C(N)
  <2> HIDE DEF C
  <2> QED BY <1>1, <1>5
<1> HIDE DEF R
<1> QED BY <1>2, <1>6, <1>7

LEMMA TableCleared ==
    ASSUME TableOK(http)
    PROVE  /\ TableOK(AllClosed) /\ AllClosed.outstanding = http.outstanding
           /\ \A s \in ClientSlots : AllClosed.client[s] = FreeClient
<1>1. http \in Table /\ (http.owner # NoOwner => http.client[http.owner].owns)
  BY DEF TableOK
<1>2. /\ AllClosed.client = [s \in ClientSlots |-> FreeClient] /\ AllClosed.owner = NoOwner
      /\ AllClosed.outstanding = http.outstanding /\ AllClosed.filled \in Nat
      /\ AllClosed \in Table
  BY <1>1, FreeClientType DEF AllClosed, Table
<1>3. \A s \in ClientSlots : AllClosed.client[s] = FreeClient
  BY <1>2
<1>4. TableOK(AllClosed)
  BY <1>2, <1>3, FreeClientType DEF TableOK
<1> QED BY <1>2, <1>3, <1>4

-----------------------------------------------------------------------------
(***************************************************************************)
(* The bridge.                                                             *)
(***************************************************************************)
LEMMA AppendElements ==
    ASSUME NEW T, NEW q \in Seq(T), NEW e \in T
    PROVE  Append(q, e) \in Seq(T) /\ Elements(Append(q, e)) = Elements(q) \cup {e}
<1>1. /\ Append(q, e) \in Seq(T) /\ DOMAIN q = 1 .. Len(q) /\ Len(q) \in Nat
      /\ DOMAIN Append(q, e) = 1 .. Len(q) + 1
      /\ Append(q, e)[Len(q) + 1] = e /\ \A i \in 1 .. Len(q) : Append(q, e)[i] = q[i]
  OBVIOUS
<1>2. \A x : x \in Elements(Append(q, e)) => x \in Elements(q) \cup {e}
  BY <1>1 DEF Elements
<1>3. \A x : x \in Elements(q) => x \in Elements(Append(q, e))
  BY <1>1 DEF Elements
<1>4. e \in Elements(Append(q, e))
  BY <1>1 DEF Elements
<1> QED BY <1>1, <1>2, <1>3, <1>4

LEMMA TailElements ==
    ASSUME NEW T, NEW q \in Seq(T), q # <<>>
    PROVE  /\ Head(q) \in T /\ Tail(q) \in Seq(T)
           /\ Elements(q) = {Head(q)} \cup Elements(Tail(q))
<1>1. /\ Head(q) = q[1] /\ q[1] \in T /\ Tail(q) \in Seq(T)
      /\ Len(q) \in Nat \ {0} /\ DOMAIN q = 1 .. Len(q)
      /\ DOMAIN Tail(q) = 1 .. Len(q) - 1
      /\ \A i \in 1 .. Len(q) - 1 : Tail(q)[i] = q[i + 1]
  OBVIOUS
<1>2. \A x : x \in Elements(Tail(q)) => x \in Elements(q)
  BY <1>1 DEF Elements
<1>3. \A x : x \in Elements(q) => x = q[1] \/ x \in Elements(Tail(q))
  <2> SUFFICES ASSUME NEW i \in 1 .. Len(q), i # 1 PROVE q[i] \in Elements(Tail(q))
    BY <1>1 DEF Elements
  <2>1. i - 1 \in DOMAIN Tail(q) /\ Tail(q)[i - 1] = q[i]
    BY <1>1
  <2> QED BY <2>1 DEF Elements
<1>4. q[1] \in Elements(q)
  BY <1>1 DEF Elements
<1> QED BY <1>1, <1>2, <1>3, <1>4

LEMMA NoElements == Elements(<<>>) = {}
BY DEF Elements

LEMMA NoResponseType == NoResponse \in Entry /\ NoResponse.req = 0 /\ NoResponse.ask.cmd = "none"
BY DEF NoResponse, Entry, NoAsk, Asks, Commands

LEMMA InFlightEntries == InFlight = {e.req : e \in Entries}
BY DEF InFlight, Entries, EntriesOf, Elements

\* The deferred response moves to the queue.
LEMMA BridgeFlushed ==
    ASSUME NEW b \in Bridge
    PROVE  /\ Flushed(b) \in Bridge /\ Flushed(b).requests = b.requests
           /\ Flushed(b).deferred = NoResponse
           /\ EntriesOf(Flushed(b)) = EntriesOf(b) \cup {NoResponse}
<1>1. CASE b.deferred = NoResponse
  BY <1>1 DEF Flushed, EntriesOf
<1>2. CASE b.deferred # NoResponse
  <2> DEFINE q == Append(b.responses, b.deferred)
  <2>1. b.responses \in Seq(Entry) /\ b.deferred \in Entry
    BY DEF Bridge
  <2>2. q \in Seq(Entry) /\ Elements(q) = Elements(b.responses) \cup {b.deferred}
    BY <2>1, AppendElements
  <2> HIDE DEF q
  <2>3. Flushed(b) = [b EXCEPT !.responses = q, !.deferred = NoResponse]
    BY <1>2, Zenon DEF Flushed, q
  <2>4. /\ Flushed(b) \in Bridge /\ Flushed(b).requests = b.requests
        /\ Flushed(b).responses = q /\ Flushed(b).deferred = NoResponse
    BY <2>2, <2>3, NoResponseType DEF Bridge
  <2> QED BY <2>2, <2>4 DEF EntriesOf
<1> QED BY <1>1, <1>2

LEMMA BridgePopped ==
    ASSUME bridge \in Bridge, bridge.requests # <<>>
    PROVE  /\ Popped \in Bridge /\ Popped.deferred = NoResponse
           /\ Head(bridge.requests) \in Entry /\ Head(bridge.requests) \in Entries
           /\ EntriesOf(Popped) \cup {Head(bridge.requests)} = Entries \cup {NoResponse}
           /\ Popped.requests = Tail(bridge.requests)
<1> DEFINE b == Flushed(bridge)
<1>1. /\ b \in Bridge /\ b.requests = bridge.requests /\ b.deferred = NoResponse
      /\ EntriesOf(b) = Entries \cup {NoResponse}
  BY BridgeFlushed DEF Entries
<1>2. Popped = [b EXCEPT !.requests = Tail(@)]
  BY DEF Popped
<1>3. bridge.requests \in Seq(Entry)
  BY DEF Bridge
<1>4. /\ Head(bridge.requests) \in Entry /\ Tail(bridge.requests) \in Seq(Entry)
      /\ Elements(bridge.requests) = {Head(bridge.requests)} \cup Elements(Tail(bridge.requests))
  BY <1>3, TailElements
<1> HIDE DEF b
<1>5. /\ Popped \in Bridge /\ Popped.requests = Tail(bridge.requests)
      /\ Popped.responses = b.responses /\ Popped.deferred = b.deferred
  BY <1>1, <1>2, <1>4 DEF Bridge
<1> QED BY <1>1, <1>4, <1>5 DEF EntriesOf, Entries

LEMMA BridgeResponded ==
    ASSUME NEW b \in Bridge, b.deferred = NoResponse, NEW r \in Entry
    PROVE  /\ Responded(b, r) \in Bridge /\ Responded(b, r).requests = b.requests
           /\ EntriesOf(Responded(b, r)) \cup {NoResponse} = EntriesOf(b) \cup {r}
<1>1. CASE Len(b.responses) < ResponseCap
  <2> DEFINE q == Append(b.responses, r)
  <2>1. q \in Seq(Entry) /\ Elements(q) = Elements(b.responses) \cup {r}
    <3>1. b.responses \in Seq(Entry)
      BY DEF Bridge
    <3> QED BY <3>1, AppendElements
  <2> HIDE DEF q
  <2>2. Responded(b, r) = [b EXCEPT !.responses = q]
    BY <1>1, Zenon DEF Responded, q
  <2>3. /\ Responded(b, r) \in Bridge /\ Responded(b, r).requests = b.requests
        /\ Responded(b, r).responses = q /\ Responded(b, r).deferred = NoResponse
    BY <2>1, <2>2 DEF Bridge
  <2> QED BY <2>1, <2>3 DEF EntriesOf
<1>2. CASE ~(Len(b.responses) < ResponseCap)
  <2>1. Responded(b, r) = [b EXCEPT !.deferred = r]
    BY <1>2, Zenon DEF Responded
  <2>2. /\ Responded(b, r) \in Bridge /\ Responded(b, r).requests = b.requests
        /\ Responded(b, r).responses = b.responses /\ Responded(b, r).deferred = r
    BY <2>1 DEF Bridge
  <2> QED BY <2>2 DEF EntriesOf
<1> QED BY <1>1, <1>2

-----------------------------------------------------------------------------
(***************************************************************************)
(* The steps of the control plane.                                         *)
(***************************************************************************)

\* What every step but the one that starts a wait does: no client begins to
\* wait, no id becomes outstanding, an entry that a client may still wait for
\* stays in the bridge and only entries nobody waits for join it.
LEMMA QuietStep ==
    ASSUME HttpInv, env' = env, TableOK(http)', bridge' \in Bridge,
           nextReq' \in Nat, nextOrder' \in Nat,
           \A q \in Nat : Issued(q) => Issued(q)',
           \A s \in ClientSlots :
              http'.client[s].phase = "waiting" => http'.client[s] = http.client[s],
           \A q \in http'.outstanding : q \in http.outstanding,
           \A e \in Entries' : e \in Entries \/ e.req = 0,
           \A e \in Entries : e.req \in http'.outstanding => e \in Entries',
           turn' # "on" => \A s \in ClientSlots : http'.client[s] = FreeClient
    PROVE  HttpInv'
<1>1. HttpTypeOK'
  BY DEF HttpInv, HttpTypeOK
<1>2. IdleIsEmpty'
  BY DEF IdleIsEmpty
<1>3. IdsMatch'
  <2>1. ASSUME NEW s \in ClientSlots, http'.client[s].phase = "waiting"
        PROVE  http'.client[s].req # 0 /\ Issued(http.client[s].req)'
    <3>1. /\ http'.client[s] = http.client[s] /\ http.client[s].req \in Nat
          /\ http.client[s].req # 0 /\ Issued(http.client[s].req)
      BY <2>1 DEF HttpInv, IdsMatch, HttpTypeOK, TableOK, Table, Client
    <3> QED BY <3>1 DEF Issued
  <2>2. ASSUME NEW e \in Entries'
        PROVE  /\ e.req # 0 => Issued(e.req)'
               /\ Agrees(http, e)'
               /\ e.ask.cmd = "submit" => e.req = 0
    <3>1. CASE e.req = 0
      BY <2>1, <3>1 DEF Agrees
    <3>2. CASE e.req # 0
      <4>1. e \in Entries
        BY <3>2
      <4>2. e.req \in Nat
        <5>1. e \in Entry
          BY <4>1 DEF HttpInv, HttpTypeOK, Bridge, Entries, EntriesOf, Elements
        <5> QED BY <5>1 DEF Entry
      <4>3. Issued(e.req) /\ Agrees(http, e) /\ e.ask.cmd # "submit"
        BY <3>2, <4>1 DEF HttpInv, IdsMatch
      <4> QED BY <4>2, <4>3 DEF Agrees
    <3> QED BY <3>1, <3>2
  <2> QED BY <2>1, <2>2 DEF IdsMatch
<1>4. CapacityInv'
  <2>1. \A q \in http.outstanding : q # 0 /\ \E e \in Entries : e.req = q
    BY InFlightEntries DEF HttpInv, CapacityInv, CapacityAccounted
  <2>2. \A q \in http'.outstanding : q # 0 /\ \E e \in Entries' : e.req = q
    BY <2>1
  <2>3. InFlight' = {e.req : e \in Entries'}
    BY DEF InFlight, Entries, EntriesOf, Elements
  <2> QED BY <2>2, <2>3 DEF CapacityInv, CapacityAccounted
<1> QED BY <1>1, <1>2, <1>3, <1>4 DEF HttpInv

LEMMA IdsGrow ==
    ASSUME nextReq \in Nat, nextReq' = nextReq \/ nextReq' = IdAfter(nextReq, LastRequestId)
    PROVE  nextReq' \in Nat /\ \A q \in Nat : Issued(q) => Issued(q)'
BY HttpAssumption DEF IdAfter, Issued

\* A socket event or a refused request leaves the bridge alone.
LEMMA TableStep ==
    ASSUME HttpInv, Serving, Calms(http, http', {}), UNCHANGED <<bridge, nextOrder>>,
           nextReq' = nextReq \/ nextReq' = IdAfter(nextReq, LastRequestId)
    PROVE  HttpInv'
<1>1. /\ env' = env /\ turn' = "on" /\ bridge' = bridge /\ bridge' \in Bridge
      /\ nextReq \in Nat /\ nextOrder' \in Nat
  BY DEF Serving, HttpInv, HttpTypeOK
<1>2. Entries' = Entries
  BY <1>1 DEF Entries, EntriesOf
<1>3. nextReq' \in Nat /\ \A q \in Nat : Issued(q) => Issued(q)'
  BY <1>1, IdsGrow
<1>4. /\ TableOK(http)'
      /\ \A s \in ClientSlots :
            http'.client[s].phase = "waiting" => http'.client[s] = http.client[s]
      /\ \A q \in http'.outstanding : q \in http.outstanding
  BY DEF Calms
<1> QED BY <1>1, <1>2, <1>3, <1>4, QuietStep

LEMMA RefuseCalms ==
    ASSUME HttpInv, NEW s \in ClientSlots, NEW f \in SendResults, Refuse(s, f)
    PROVE  Calms(http, http', {})
<1>1. Settles(http, queue_inline_json(http, s, TRUE, f), s)
  BY InlineQueued DEF HttpInv, HttpTypeOK
<1> QED BY <1>1, SettlesCalms DEF Refuse

LEMMA AcceptStep ==
    ASSUME HttpInv, accept_client PROVE HttpInv'
<1> DEFINE s == Min(FreeSlots)
           c == [http.client[s] EXCEPT !.phase = "reading"]
<1>1. s \in ClientSlots /\ http.client[s].phase = "free"
  <2>1. FreeSlots \subseteq Nat /\ FreeSlots # {}
    BY HttpAssumption DEF accept_client, FreeSlots, ClientSlots
  <2>2. s \in FreeSlots
    BY <2>1, MinIn
  <2> HIDE DEF s
  <2> QED BY <2>2 DEF FreeSlots
<1>2. http' = [http EXCEPT !.client[s].phase = "reading"]
  BY DEF accept_client
<1> HIDE DEF s
<1>3. TableOK(http) /\ http \in Table /\ http.client[s] \in Client
  BY <1>1 DEF HttpInv, HttpTypeOK, TableOK, Table
<1>4. http' = [http EXCEPT !.client[s] = c]
  BY <1>1, <1>2, <1>3 DEF Table
<1>5. c \in Client /\ c.own = http.client[s].own /\ c.owns = http.client[s].owns
      /\ c.body = http.client[s].body /\ c.phase = "reading"
  BY <1>3 DEF Client, Phases
<1>6. Fits(http, s, c)
  <2>1. http.client[s].own /\ ~http.client[s].owns /\ ~(http.client[s].body > 0)
    BY <1>1, <1>3 DEF TableOK
  <2> QED BY <1>3, <1>5, <2>1 DEF Fits, Client
<1>7. Moved(http, http', s, c)
  BY <1>1, <1>3, <1>4, <1>5, ExceptMoves
<1> HIDE DEF c
<1>8. TableOK(http')
  BY <1>1, <1>3, <1>6, <1>7, ClientMoved
<1>9. Calms(http, http', {})
  BY <1>5, <1>7, <1>8 DEF Calms, Moved
<1> QED BY <1>9, TableStep DEF accept_client

LEMMA SocketStep ==
    ASSUME HttpInv, NEW s \in ClientSlots,
           hang_up(s) \/ \E f \in SendResults : continue_reply(s, f)
    PROVE  HttpInv'
<1>1. TableOK(http)
  BY DEF HttpInv, HttpTypeOK
<1>2. CASE hang_up(s)
  <2>1. Calms(http, http', {})
    BY <1>1, <1>2, ClientClosed, SettlesCalms DEF hang_up
  <2> QED BY <1>2, <2>1, TableStep DEF hang_up
<1>3. ASSUME NEW f \in SendResults, continue_reply(s, f) PROVE HttpInv'
  <2>1. Calms(http, http', {})
    BY <1>1, <1>3, ClientFlushed, SettlesCalms DEF continue_reply
  <2> QED BY <1>3, <2>1, TableStep DEF continue_reply
<1> QED BY <1>2, <1>3

LEMMA RefusedStep ==
    ASSUME HttpInv, NEW s \in ClientSlots, NEW w, NEW f \in SendResults,
           \/ read_malformed(s, w, f) \/ dispatch_refused(s, w, f) \/ dispatch_busy(s, w, f)
           \/ \E taken \in BOOLEAN : dispatch_upgrade(s, w, taken, f)
    PROVE  HttpInv'
<1>1. TableOK(http)
  BY DEF HttpInv, HttpTypeOK
<1>2. CASE read_malformed(s, w, f)
  BY <1>2, RefuseCalms, TableStep DEF read_malformed, Readable
<1>3. CASE dispatch_refused(s, w, f)
  BY <1>3, RefuseCalms, TableStep DEF dispatch_refused, Complete, Readable
<1>4. CASE dispatch_busy(s, w, f)
  BY <1>4, RefuseCalms, TableStep DEF dispatch_busy, Complete, Readable
<1>5. ASSUME NEW taken \in BOOLEAN, dispatch_upgrade(s, w, taken, f) PROVE HttpInv'
  <2>1. http' = close_client(http, s) \/ Refuse(s, f)
    BY <1>5 DEF dispatch_upgrade
  <2>2. Calms(http, http', {})
    BY <1>1, <2>1, RefuseCalms, ClientClosed, SettlesCalms
  <2> QED BY <1>5, <2>2, TableStep DEF dispatch_upgrade, Complete, Readable
<1> QED BY <1>2, <1>3, <1>4, <1>5

LEMMA SubmitStep ==
    ASSUME HttpInv, NEW s \in ClientSlots, NEW w \in env.wire, NEW f \in SendResults,
           dispatch_submit(s, w, f)
    PROVE  HttpInv'
<1> DEFINE e == [req |-> 0, ask |-> [w.ask EXCEPT !.id = nextOrder]]
<1>1. /\ env' = env /\ turn' = "on" /\ nextReq' = nextReq /\ nextReq' \in Nat
      /\ nextOrder \in Nat /\ bridge \in Bridge /\ env \in Environments
  BY DEF dispatch_submit, Complete, Readable, Serving, HttpInv, HttpTypeOK
<1>2. nextOrder' \in Nat
  BY <1>1 DEF dispatch_submit, IdAfter
<1>3. e \in Entry
  <2>1. w.ask \in Asks
    BY <1>1, HttpAssumption
  <2> QED BY <1>1, <2>1 DEF Entry, Asks
<1>4. /\ bridge' \in Bridge
      /\ \A x \in Entries' : x \in Entries \/ x.req = 0
      /\ \A x \in Entries : x \in Entries'
  <2> HIDE DEF e
  <2>1. CASE bridge' = bridge
    BY <1>1, <2>1 DEF Entries, EntriesOf
  <2>2. CASE bridge' # bridge
    <3> DEFINE q == Append(bridge.requests, e)
    <3>1. bridge' = [bridge EXCEPT !.requests = Pushed(@, RequestCap, e)]
      BY <2>2 DEF dispatch_submit, e
    <3>2. Pushed(bridge.requests, RequestCap, e) = q
      BY <1>1, <2>2, <3>1 DEF Pushed, Bridge
    <3>3. q \in Seq(Entry) /\ Elements(q) = Elements(bridge.requests) \cup {e}
      <4>1. bridge.requests \in Seq(Entry)
        BY <1>1 DEF Bridge
      <4> QED BY <1>3, <4>1, AppendElements
    <3> HIDE DEF q
    <3>4. /\ bridge' \in Bridge /\ bridge'.requests = q
          /\ bridge'.responses = bridge.responses /\ bridge'.deferred = bridge.deferred
      BY <1>1, <3>1, <3>2, <3>3 DEF Bridge
    <3>5. e.req = 0
      BY DEF e
    <3> QED BY <3>3, <3>4, <3>5 DEF Entries, EntriesOf
  <2> QED BY <2>1, <2>2
<1>5. Calms(http, http', {})
  BY RefuseCalms DEF dispatch_submit
<1>6. \A q \in Nat : Issued(q) => Issued(q)'
  BY <1>1 DEF Issued
<1>7. /\ TableOK(http)'
      /\ \A t \in ClientSlots :
            http'.client[t].phase = "waiting" => http'.client[t] = http.client[t]
      /\ \A q \in http'.outstanding : q \in http.outstanding
  BY <1>5 DEF Calms
<1> QED BY <1>1, <1>2, <1>4, <1>6, <1>7, QuietStep

\* The table once client s waits for the answer to a request.
LEMMA WaitBegins ==
    ASSUME TableOK(http), NEW s \in ClientSlots, http.client[s].phase = "reading",
           NEW ask \in Asks, ask.cmd = "positions" => http.owner = NoOwner,
           nextReq \in Nat, NEW g, g = Awaiting(BodyReserved(http, s, ask), s, ask)
    PROVE  /\ TableOK(g) /\ g.outstanding = http.outstanding \cup {nextReq}
           /\ g.client[s].phase = "waiting" /\ g.client[s].req = nextReq
           /\ g.client[s].ask = ask
           /\ \A t \in ClientSlots \ {s} : g.client[t] = http.client[t]
<1> DEFINE k == BodyReserved(http, s, ask)
           c == [k.client[s] EXCEPT !.phase = "waiting", !.req = nextReq, !.ask = ask]
<1>1. http \in Table /\ http.client \in [ClientSlots -> Client] /\ http.client[s] \in Client
  BY DEF TableOK, Table
<1>2. http.client[s].own /\ ~http.client[s].owns /\ http.client[s].body = 0 /\ http.owner # s
  <2>1. http.client[s].own /\ ~http.client[s].owns /\ ~(http.client[s].body > 0)
    BY DEF TableOK
  <2>2. http.owner # s
    BY <2>1 DEF TableOK, ClientSlots, NoOwner
  <2> QED BY <1>1, <2>1, <2>2 DEF Client
<1>3. /\ k \in Table /\ k.client[s] \in Client /\ k.client[s].own = TRUE
      /\ k.client[s].body = 0 /\ k.client[s].owns = (k.owner = s)
      /\ \A t \in ClientSlots \ {s} : k.client[t] = http.client[t]
      /\ k.outstanding = http.outstanding
      /\ ask.cmd = "positions" => k.owner = s
      /\ ask.cmd # "positions" => k.owner = http.owner /\ k.filled = http.filled
  <2>1. CASE ask.cmd # "positions"
    <3>1. k = http
      BY <2>1 DEF BodyReserved
    <3> QED BY <1>1, <1>2, <2>1, <3>1 DEF Client
  <2>2. CASE ask.cmd = "positions"
    <3> DEFINE d == [http.client[s] EXCEPT !.owns = TRUE]
    <3>1. k = [http EXCEPT !.owner = s, !.filled = 0, !.client[s].owns = TRUE]
      BY <2>2 DEF BodyReserved
    <3>2. k = [http EXCEPT !.owner = s, !.filled = 0, !.client[s] = d]
      BY <1>1, <3>1 DEF Table
    <3>3. d \in Client /\ d.own = http.client[s].own /\ d.body = http.client[s].body /\ d.owns = TRUE
      BY <1>1 DEF Client
    <3> HIDE DEF d, k
    <3>4. /\ k \in Table /\ k.client[s] = d /\ k.owner = s /\ k.outstanding = http.outstanding
          /\ \A t \in ClientSlots \ {s} : k.client[t] = http.client[t]
      BY <1>1, <3>2, <3>3 DEF Table
    <3> QED BY <1>1, <1>2, <2>2, <3>3, <3>4 DEF Client
  <2> QED BY <2>1, <2>2
<1> HIDE DEF k
<1>4. /\ c \in Client /\ c.own = TRUE /\ c.body = 0 /\ c.owns = (k.owner = s)
      /\ c.phase = "waiting" /\ c.req = nextReq /\ c.ask = ask
  BY <1>3 DEF Client, Phases
<1>5. g = [k EXCEPT !.outstanding = @ \cup {nextReq}, !.client[s] = c]
  BY DEF Awaiting, k
<1> HIDE DEF c
<1>6. /\ g \in Table /\ g.client[s] = c /\ g.owner = k.owner /\ g.filled = k.filled
      /\ g.outstanding = http.outstanding \cup {nextReq}
      /\ \A t \in ClientSlots \ {s} : g.client[t] = http.client[t]
  <2>1. /\ g \in Table /\ g.client[s] = c /\ g.owner = k.owner /\ g.filled = k.filled
        /\ g.outstanding = k.outstanding \cup {nextReq}
        /\ \A t \in ClientSlots \ {s} : g.client[t] = k.client[t]
    <3>1. k.client \in [ClientSlots -> Client] /\ k.outstanding \in SUBSET Nat
      BY <1>3 DEF Table
    <3>2. /\ g.client = [k.client EXCEPT ![s] = c] /\ g.owner = k.owner /\ g.filled = k.filled
          /\ g.outstanding = k.outstanding \cup {nextReq}
      BY <1>3, <1>5 DEF Table
    <3>3. g \in Table
      <4>1. k.outstanding \cup {nextReq} \in SUBSET Nat
        BY <3>1
      <4>2. [k.client EXCEPT ![s] = c] \in [ClientSlots -> Client]
        BY <1>4, <3>1
      <4> QED BY <1>3, <1>5, <4>1, <4>2 DEF Table
    <3> QED BY <1>4, <3>1, <3>2, <3>3
  <2> QED BY <1>3, <2>1
<1>7. TableOK(g)
  <2>1. CASE ask.cmd = "positions"
    <3>1. \A t \in ClientSlots \ {s} : /\ g.client[t].own /\ ~g.client[t].owns
                                       /\ ~(g.client[t].body > 0)
      BY <1>6, <2>1 DEF TableOK, ClientSlots, NoOwner
    <3>2. /\ g.owner = s /\ g.client[s].own /\ g.client[s].owns
          /\ g.client[s].phase = "waiting" /\ ~(g.client[s].body > 0)
      <4>1. k.owner = s
        BY <1>3, <2>1
      <4>2. c.own /\ c.owns
        BY <1>4, <4>1, Zenon
      <4>3. ~(c.body > 0)
        BY <1>4
      <4> QED BY <1>4, <1>6, <4>1, <4>2, <4>3
    <3> QED BY <1>6, <3>1, <3>2 DEF TableOK
  <2>2. CASE ask.cmd # "positions"
    <3>1. g.owner = http.owner /\ g.filled = http.filled /\ c.owns = FALSE
      BY <1>2, <1>3, <1>4, <1>6, <2>2
    <3>2. g.owner # NoOwner => g.owner \in ClientSlots \ {s} /\ g.client[g.owner].owns
      BY <1>1, <1>2, <1>6, <3>1 DEF TableOK, Table
    <3> QED BY <1>4, <1>6, <3>1, <3>2 DEF TableOK
  <2> QED BY <2>1, <2>2
<1> QED BY <1>4, <1>6, <1>7

LEMMA WaitingStep ==
    ASSUME HttpInv, NEW s \in ClientSlots, NEW w \in env.wire, dispatch_waiting(s, w)
    PROVE  HttpInv'
<1> DEFINE e == [req |-> nextReq, ask |-> w.ask]
           q == Append(bridge.requests, e)
<1>1. /\ env' = env /\ turn' = "on" /\ bridge \in Bridge /\ TableOK(http)
      /\ nextOrder' = nextOrder /\ nextOrder \in Nat /\ nextReq \in Nat
      /\ http.client[s].phase = "reading" /\ env \in Environments
      /\ Reservable(w) /\ Waits(w.ask)
  BY DEF dispatch_waiting, Complete, Readable, Serving, HttpInv, HttpTypeOK
<1>2. w.ask \in Asks /\ w.ask.cmd # "submit"
  BY <1>1, HttpAssumption DEF Waits
<1>3. /\ TableOK(http') /\ http'.outstanding = http.outstanding \cup {nextReq}
      /\ http'.client[s].phase = "waiting" /\ http'.client[s].req = nextReq
      /\ http'.client[s].ask = w.ask
      /\ \A t \in ClientSlots \ {s} : http'.client[t] = http.client[t]
  <2>1. http' = Awaiting(BodyReserved(http, s, w.ask), s, w.ask)
    BY DEF dispatch_waiting
  <2>2. w.ask.cmd = "positions" => http.owner = NoOwner
    BY <1>1 DEF Reservable
  <2> QED BY <1>1, <1>2, <2>1, <2>2, WaitBegins
<1>4. nextReq # 0 /\ nextReq' = IdAfter(nextReq, LastRequestId)
  BY <1>1 DEF Reservable, dispatch_waiting
<1>5. nextReq' \in Nat /\ \A x \in Nat : Issued(x) => Issued(x)'
  BY <1>1, <1>4, IdsGrow
<1>7. \A x : x = nextReq => nextReq' = 0 \/ x < nextReq'
  BY <1>1, <1>4 DEF IdAfter
<1>8. /\ bridge' \in Bridge /\ Entries' = Entries \cup {e}
  <2>1. bridge' = [bridge EXCEPT !.requests = q]
    BY DEF dispatch_waiting
  <2>2. bridge.requests \in Seq(Entry) /\ e \in Entry
    BY <1>1, <1>2 DEF Bridge, Entry
  <2> HIDE DEF e
  <2>3. q \in Seq(Entry) /\ Elements(q) = Elements(bridge.requests) \cup {e}
    BY <2>2, AppendElements
  <2> HIDE DEF q
  <2>4. /\ bridge' \in Bridge /\ bridge'.requests = q
        /\ bridge'.responses = bridge.responses /\ bridge'.deferred = bridge.deferred
    BY <1>1, <2>1, <2>3 DEF Bridge
  <2> QED BY <2>3, <2>4 DEF Entries, EntriesOf
<1>9. e.req = nextReq /\ e.ask = w.ask
  OBVIOUS
<1> HIDE DEF e, q
<1>10. \A x \in Entries : x.req \in Nat /\ x.req < nextReq
  <2>1. \A x \in Entries : x \in Entry /\ (x.req # 0 => Issued(x.req))
    BY DEF HttpInv, HttpTypeOK, IdsMatch, Bridge, Entries, EntriesOf, Elements
  <2> QED BY <1>1, <1>4, <2>1 DEF Issued, Entry
<1>11. \A t \in ClientSlots : http.client[t].phase = "waiting" =>
          http.client[t].req \in Nat /\ http.client[t].req # 0 /\ http.client[t].req < nextReq
  <2>1. \A t \in ClientSlots : http.client[t].req \in Nat
    BY <1>1 DEF TableOK, Table, Client
  <2> QED BY <1>4, <2>1 DEF HttpInv, IdsMatch, Issued
<1>12. HttpTypeOK'
  BY <1>1, <1>3, <1>5, <1>8 DEF HttpTypeOK
<1>13. IdleIsEmpty'
  BY <1>1 DEF IdleIsEmpty
<1>14. IdsMatch'
  <2>1. \A t \in ClientSlots :
          http'.client[t].phase = "waiting" => http'.client[t].req # 0 /\ Issued(http.client[t].req)'
    <3> SUFFICES ASSUME NEW t \in ClientSlots, http'.client[t].phase = "waiting"
                 PROVE  http'.client[t].req # 0 /\ (nextReq' = 0 \/ http'.client[t].req < nextReq')
      BY DEF Issued
    <3>1. CASE t = s
      BY <1>3, <1>4, <1>7, <3>1
    <3>2. CASE t # s
      <4>1. http'.client[t] = http.client[t]
        BY <1>3, <3>2
      <4> QED BY <1>5, <1>11, <4>1 DEF Issued
    <3> QED BY <3>1, <3>2
  <2>2. ASSUME NEW x \in Entries'
        PROVE  /\ x.req # 0 => Issued(x.req)'
               /\ Agrees(http, x)'
               /\ x.ask.cmd = "submit" => x.req = 0
    <3>1. CASE x \in Entries
      <4>1. /\ x.req \in Nat /\ x.req < nextReq /\ Agrees(http, x)
            /\ x.ask.cmd = "submit" => x.req = 0
        BY <1>10, <3>1 DEF HttpInv, IdsMatch
      <4>2. Agrees(http, x)'
        BY <1>1, <1>3, <4>1 DEF Agrees
      <4>3. Issued(x.req)'
        BY <1>5, <4>1 DEF Issued
      <4> QED BY <4>1, <4>2, <4>3
    <3>2. CASE x = e
      <4>1. Agrees(http, x)'
        BY <1>1, <1>3, <1>9, <1>11, <3>2 DEF Agrees
      <4>2. Issued(x.req)'
        BY <1>7, <1>9, <3>2 DEF Issued
      <4> QED BY <1>2, <1>9, <3>2, <4>1, <4>2
    <3> QED BY <1>8, <3>1, <3>2
  <2> QED BY <2>1, <2>2 DEF IdsMatch
<1>15. CapacityInv'
  <2>1. \A x \in http.outstanding : x # 0 /\ \E y \in Entries : y.req = x
    BY InFlightEntries DEF HttpInv, CapacityInv, CapacityAccounted
  <2>2. \A x \in http'.outstanding : x # 0 /\ \E y \in Entries' : y.req = x
    BY <1>3, <1>4, <1>8, <1>9, <2>1
  <2>3. InFlight' = {y.req : y \in Entries'}
    BY DEF InFlight, Entries, EntriesOf, Elements
  <2> QED BY <2>2, <2>3 DEF CapacityInv, CapacityAccounted
<1> QED BY <1>12, <1>13, <1>14, <1>15 DEF HttpInv

LEMMA TurnStep ==
    ASSUME HttpInv, NEW late \in ClientSlots \cup {NoClient}, NEW f \in SendResults,
           end_of_turn(late, f)
    PROVE  HttpInv'
<1> DEFINE g == drain_responses(http, f)
           R == Answered(bridge.responses)
<1>1. /\ env' = env /\ turn' = "on" /\ bridge \in Bridge /\ TableOK(http)
      /\ nextOrder' = nextOrder /\ nextOrder' \in Nat /\ nextReq' = nextReq /\ nextReq' \in Nat
      /\ bridge' = [bridge EXCEPT !.responses = <<>>]
  BY DEF end_of_turn, Serving, HttpInv, HttpTypeOK
<1>2. Calms(http, g, R)
  <2>1. bridge.responses \in Seq(Entry)
    BY <1>1 DEF Bridge
  <2>2. \A e \in Elements(bridge.responses) : Agrees(http, e)
    BY DEF HttpInv, IdsMatch, Entries, EntriesOf
  <2> QED BY <1>1, <2>1, <2>2, ResponsesDrained
<1>3. Calms(g, http', {})
  <2>1. http' = expire_clients(g, late, f)
    BY DEF end_of_turn
  <2>2. TableOK(g)
    BY <1>2 DEF Calms
  <2> HIDE DEF g
  <2> QED BY <2>1, <2>2, LateExpired
<1> HIDE DEF g
<1>4. /\ TableOK(http)'
      /\ \A t \in ClientSlots :
            http'.client[t].phase = "waiting" => http'.client[t] = http.client[t]
      /\ http'.outstanding = http.outstanding \ R
  BY <1>2, <1>3 DEF Calms
<1>5. /\ bridge' \in Bridge /\ bridge'.requests = bridge.requests
      /\ bridge'.responses = <<>> /\ bridge'.deferred = bridge.deferred
  <2>1. <<>> \in Seq(Entry)
    OBVIOUS
  <2> QED BY <1>1, <2>1 DEF Bridge
<1>6. /\ \A e \in Entries' : e \in Entries
      /\ \A e \in Entries : e.req \in http'.outstanding => e \in Entries'
  BY <1>4, <1>5, NoElements DEF Entries, EntriesOf, Answered
<1>7. \A q \in Nat : Issued(q) => Issued(q)'
  BY <1>1 DEF Issued
<1>8. \A q \in http'.outstanding : q \in http.outstanding
  BY <1>4
<1> QED BY <1>1, <1>4, <1>5, <1>6, <1>7, <1>8, QuietStep

LEMMA ServeEndStep ==
    ASSUME HttpInv, end_of_serve \/ poll_fails PROVE HttpInv'
<1>1. /\ env' = env /\ bridge' = bridge /\ bridge' \in Bridge /\ TableOK(http)
      /\ nextOrder' \in Nat /\ nextReq' = nextReq /\ nextReq' \in Nat
      /\ http' = AllClosed
  BY DEF end_of_serve, poll_fails, HttpInv, HttpTypeOK
<1>2. /\ TableOK(http)' /\ http'.outstanding = http.outstanding
      /\ \A s \in ClientSlots : http'.client[s] = FreeClient
  BY <1>1, TableCleared
<1>3. \A s \in ClientSlots : http'.client[s].phase # "waiting"
  BY <1>2, FreeClientType
<1>4. Entries' = Entries
  BY <1>1 DEF Entries, EntriesOf
<1>5. \A q \in Nat : Issued(q) => Issued(q)'
  BY <1>1 DEF Issued
<1> QED BY <1>1, <1>2, <1>3, <1>4, <1>5, QuietStep

LEMMA StartStep ==
    ASSUME HttpInv, start PROVE HttpInv'
<1>1. /\ env' = env /\ bridge' = bridge /\ bridge' \in Bridge /\ TableOK(http)
      /\ nextOrder' \in Nat /\ nextReq' = nextReq /\ nextReq' \in Nat /\ turn' = "on"
      /\ http' = [http EXCEPT !.outstanding = {}, !.owner = NoOwner, !.filled = 0]
  BY DEF start, KeptIds, HttpInv, HttpTypeOK
<1>2. \A s \in ClientSlots : http.client[s] = FreeClient
  BY DEF start, HttpInv, IdleIsEmpty
<1>3. /\ http' \in Table /\ http'.client = http.client /\ http'.owner = NoOwner
      /\ http'.outstanding = {}
  BY <1>1 DEF TableOK, Table
<1>4. TableOK(http)'
  BY <1>2, <1>3, FreeClientType DEF TableOK
<1>5. Entries' = Entries
  BY <1>1 DEF Entries, EntriesOf
<1>6. \A q \in Nat : Issued(q) => Issued(q)'
  BY <1>1 DEF Issued
<1> QED BY <1>1, <1>3, <1>4, <1>5, <1>6, QuietStep

\* A step that leaves the table, the bridge and the ids alone.
LEMMA UntouchedStep ==
    ASSUME HttpInv, UNCHANGED <<env, http, bridge, nextOrder, nextReq>>,
           turn' = turn \/ turn # "on"
    PROVE  HttpInv'
<1>1. /\ env' = env /\ bridge' = bridge /\ bridge' \in Bridge /\ TableOK(http)' /\ http' = http
      /\ nextOrder' \in Nat /\ nextReq' = nextReq /\ nextReq' \in Nat
  BY DEF HttpInv, HttpTypeOK
<1>2. Entries' = Entries
  BY <1>1 DEF Entries, EntriesOf
<1>3. \A q \in Nat : Issued(q) => Issued(q)'
  BY <1>1 DEF Issued
<1>4. turn' # "on" => \A s \in ClientSlots : http'.client[s] = FreeClient
  BY <1>1 DEF HttpInv, IdleIsEmpty
<1> QED BY <1>1, <1>2, <1>3, <1>4, QuietStep

\* The execution thread moves entries through the bridge.
LEMMA BridgeStep ==
    ASSUME HttpInv, UNCHANGED <<env, http, turn, nextOrder, nextReq>>, bridge' \in Bridge,
           \A e \in Entries' : e \in Entries \/ e.req = 0,
           \A e \in Entries : e.req # 0 => e \in Entries'
    PROVE  HttpInv'
<1>1. /\ env' = env /\ TableOK(http)' /\ http' = http /\ turn' = turn
      /\ nextOrder' \in Nat /\ nextReq' = nextReq /\ nextReq' \in Nat
  BY DEF HttpInv, HttpTypeOK
<1>2. \A e \in Entries : e.req \in http'.outstanding => e \in Entries'
  BY <1>1 DEF HttpInv, CapacityInv
<1>3. \A q \in Nat : Issued(q) => Issued(q)'
  BY <1>1 DEF Issued
<1>4. turn' # "on" => \A s \in ClientSlots : http'.client[s] = FreeClient
  BY <1>1 DEF HttpInv, IdleIsEmpty
<1> QED BY <1>1, <1>2, <1>3, <1>4, QuietStep

LEMMA ProcessStep ==
    ASSUME HttpInv,
           \/ process_none \/ process_answer
           \/ \E s \in Symbols : \/ process_blocked(s) \/ process_submit(s)
                                 \/ \E sound \in BOOLEAN : process_refused(s, sound)
    PROVE  HttpInv'
<1>1. bridge \in Bridge /\ \A e \in Entries : e.ask.cmd = "submit" => e.req = 0
  BY DEF HttpInv, HttpTypeOK, IdsMatch
<1>2. CASE process_none
  <2>1. UNCHANGED <<env, http, turn, nextOrder, nextReq>>
    BY <1>2 DEF process_none
  <2>2. bridge' = Flushed(bridge) \/ bridge' = bridge
    BY <1>2 DEF process_none
  <2>3. bridge' \in Bridge /\ (EntriesOf(bridge') = EntriesOf(bridge) \cup {NoResponse}
                               \/ EntriesOf(bridge') = EntriesOf(bridge))
    BY <1>1, <2>2, BridgeFlushed
  <2>4. Entries' = EntriesOf(bridge')
    BY DEF Entries, EntriesOf
  <2> QED BY <2>1, <2>3, <2>4, NoResponseType, BridgeStep DEF Entries
<1> DEFINE r == Head(bridge.requests)
<1>3. CASE process_answer
  <2>1. UNCHANGED <<env, http, turn, nextOrder, nextReq>> /\ bridge.requests # <<>>
    BY <1>3 DEF process_answer, Taken
  <2>2. bridge' = Responded(Popped, r)
    BY <1>3 DEF process_answer
  <2>3. /\ Popped \in Bridge /\ Popped.deferred = NoResponse /\ r \in Entry /\ r \in Entries
        /\ EntriesOf(Popped) \cup {r} = Entries \cup {NoResponse}
    BY <1>1, <2>1, BridgePopped
  <2>4. bridge' \in Bridge /\ EntriesOf(bridge') \cup {NoResponse} = EntriesOf(Popped) \cup {r}
    BY <2>2, <2>3, BridgeResponded
  <2>5. Entries' = EntriesOf(bridge')
    BY DEF Entries, EntriesOf
  <2>6. /\ \A e \in Entries' : e \in Entries \/ e.req = 0
        /\ \A e \in Entries : e.req # 0 => e \in Entries'
    BY <2>3, <2>4, <2>5, NoResponseType
  <2> QED BY <2>1, <2>4, <2>6, BridgeStep
<1>4. ASSUME \/ \E s \in Symbols : process_blocked(s) \/ process_submit(s)
             \/ \E s \in Symbols, sound \in BOOLEAN : process_refused(s, sound)
      PROVE  HttpInv'
  <2>1. /\ UNCHANGED <<env, http, turn, nextOrder, nextReq>> /\ bridge.requests # <<>>
        /\ r.ask.cmd = "submit" /\ bridge' = Popped
    BY <1>4 DEF process_blocked, process_submit, process_refused, Submission, Taken
  <2>2. /\ Popped \in Bridge /\ r \in Entries
        /\ EntriesOf(Popped) \cup {r} = Entries \cup {NoResponse}
    BY <1>1, <2>1, BridgePopped
  <2>3. Entries' = EntriesOf(Popped)
    BY <2>1 DEF Entries, EntriesOf
  <2>4. r.req = 0
    BY <1>1, <2>1, <2>2
  <2>5. /\ \A e \in Entries' : e \in Entries \/ e.req = 0
        /\ \A e \in Entries : e.req # 0 => e \in Entries'
    BY <2>2, <2>3, <2>4, NoResponseType
  <2> QED BY <2>1, <2>2, <2>5, BridgeStep
<1> QED BY <1>2, <1>3, <1>4

LEMMA HttpStarts == Init => HttpInv
<1> SUFFICES ASSUME Init PROVE HttpInv
  OBVIOUS
<1>1. /\ env \in Environments /\ turn = "off" /\ nextReq = 1 /\ nextOrder \in Nat
      /\ http.client = [s \in ClientSlots |-> FreeClient] /\ http.owner = NoOwner
      /\ http.outstanding = {} /\ http \in Table
  BY HttpAssumption, FreeClientType DEF Init, HttpInit, Table
<1>2. \A s \in ClientSlots : http.client[s] = FreeClient
  BY <1>1
<1>3. TableOK(http)
  BY <1>1, <1>2, FreeClientType DEF TableOK
<1>4. bridge \in Bridge /\ Entries = {NoResponse}
  <2>1. <<>> \in Seq(Entry)
    OBVIOUS
  <2>2. bridge = [requests |-> <<>>, responses |-> <<>>, deferred |-> NoResponse]
    BY DEF Init, HttpInit, EmptyBridge
  <2> QED BY <2>1, <2>2, NoResponseType, NoElements DEF Bridge, Entries, EntriesOf
<1>5. HttpTypeOK /\ IdleIsEmpty
  BY <1>1, <1>2, <1>3, <1>4 DEF HttpTypeOK, IdleIsEmpty
<1>6. IdsMatch /\ CapacityInv
  BY <1>1, <1>2, <1>4, FreeClientType, NoResponseType
     DEF IdsMatch, CapacityInv, CapacityAccounted, Agrees
<1> QED BY <1>5, <1>6 DEF HttpInv

LEMMA HttpStep == HttpInv /\ [Next]_vars => HttpInv'
<1> SUFFICES ASSUME HttpInv, [Next]_vars PROVE HttpInv'
  OBVIOUS
<1>1. CASE Http
  <2>1. HttpNext
    BY <1>1 DEF Http
  <2>2. CASE accept_client
    BY <2>2, AcceptStep
  <2>3. CASE end_of_serve \/ poll_fails
    BY <2>3, ServeEndStep
  <2>4. ASSUME NEW s \in ClientSlots,
               hang_up(s) \/ \E f \in SendResults : continue_reply(s, f)
        PROVE  HttpInv'
    BY <2>4, SocketStep
  <2>5. ASSUME NEW s \in ClientSlots, NEW w \in env.wire, read_client(s, w)
        PROVE  HttpInv'
    <3>1. CASE dispatch_waiting(s, w)
      BY <3>1, WaitingStep
    <3>2. ASSUME NEW f \in SendResults, dispatch_submit(s, w, f) PROVE HttpInv'
      BY <3>2, SubmitStep
    <3>3. ASSUME NEW f \in SendResults,
                 \/ read_malformed(s, w, f) \/ dispatch_refused(s, w, f) \/ dispatch_busy(s, w, f)
                 \/ \E taken \in BOOLEAN : dispatch_upgrade(s, w, taken, f)
          PROVE  HttpInv'
      BY <3>3, RefusedStep
    <3> QED BY <2>5, <3>1, <3>2, <3>3 DEF read_client
  <2>6. ASSUME NEW late \in ClientSlots \cup {NoClient}, NEW f \in SendResults,
               end_of_turn(late, f)
        PROVE  HttpInv'
    BY <2>6, TurnStep
  <2> QED BY <2>1, <2>2, <2>3, <2>4, <2>5, <2>6 DEF HttpNext
<1>2. CASE ServerOwner
  <2>1. CASE start
    BY <2>1, StartStep
  <2>2. CASE stop \/ stop_joins
    BY <2>2, UntouchedStep DEF stop, stop_joins
  <2> QED BY <1>2, <2>1, <2>2 DEF ServerOwner
<1>3. CASE Execution
  <2>1. CASE fill_not_due \/ complete_due \/ tick_idle \/ leave_loop
             \/ \E s \in Symbols, sound \in BOOLEAN : tick_signal(s, sound)
    <3>1. UNCHANGED httpVars
      BY <2>1 DEF fill_not_due, complete_due, tick_idle, leave_loop, tick_signal
    <3> QED BY <3>1, UntouchedStep DEF httpVars
  <2> QED BY <1>3, <2>1, ProcessStep DEF Execution
<1>4. CASE egress \/ request_shutdown
  BY <1>4, UntouchedStep DEF egress, request_shutdown, httpVars
<1>5. CASE Main
  BY <1>5, UntouchedStep DEF Main, join_egress, join_http
<1>6. CASE UNCHANGED vars
  BY <1>6, UntouchedStep DEF vars, httpVars
<1> QED BY <1>1, <1>2, <1>3, <1>4, <1>5, <1>6 DEF Next

\* The invariant of the REST control plane: types, the use of the positions
\* buffer, what waiting clients asked for, and the ids under way.
THEOREM HttpAlwaysSound == Spec => []HttpInv
BY HttpStarts, HttpStep, PTL DEF Spec

\* While bytes of the one positions buffer are on their way to a client the
\* buffer is that client's and holds the snapshot for its request; it is never
\* reserved for a client that neither waits for it nor sends it.
THEOREM PositionsBodyStaysExclusive == Spec => []PositionsBodyExclusive
<1>1. HttpInv => PositionsBodyExclusive
  BY DEF HttpInv, HttpTypeOK, TableOK, Table, PositionsBodyExclusive, Sends
<1> QED BY <1>1, HttpAlwaysSound, PTL

\* No client is ever sent the answer to a request it did not make, however
\* often the listener is restarted over a bridge that keeps old responses.
THEOREM ClientsGetOwnAnswers == Spec => []AnswersOwnRequest
<1>1. HttpInv => AnswersOwnRequest
  BY DEF HttpInv, HttpTypeOK, TableOK, AnswersOwnRequest
<1> QED BY <1>1, HttpAlwaysSound, PTL

\* Every outstanding id has its response still to come: no hang-up, timeout,
\* full queue or restart uses response capacity up for good.
THEOREM CapacityNeverLost == Spec => []CapacityAccounted
<1>1. HttpInv => CapacityAccounted
  BY DEF HttpInv, CapacityInv
<1> QED BY <1>1, HttpAlwaysSound, PTL

-----------------------------------------------------------------------------
(***************************************************************************)
(* Orders and their reports.                                               *)
(***************************************************************************)
Order == [id : Nat, st : {"empty", "open", "done"}, by : {"none", "rest", "strategy"}]

Fill == [id : Nat, sym : Symbols]

OrderTables == [Symbols -> [OrderSlots -> Order]]

Gateways == [slots : OrderTables, tripped : BOOLEAN]

GatewayType ==
    /\ gw \in Gateways
    /\ fills \in Seq(Fill) /\ strategy \in Nat

\* The strategy's ids stay below the ones REST orders are given.
NoCollision == \A e \in Environments : e.signals < FirstOrderId

\* An order id that take_order_id has handed out.
DrawnBefore(next, id) == FirstOrderId <= id /\ (next = 0 \/ id < next)

Drawn(id) == DrawnBefore(nextOrder, id)

Live(s, i) == gw.slots[s][i].st # "empty"

OriginsKnown ==
    \A s \in Symbols, i \in OrderSlots :
        Live(s, i) => IF gw.slots[s][i].by = "rest" THEN Drawn(gw.slots[s][i].id)
                      ELSE gw.slots[s][i].id < FirstOrderId /\ gw.slots[s][i].id < strategy

\* No other slot holds the id of a REST order.
RestIdsUnique ==
    \A s, t \in Symbols, i, j \in OrderSlots :
        Live(s, i) /\ Live(t, j) /\ gw.slots[s][i].by = "rest"
          /\ gw.slots[s][i].id = gw.slots[t][j].id => s = t /\ i = j

IsSubmit(e) == e.ask.cmd = "submit"

\* An order that still waits in the bridge has an id of its own.
SubmitsFresh ==
    \A k \in DOMAIN bridge.requests : IsSubmit(bridge.requests[k]) =>
        /\ Drawn(bridge.requests[k].ask.id)
        /\ \A s \in Symbols, i \in OrderSlots :
              Live(s, i) => gw.slots[s][i].id # bridge.requests[k].ask.id
        /\ \A m \in DOMAIN bridge.requests :
              IsSubmit(bridge.requests[m]) /\ bridge.requests[m].ask.id = bridge.requests[k].ask.id
                => m = k

OrderInv ==
    /\ GatewayType /\ OriginsKnown /\ RestIdsUnique /\ SubmitsFresh /\ RestOrdersHaveReport
    /\ nextOrder = 0 \/ FirstOrderId <= nextOrder

LEMMA FirstIn ==
    ASSUME NEW P, P \subseteq Symbols \X OrderSlots, P # {}
    PROVE  First(P) \in P
<1> DEFINE A == {p[1] : p \in P}
<1>1. A \subseteq Nat /\ A # {}
  BY LoopAssumption
<1>2. PICK a \in A : \A b \in A : a <= b
  <2> HIDE DEF A
  <2> QED BY <1>1, LeastNumber
<1> DEFINE B == {p[2] : p \in {r \in P : r[1] = a}}
<1>3. B \subseteq Nat /\ B # {}
  BY LoopAssumption DEF OrderSlots
<1>4. PICK b \in B : \A c \in B : b <= c
  <2> HIDE DEF B
  <2> QED BY <1>3, LeastNumber
<1>5. PICK p \in P : p[1] = a /\ p[2] = b
  OBVIOUS
<1>6. \A q \in P : Before(p, q)
  <2> SUFFICES ASSUME NEW q \in P PROVE Before(p, q)
    OBVIOUS
  <2>1. q[1] \in A /\ q[1] \in Nat /\ a \in Nat /\ a <= q[1]
    BY <1>1, <1>2
  <2>2. q[1] = a => q[2] \in B /\ b <= q[2]
    BY <1>4
  <2> QED BY <1>5, <2>1, <2>2 DEF Before
<1> QED BY <1>5, <1>6 DEF First

\* Every order that the table v holds the table u holds, and open ones were
\* open in u.
Shrinks(u, v) ==
    \A s \in Symbols, i \in OrderSlots : v[s][i].st # "empty" =>
        /\ u[s][i].st # "empty"
        /\ v[s][i].id = u[s][i].id /\ v[s][i].by = u[s][i].by
        /\ v[s][i].st = "open" => u[s][i].st = "open"

LEMMA EmptySlotType == EmptySlot \in Order /\ EmptySlot.st = "empty"
BY DEF EmptySlot, Order

LEMMA OrderCancelled ==
    ASSUME NEW g \in Gateways, NEW id
    PROVE  cancel_order(g, id) \in Gateways /\ Shrinks(g.slots, cancel_order(g, id).slots)
<1> DEFINE P == OpenPlaces(g, id)
           p == First(P)
           k == cancel_order(g, id)
<1>1. CASE P = {}
  <2>1. k = g
    BY <1>1 DEF cancel_order
  <2> QED BY <2>1 DEF Shrinks
<1>2. CASE P # {}
  <2>1. P \subseteq Symbols \X OrderSlots /\ \A q \in P : g.slots[q[1]][q[2]].st = "open"
    BY DEF OpenPlaces, Places
  <2>2. p \in P
    <3> HIDE DEF P
    <3> QED BY <1>2, <2>1, FirstIn
  <2> HIDE DEF p
  <2>3. p[1] \in Symbols /\ p[2] \in OrderSlots /\ g.slots[p[1]][p[2]].st = "open"
    BY <2>1, <2>2
  <2> DEFINE a == p[1]
             b == p[2]
             o == g.slots[a][b]
             d == [o EXCEPT !.st = "done"]
  <2>4. k = [g EXCEPT !.slots[a][b].st = "done"]
    BY <1>2, Zenon DEF cancel_order, p
  <2>5. o \in Order /\ g.slots \in OrderTables
    BY <2>3 DEF Gateways, OrderTables
  <2>6. d \in Order /\ d.id = o.id /\ d.by = o.by /\ d.st = "done"
    BY <2>5 DEF Order
  <2> HIDE DEF a, b
  <2>7. k.slots = [g.slots EXCEPT ![a][b].st = "done"] /\ k.tripped = g.tripped
        /\ k = [slots |-> k.slots, tripped |-> k.tripped]
    BY <2>4 DEF Gateways
  <2>8. k.slots = [g.slots EXCEPT ![a] = [g.slots[a] EXCEPT ![b] = d]]
    BY <2>5, <2>7 DEF OrderTables
  <2> HIDE DEF d
  <2>9. a \in Symbols /\ b \in OrderSlots
    BY <2>3 DEF a, b
  <2>10. k.slots \in OrderTables
    BY <2>5, <2>6, <2>8, <2>9 DEF OrderTables
  <2>11. \A s \in Symbols, i \in OrderSlots :
            k.slots[s][i] = IF s = a /\ i = b THEN d ELSE g.slots[s][i]
    BY <2>5, <2>8, <2>9 DEF OrderTables
  <2> HIDE DEF k
  <2>12. Shrinks(g.slots, k.slots)
    <3>1. o = g.slots[a][b] /\ o.st = "open"
      BY <2>3 DEF a, b
    <3> HIDE DEF o
    <3> QED BY <2>6, <2>11, <3>1 DEF Shrinks
  <2>13. k \in Gateways
    BY <2>7, <2>10 DEF Gateways
  <2> QED BY <2>12, <2>13 DEF k
<1> QED BY <1>1, <1>2

\* The table v is u with an open order in a slot that held none.
Adds(u, v, s, i, o) ==
    /\ i \in OrderSlots /\ u[s][i].st # "open" /\ v[s][i] = o
    /\ \A t \in Symbols, j \in OrderSlots : t # s \/ j # i => v[t][j] = u[t][j]

LEMMA OrderBuilt ==
    ASSUME NEW g \in Gateways, NEW s \in Symbols, NEW id \in Nat, NEW by \in {"rest", "strategy"},
           NEW sound \in BOOLEAN, Passes(g, s, id, sound)
    PROVE  /\ try_build(g, s, id, by, sound) \in Gateways
           /\ \E i \in OrderSlots :
                 Adds(g.slots, try_build(g, s, id, by, sound).slots, s, i,
                         [id |-> id, st |-> "open", by |-> by])
<1> DEFINE i == Min(FreeOrderSlots(g, s))
           o == [id |-> id, st |-> "open", by |-> by]
           k == try_build(g, s, id, by, sound)
<1>1. i \in OrderSlots /\ g.slots[s][i].st # "open"
  <2>1. FreeOrderSlots(g, s) \subseteq Nat /\ FreeOrderSlots(g, s) # {}
    BY LoopAssumption DEF FreeOrderSlots, OrderSlots, Passes
  <2>2. i \in FreeOrderSlots(g, s)
    BY <2>1, MinIn
  <2> HIDE DEF i
  <2> QED BY <2>2 DEF FreeOrderSlots
<1>2. k = [g EXCEPT !.slots[s][i] = o]
  BY Zenon DEF try_build
<1> HIDE DEF i
<1>3. o \in Order
  BY DEF Order
<1> HIDE DEF o
<1>4. g.slots \in OrderTables
  BY DEF Gateways
<1>5. k.slots = [g.slots EXCEPT ![s] = [g.slots[s] EXCEPT ![i] = o]] /\ k.tripped = g.tripped
      /\ k = [slots |-> k.slots, tripped |-> k.tripped]
  BY <1>2, <1>4 DEF Gateways, OrderTables
<1> HIDE DEF k
<1>6. k.slots \in OrderTables
  BY <1>1, <1>3, <1>4, <1>5 DEF OrderTables
<1>7. Adds(g.slots, k.slots, s, i, o)
  BY <1>1, <1>4, <1>5 DEF Adds, OrderTables
<1>8. k \in Gateways
  BY <1>5, <1>6 DEF Gateways
<1> QED BY <1>1, <1>7, <1>8 DEF k, o

LEMMA OrderRefused ==
    ASSUME NEW g \in Gateways, NEW s \in Symbols, NEW id, NEW by, NEW sound \in BOOLEAN,
           ~Passes(g, s, id, sound)
    PROVE  /\ try_build(g, s, id, by, sound) \in Gateways
           /\ try_build(g, s, id, by, sound).slots = g.slots
<1> DEFINE x == g.tripped \/ (sound /\ FreeOrderSlots(g, s) # {} /\ OpenPlaces(g, id) # {})
<1>1. try_build(g, s, id, by, sound) = [g EXCEPT !.tripped = x]
  BY Zenon DEF try_build
<1>2. x \in BOOLEAN
  OBVIOUS
<1> HIDE DEF x
<1> QED BY <1>1, <1>2 DEF Gateways

\* An order that is built under a fresh id and then rejected leaves no trace
\* but the slot it was built in.
LEMMA OrderRejected ==
    ASSUME NEW g \in Gateways, NEW s \in Symbols, NEW id \in Nat, NEW by \in {"rest", "strategy"},
           NEW sound \in BOOLEAN, Passes(g, s, id, sound),
           \A t \in Symbols, j \in OrderSlots : g.slots[t][j].st # "empty" => g.slots[t][j].id # id,
           NEW k, k = apply_reject_report(try_build(g, s, id, by, sound), s, id)
    PROVE  k \in Gateways /\ Shrinks(g.slots, k.slots)
<1> DEFINE b == try_build(g, s, id, by, sound)
           o == [id |-> id, st |-> "open", by |-> by]
           J == {j \in OrderSlots : Holds(b, s, j, id)}
           m == Min(J)
<1>1. b \in Gateways
  BY OrderBuilt
<1>2. PICK i \in OrderSlots : Adds(g.slots, b.slots, s, i, o)
  BY OrderBuilt
<1>3. o.id = id /\ o.st = "open"
  OBVIOUS
<1>4. k = [b EXCEPT !.slots[s][m] = EmptySlot, !.tripped = TRUE]
  BY Zenon DEF apply_reject_report
<1> HIDE DEF b, o
<1>5. J = {i}
  BY <1>2, <1>3 DEF Adds, Holds
<1>6. m = i
  <2>1. J \subseteq Nat /\ J # {}
    BY <1>5, LoopAssumption DEF OrderSlots
  <2> HIDE DEF J
  <2>2. m \in J
    BY <2>1, MinIn
  <2> QED BY <1>5, <2>2
<1> HIDE DEF m, J
<1>7. b.slots \in OrderTables
  BY <1>1 DEF Gateways
<1>8. k.slots = [b.slots EXCEPT ![s] = [b.slots[s] EXCEPT ![i] = EmptySlot]] /\ k.tripped = TRUE
      /\ k = [slots |-> k.slots, tripped |-> k.tripped]
  BY <1>1, <1>4, <1>6, <1>7 DEF Gateways, OrderTables
<1>9. /\ k.slots \in OrderTables
      /\ \A t \in Symbols, j \in OrderSlots :
            k.slots[t][j] = IF t = s /\ j = i THEN EmptySlot ELSE b.slots[t][j]
  BY <1>7, <1>8, EmptySlotType DEF OrderTables
<1>10. k \in Gateways
  BY <1>8, <1>9 DEF Gateways
<1>11. Shrinks(g.slots, k.slots)
  BY <1>2, <1>9, EmptySlotType DEF Shrinks, Adds
<1> QED BY <1>10, <1>11

\* The requests left: the same, or all but the first.
Consumed(q, p) ==
    /\ Len(q) \in Nat /\ DOMAIN q = 1 .. Len(q)
    /\ \/ p = q
       \/ /\ Len(q) > 0 /\ DOMAIN p = 1 .. Len(q) - 1
          /\ \A k \in 1 .. Len(q) - 1 : p[k] = q[k + 1]

LEMMA ConsumedTail ==
    ASSUME NEW T, NEW q \in Seq(T)
    PROVE  Consumed(q, q) /\ (q # <<>> => Consumed(q, Tail(q)))
BY DEF Consumed

LEMMA ConsumedFresh ==
    ASSUME OrderInv, NEW p, Consumed(bridge.requests, p), NEW k \in DOMAIN p, IsSubmit(p[k])
    PROVE  /\ Drawn(p[k].ask.id)
           /\ \A s \in Symbols, i \in OrderSlots : Live(s, i) => gw.slots[s][i].id # p[k].ask.id
           /\ \A m \in DOMAIN p : IsSubmit(p[m]) /\ p[m].ask.id = p[k].ask.id => m = k
<1> DEFINE q == bridge.requests
<1>1. \A j \in DOMAIN q : IsSubmit(q[j]) =>
        /\ Drawn(q[j].ask.id)
        /\ \A s \in Symbols, i \in OrderSlots : Live(s, i) => gw.slots[s][i].id # q[j].ask.id
        /\ \A m \in DOMAIN q : IsSubmit(q[m]) /\ q[m].ask.id = q[j].ask.id => m = j
  BY DEF OrderInv, SubmitsFresh
<1>2. Consumed(q, p)
  OBVIOUS
<1> HIDE DEF q
<1>3. CASE p = q
  BY <1>1, <1>3
<1>4. CASE p # q
  <2>1. /\ k + 1 \in DOMAIN q /\ p[k] = q[k + 1] /\ k \in Int
        /\ \A m \in DOMAIN p : m + 1 \in DOMAIN q /\ p[m] = q[m + 1] /\ m \in Int
    BY <1>2, <1>4 DEF Consumed
  <2>2. \A m \in DOMAIN p : m + 1 = k + 1 => m = k
    BY <2>1
  <2> QED BY <1>1, <2>1, <2>2
<1> QED BY <1>3, <1>4

\* A step that builds no order.
LEMMA ShrinkStep ==
    ASSUME OrderInv, gw' \in Gateways, Shrinks(gw.slots, gw'.slots), fills' \in Seq(Fill),
           strategy' \in Nat, strategy <= strategy', nextOrder' = nextOrder,
           Consumed(bridge.requests, bridge'.requests), RestOrdersHaveReport'
    PROVE  OrderInv'
<1>1. GatewayType'
  BY DEF GatewayType
<1>2. OriginsKnown'
  <2> SUFFICES ASSUME NEW s \in Symbols, NEW i \in OrderSlots, gw'.slots[s][i].st # "empty"
               PROVE  IF gw'.slots[s][i].by = "rest" THEN Drawn(gw.slots[s][i].id)
                      ELSE /\ gw'.slots[s][i].id < FirstOrderId
                           /\ gw'.slots[s][i].id < strategy'
    BY DEF OriginsKnown, Live, Shrinks, Drawn, DrawnBefore
  <2>1. /\ gw.slots[s][i].st # "empty" /\ gw'.slots[s][i].id = gw.slots[s][i].id
        /\ gw'.slots[s][i].by = gw.slots[s][i].by
    BY DEF Shrinks
  <2>2. gw.slots[s][i].id \in Nat /\ strategy \in Nat
    BY DEF OrderInv, GatewayType, Gateways, OrderTables, Order
  <2> QED BY <2>1, <2>2 DEF OrderInv, OriginsKnown, Live
<1>3. RestIdsUnique'
  BY DEF OrderInv, RestIdsUnique, Live, Shrinks
<1>4. SubmitsFresh'
  <2> DEFINE p == bridge'.requests
  <2>1. ASSUME NEW k \in DOMAIN p, IsSubmit(p[k])
        PROVE  /\ DrawnBefore(nextOrder, p[k].ask.id)
               /\ \A s \in Symbols, i \in OrderSlots :
                     gw'.slots[s][i].st # "empty" => gw'.slots[s][i].id # p[k].ask.id
               /\ \A m \in DOMAIN p : IsSubmit(p[m]) /\ p[m].ask.id = p[k].ask.id => m = k
    <3>1. Consumed(bridge.requests, p)
      OBVIOUS
    <3> HIDE DEF p
    <3>2. /\ Drawn(p[k].ask.id)
          /\ \A s \in Symbols, i \in OrderSlots : Live(s, i) => gw.slots[s][i].id # p[k].ask.id
          /\ \A m \in DOMAIN p : IsSubmit(p[m]) /\ p[m].ask.id = p[k].ask.id => m = k
      BY <2>1, <3>1, ConsumedFresh
    <3> QED BY <3>2 DEF Shrinks, Live, Drawn
  <2> QED BY <2>1 DEF SubmitsFresh, Drawn, Live
<1> QED BY <1>1, <1>2, <1>3, <1>4 DEF OrderInv

\* Without a change of the order slots every report stays.
LEMMA ReportsKept ==
    ASSUME OrderInv, gw'.slots = gw.slots \/ Shrinks(gw.slots, gw'.slots), fills' = fills
    PROVE  RestOrdersHaveReport'
<1> SUFFICES ASSUME NEW s \in Symbols, NEW i \in OrderSlots, RestOpen(s, i)'
             PROVE  \E k \in DOMAIN fills : fills[k] = [id |-> gw'.slots[s][i].id, sym |-> s]
  BY DEF RestOrdersHaveReport
<1>1. RestOpen(s, i) /\ gw'.slots[s][i].id = gw.slots[s][i].id
  BY DEF RestOpen, Shrinks
<1> QED BY <1>1 DEF OrderInv, RestOrdersHaveReport

LEMMA SameSlots == \A u : Shrinks(u, u)
BY DEF Shrinks

\* A step of the I/O thread that queues no order, or one of another thread.
LEMMA OrdersKept ==
    ASSUME OrderInv, HttpInv, UNCHANGED <<gw, fills, strategy, nextOrder>>,
           bridge'.requests = bridge.requests
    PROVE  OrderInv'
<1>1. /\ gw' \in Gateways /\ fills' = fills /\ fills' \in Seq(Fill) /\ strategy' \in Nat
      /\ strategy <= strategy' /\ nextOrder' = nextOrder /\ gw'.slots = gw.slots
  BY DEF OrderInv, GatewayType
<1>2. Consumed(bridge.requests, bridge'.requests)
  <2>1. bridge.requests \in Seq(Entry)
    BY DEF HttpInv, HttpTypeOK, Bridge
  <2> QED BY <2>1, ConsumedTail
<1>3. Shrinks(gw.slots, gw'.slots)
  BY <1>1, SameSlots
<1>4. RestOrdersHaveReport'
  BY <1>1, ReportsKept
<1> QED BY <1>1, <1>2, <1>3, <1>4, ShrinkStep

\* A request joins the queue: one that is no order, or an order under the id
\* that was next.
LEMMA QueuedStep ==
    ASSUME OrderInv, HttpInv, UNCHANGED <<gw, fills, strategy>>, NEW e \in Entry,
           bridge'.requests = Append(bridge.requests, e), nextOrder \in Nat,
           \/ ~IsSubmit(e) /\ nextOrder' = nextOrder
           \/ nextOrder # 0 /\ e.ask.id = nextOrder /\ nextOrder' = IdAfter(nextOrder, LastOrderId)
    PROVE  OrderInv'
<1> DEFINE q == bridge.requests
           n == Len(q) + 1
<1>1. /\ Len(q) \in Nat /\ DOMAIN q = 1 .. Len(q) /\ DOMAIN bridge'.requests = 1 .. n
      /\ bridge'.requests[n] = e /\ \A k \in 1 .. Len(q) : bridge'.requests[k] = q[k]
  <2>1. q \in Seq(Entry)
    BY DEF HttpInv, HttpTypeOK, Bridge
  <2> QED BY <2>1
<1>2. \A x \in Nat : Drawn(x) => DrawnBefore(nextOrder', x)
  BY HttpAssumption DEF Drawn, DrawnBefore, IdAfter
<1>3. IsSubmit(e) => /\ nextOrder # 0 /\ e.ask.id = nextOrder
                     /\ FirstOrderId <= nextOrder /\ (nextOrder' = 0 \/ nextOrder < nextOrder')
  BY HttpAssumption DEF IdAfter, OrderInv
<1>4. /\ \A s \in Symbols, i \in OrderSlots : gw.slots[s][i].id \in Nat
      /\ \A k \in 1 .. Len(q) : q[k].ask.id \in Nat
  <2>1. q \in Seq(Entry)
    BY DEF HttpInv, HttpTypeOK, Bridge
  <2>2. \A k \in 1 .. Len(q) : q[k] \in Entry
    BY <2>1
  <2>3. \A k \in 1 .. Len(q) : q[k].ask.id \in Nat
    BY <2>2 DEF Entry, Asks
  <2>4. \A s \in Symbols, i \in OrderSlots : gw.slots[s][i].id \in Nat
    BY DEF OrderInv, GatewayType, Gateways, OrderTables, Order
  <2> QED BY <2>3, <2>4
<1>5. nextOrder # 0 => \A x \in Nat : Drawn(x) => x # nextOrder
  BY DEF Drawn, DrawnBefore
<1>6. OriginsKnown'
  <2> SUFFICES ASSUME NEW s \in Symbols, NEW i \in OrderSlots, Live(s, i)
               PROVE  IF gw.slots[s][i].by = "rest" THEN DrawnBefore(nextOrder', gw.slots[s][i].id)
                      ELSE gw.slots[s][i].id < FirstOrderId /\ gw.slots[s][i].id < strategy
    BY DEF OriginsKnown, Live, Drawn
  <2> QED BY <1>2, <1>4 DEF OrderInv, OriginsKnown
<1>7. GatewayType' /\ RestIdsUnique' /\ RestOrdersHaveReport'
  BY DEF OrderInv, GatewayType, RestIdsUnique, RestOrdersHaveReport, Live, RestOpen
<1>8. nextOrder' = 0 \/ FirstOrderId <= nextOrder'
  BY HttpAssumption DEF OrderInv, IdAfter
<1>9. SubmitsFresh'
  <2> DEFINE p == bridge'.requests
  <2>1. ASSUME NEW k \in 1 .. n, IsSubmit(p[k]), NEW m \in 1 .. n
        PROVE  /\ DrawnBefore(nextOrder', p[k].ask.id)
               /\ \A s \in Symbols, i \in OrderSlots :
                     Live(s, i) => gw.slots[s][i].id # p[k].ask.id
               /\ IsSubmit(p[m]) /\ p[m].ask.id = p[k].ask.id => m = k
    <3>1. \A x \in 1 .. Len(q) : IsSubmit(q[x]) =>
            /\ Drawn(q[x].ask.id)
            /\ \A s \in Symbols, i \in OrderSlots : Live(s, i) => gw.slots[s][i].id # q[x].ask.id
            /\ \A y \in 1 .. Len(q) : IsSubmit(q[y]) /\ q[y].ask.id = q[x].ask.id => y = x
      BY <1>1 DEF OrderInv, SubmitsFresh
    <3>2. (k \in 1 .. Len(q) \/ k = n) /\ (m \in 1 .. Len(q) \/ m = n)
      BY <1>1
    <3>3. CASE k = n
      <4>1. p[k] = e
        BY <1>1, <3>3
      <4>2. DrawnBefore(nextOrder', p[k].ask.id)
        BY <1>3, <2>1, <4>1 DEF DrawnBefore
      <4>3. \A s \in Symbols, i \in OrderSlots : Live(s, i) => gw.slots[s][i].id # p[k].ask.id
        <5> SUFFICES ASSUME NEW s \in Symbols, NEW i \in OrderSlots, Live(s, i)
                     PROVE  gw.slots[s][i].id # nextOrder
          BY <1>3, <2>1, <4>1
        <5>1. nextOrder # 0 /\ FirstOrderId <= nextOrder /\ nextOrder \in Nat /\ FirstOrderId \in Nat
          BY <1>3, <2>1, <4>1, HttpAssumption
        <5>2. gw.slots[s][i].id \in Nat /\ (Drawn(gw.slots[s][i].id) \/ gw.slots[s][i].id < FirstOrderId)
          BY <1>4 DEF OrderInv, OriginsKnown
        <5> QED BY <5>1, <5>2 DEF Drawn, DrawnBefore
      <4>4. IsSubmit(p[m]) /\ p[m].ask.id = p[k].ask.id => m = k
        <5>1. CASE m \in 1 .. Len(q)
          <6>1. p[m] = q[m] /\ q[m].ask.id \in Nat /\ (IsSubmit(q[m]) => Drawn(q[m].ask.id))
            BY <1>1, <1>4, <3>1, <5>1
          <6> QED BY <1>3, <1>5, <2>1, <4>1, <6>1
        <5> QED BY <3>2, <3>3, <5>1
      <4> QED BY <4>2, <4>3, <4>4
    <3>4. CASE k \in 1 .. Len(q)
      <4>1. p[k] = q[k] /\ q[k].ask.id \in Nat
        BY <1>1, <1>4, <3>4
      <4>2. /\ Drawn(q[k].ask.id)
            /\ \A s \in Symbols, i \in OrderSlots : Live(s, i) => gw.slots[s][i].id # q[k].ask.id
        BY <2>1, <3>1, <3>4, <4>1
      <4>3. IsSubmit(p[m]) /\ p[m].ask.id = p[k].ask.id => m = k
        <5>1. CASE m \in 1 .. Len(q)
          <6>1. p[m] = q[m]
            BY <1>1, <5>1
          <6> QED BY <2>1, <3>1, <3>4, <4>1, <5>1, <6>1
        <5>2. CASE m = n
          <6>1. p[m] = e
            BY <1>1, <5>2
          <6> QED BY <1>3, <1>5, <4>1, <4>2, <6>1
        <5> QED BY <3>2, <5>1, <5>2
      <4> QED BY <1>2, <4>1, <4>2, <4>3
    <3> QED BY <3>2, <3>3, <3>4
  <2> HIDE DEF p
  <2>2. \A k \in DOMAIN p : IsSubmit(p[k]) =>
          /\ DrawnBefore(nextOrder', p[k].ask.id)
          /\ \A s \in Symbols, i \in OrderSlots : Live(s, i) => gw.slots[s][i].id # p[k].ask.id
          /\ \A m \in DOMAIN p : IsSubmit(p[m]) /\ p[m].ask.id = p[k].ask.id => m = k
    <3>1. DOMAIN p = 1 .. n
      BY <1>1 DEF p
    <3> QED BY <2>1, <3>1
  <2> QED BY <2>2 DEF SubmitsFresh, Drawn, Live, p
<1> QED BY <1>6, <1>7, <1>8, <1>9 DEF OrderInv

\* A step that builds the order o.
LEMMA AddStep ==
    ASSUME OrderInv, gw' \in Gateways, NEW s \in Symbols, NEW i \in OrderSlots, NEW o \in Order,
           Adds(gw.slots, gw'.slots, s, i, o), o.st = "open",
           \A t \in Symbols, j \in OrderSlots : Live(t, j) => gw.slots[t][j].id # o.id,
           o.by = "rest" => /\ Drawn(o.id)
                            /\ \E k \in DOMAIN fills' : fills'[k] = [id |-> o.id, sym |-> s],
           o.by # "rest" => o.id < FirstOrderId /\ o.id < strategy',
           fills' \in Seq(Fill), \A k \in DOMAIN fills : \E m \in DOMAIN fills' : fills'[m] = fills[k],
           strategy' \in Nat, strategy <= strategy', nextOrder' = nextOrder,
           Consumed(bridge.requests, bridge'.requests),
           \A k \in DOMAIN bridge'.requests :
              IsSubmit(bridge'.requests[k]) => bridge'.requests[k].ask.id # o.id
    PROVE  OrderInv'
<1>1. /\ gw'.slots[s][i] = o
      /\ \A t \in Symbols, j \in OrderSlots : t # s \/ j # i => gw'.slots[t][j] = gw.slots[t][j]
  BY DEF Adds
<1>2. GatewayType'
  BY DEF GatewayType
<1>3. OriginsKnown'
  <2> SUFFICES ASSUME NEW t \in Symbols, NEW j \in OrderSlots, gw'.slots[t][j].st # "empty"
               PROVE  IF gw'.slots[t][j].by = "rest" THEN DrawnBefore(nextOrder, gw'.slots[t][j].id)
                      ELSE /\ gw'.slots[t][j].id < FirstOrderId
                           /\ gw'.slots[t][j].id < strategy'
    BY DEF OriginsKnown, Live, Drawn
  <2>1. CASE t = s /\ j = i
    BY <1>1, <2>1 DEF Drawn
  <2>2. CASE t # s \/ j # i
    <3>1. gw'.slots[t][j] = gw.slots[t][j] /\ Live(t, j)
      BY <1>1, <2>2 DEF Live
    <3>2. gw.slots[t][j].id \in Nat /\ strategy \in Nat
      BY DEF OrderInv, GatewayType, Gateways, OrderTables, Order
    <3>3. IF gw.slots[t][j].by = "rest" THEN Drawn(gw.slots[t][j].id)
          ELSE gw.slots[t][j].id < FirstOrderId /\ gw.slots[t][j].id < strategy
      BY <3>1 DEF OrderInv, OriginsKnown
    <3> QED BY <3>1, <3>2, <3>3 DEF Drawn
  <2> QED BY <2>1, <2>2
<1>4. RestIdsUnique'
  BY <1>1 DEF OrderInv, RestIdsUnique, Live
<1>5. SubmitsFresh'
  <2> DEFINE p == bridge'.requests
  <2>1. ASSUME NEW k \in DOMAIN p, IsSubmit(p[k])
        PROVE  /\ DrawnBefore(nextOrder, p[k].ask.id)
               /\ \A t \in Symbols, j \in OrderSlots :
                     gw'.slots[t][j].st # "empty" => gw'.slots[t][j].id # p[k].ask.id
               /\ \A m \in DOMAIN p : IsSubmit(p[m]) /\ p[m].ask.id = p[k].ask.id => m = k
    <3>1. Consumed(bridge.requests, p) /\ p[k].ask.id # o.id
      BY <2>1
    <3> HIDE DEF p
    <3>2. /\ Drawn(p[k].ask.id)
          /\ \A t \in Symbols, j \in OrderSlots : Live(t, j) => gw.slots[t][j].id # p[k].ask.id
          /\ \A m \in DOMAIN p : IsSubmit(p[m]) /\ p[m].ask.id = p[k].ask.id => m = k
      BY <2>1, <3>1, ConsumedFresh
    <3> QED BY <1>1, <3>1, <3>2 DEF Live, Drawn
  <2> QED BY <2>1 DEF SubmitsFresh, Drawn, Live
<1>6. RestOrdersHaveReport'
  <2> SUFFICES ASSUME NEW t \in Symbols, NEW j \in OrderSlots, RestOpen(t, j)'
               PROVE  \E k \in DOMAIN fills' : fills'[k] = [id |-> gw'.slots[t][j].id, sym |-> t]
    BY DEF RestOrdersHaveReport
  <2>1. CASE t = s /\ j = i
    BY <1>1, <2>1 DEF RestOpen
  <2>2. CASE t # s \/ j # i
    <3>1. gw'.slots[t][j] = gw.slots[t][j] /\ RestOpen(t, j)
      BY <1>1, <2>2 DEF RestOpen
    <3>2. PICK k \in DOMAIN fills : fills[k] = [id |-> gw.slots[t][j].id, sym |-> t]
      BY <3>1 DEF OrderInv, RestOrdersHaveReport
    <3> QED BY <3>1, <3>2
  <2> QED BY <2>1, <2>2
<1> QED BY <1>2, <1>3, <1>4, <1>5, <1>6 DEF OrderInv

\* An id drawn for an order that finds the queue full is never used.
LEMMA IdDiscarded ==
    ASSUME OrderInv, HttpInv, UNCHANGED <<gw, fills, strategy>>,
           bridge'.requests = bridge.requests, nextOrder \in Nat, nextOrder # 0,
           nextOrder' = IdAfter(nextOrder, LastOrderId)
    PROVE  OrderInv'
<1>1. \A x \in Nat : Drawn(x) => DrawnBefore(nextOrder', x)
  BY HttpAssumption DEF Drawn, DrawnBefore, IdAfter
<1>2. \A s \in Symbols, i \in OrderSlots : gw.slots[s][i].id \in Nat
  BY DEF OrderInv, GatewayType, Gateways, OrderTables, Order
<1>3. \A k \in DOMAIN bridge.requests : bridge.requests[k].ask.id \in Nat
  <2>1. bridge.requests \in Seq(Entry)
    BY DEF HttpInv, HttpTypeOK, Bridge
  <2>2. \A k \in DOMAIN bridge.requests : bridge.requests[k] \in Entry
    BY <2>1
  <2> QED BY <2>2 DEF Entry, Asks
<1>4. OriginsKnown'
  <2> SUFFICES ASSUME NEW s \in Symbols, NEW i \in OrderSlots, Live(s, i)
               PROVE  IF gw.slots[s][i].by = "rest" THEN DrawnBefore(nextOrder', gw.slots[s][i].id)
                      ELSE gw.slots[s][i].id < FirstOrderId /\ gw.slots[s][i].id < strategy
    BY DEF OriginsKnown, Live, Drawn
  <2> QED BY <1>1, <1>2 DEF OrderInv, OriginsKnown
<1>5. GatewayType' /\ RestIdsUnique' /\ RestOrdersHaveReport'
  BY DEF OrderInv, GatewayType, RestIdsUnique, RestOrdersHaveReport, Live, RestOpen
<1>6. nextOrder' = 0 \/ FirstOrderId <= nextOrder'
  BY HttpAssumption DEF OrderInv, IdAfter
<1>7. SubmitsFresh'
  <2>1. \A k \in DOMAIN bridge.requests : IsSubmit(bridge.requests[k]) =>
          DrawnBefore(nextOrder', bridge.requests[k].ask.id)
    BY <1>1, <1>3 DEF OrderInv, SubmitsFresh
  <2> QED BY <2>1 DEF OrderInv, SubmitsFresh, Drawn, Live
<1> QED BY <1>4, <1>5, <1>6, <1>7 DEF OrderInv

\* The order at the head of the queue has an id of its own.
LEMMA HeadFresh ==
    ASSUME OrderInv, HttpInv, bridge.requests # <<>>, IsSubmit(Head(bridge.requests)),
           NEW id, id = Head(bridge.requests).ask.id
    PROVE  /\ id \in Nat /\ Drawn(id)
           /\ \A s \in Symbols, i \in OrderSlots : Live(s, i) => gw.slots[s][i].id # id
           /\ \A k \in DOMAIN Tail(bridge.requests) :
                 IsSubmit(Tail(bridge.requests)[k]) => Tail(bridge.requests)[k].ask.id # id
           /\ Consumed(bridge.requests, Tail(bridge.requests))
<1> DEFINE q == bridge.requests
<1>1. q \in Seq(Entry)
  BY DEF HttpInv, HttpTypeOK, Bridge
<1>2. /\ Head(q) = q[1] /\ q[1] \in Entry /\ 1 \in DOMAIN q
      /\ \A k \in DOMAIN Tail(q) : k + 1 \in DOMAIN q /\ k + 1 # 1 /\ Tail(q)[k] = q[k + 1]
  BY <1>1
<1>3. id \in Nat
  BY <1>2 DEF Entry, Asks
<1>4. Consumed(q, q) /\ Consumed(q, Tail(q))
  BY <1>1, ConsumedTail
<1>5. /\ Drawn(id)
      /\ \A s \in Symbols, i \in OrderSlots : Live(s, i) => gw.slots[s][i].id # id
      /\ \A m \in DOMAIN q : IsSubmit(q[m]) /\ q[m].ask.id = id => m = 1
  BY <1>2, <1>4, ConsumedFresh
<1> HIDE DEF q
<1>6. \A k \in DOMAIN Tail(q) : IsSubmit(Tail(q)[k]) => Tail(q)[k].ask.id # id
  BY <1>2, <1>5
<1> QED BY <1>3, <1>4, <1>5, <1>6 DEF q

LEMMA SubmittedStep ==
    ASSUME OrderInv, HttpInv, NEW s \in Symbols,
           \/ process_blocked(s) \/ process_submit(s)
           \/ \E sound \in BOOLEAN : process_refused(s, sound)
    PROVE  OrderInv'
<1> DEFINE r == Head(bridge.requests)
           id == r.ask.id
           built == try_build(gw, s, id, "rest", TRUE)
<1>1. /\ bridge.requests # <<>> /\ IsSubmit(r) /\ bridge' = Popped
      /\ nextOrder' = nextOrder /\ strategy' = strategy
  BY DEF process_blocked, process_submit, process_refused, Submission, Taken, IsSubmit
<1>2. /\ id \in Nat /\ Drawn(id)
      /\ \A t \in Symbols, i \in OrderSlots : Live(t, i) => gw.slots[t][i].id # id
      /\ \A k \in DOMAIN Tail(bridge.requests) :
            IsSubmit(Tail(bridge.requests)[k]) => Tail(bridge.requests)[k].ask.id # id
      /\ Consumed(bridge.requests, Tail(bridge.requests))
  BY <1>1, HeadFresh
<1>3. bridge'.requests = Tail(bridge.requests)
  <2>1. bridge \in Bridge
    BY DEF HttpInv, HttpTypeOK
  <2> QED BY <1>1, <2>1, BridgePopped
<1>4. gw \in Gateways /\ fills \in Seq(Fill) /\ strategy \in Nat
  BY DEF OrderInv, GatewayType
<1>5. \A t \in Symbols, i \in OrderSlots : gw.slots[t][i].st # "empty" => gw.slots[t][i].id # id
  BY <1>2 DEF Live
<1> HIDE DEF id, built
<1>6. ASSUME gw' \in Gateways, Shrinks(gw.slots, gw'.slots), fills' = fills
      PROVE  OrderInv'
  <2>1. RestOrdersHaveReport'
    BY <1>6, ReportsKept
  <2>2. strategy <= strategy' /\ strategy' \in Nat
    BY <1>1, <1>4
  <2> QED BY <1>1, <1>2, <1>3, <1>4, <1>6, <2>1, <2>2, ShrinkStep
<1>7. ASSUME NEW sound \in BOOLEAN, process_refused(s, sound) PROVE OrderInv'
  <2>1. gw' = try_build(gw, s, id, "rest", sound) /\ ~Passes(gw, s, id, sound) /\ fills' = fills
    BY <1>7 DEF process_refused, id
  <2>2. gw' \in Gateways /\ gw'.slots = gw.slots
    BY <1>4, <2>1, OrderRefused
  <2> QED BY <1>6, <2>1, <2>2, SameSlots
<1>8. ASSUME gw' = apply_reject_report(built, s, id), Passes(gw, s, id, TRUE), fills' = fills
      PROVE  OrderInv'
  <2>1. gw' \in Gateways /\ Shrinks(gw.slots, gw'.slots)
    <3> DEFINE k == apply_reject_report(built, s, id)
    <3>1. k \in Gateways /\ Shrinks(gw.slots, k.slots)
      BY <1>2, <1>4, <1>5, <1>8, OrderRejected DEF built
    <3> QED BY <1>8, <3>1
  <2> QED BY <1>6, <1>8, <2>1
<1>9. CASE process_blocked(s)
  BY <1>8, <1>9 DEF process_blocked, id, built
<1>10. CASE process_submit(s)
  <2>1. /\ Passes(gw, s, id, TRUE)
        /\ gw' = IF Len(fills) < FillCap THEN built ELSE apply_reject_report(built, s, id)
        /\ fills' = IF Len(fills) < FillCap THEN Append(fills, [id |-> id, sym |-> s]) ELSE fills
    BY <1>10 DEF process_submit, id, built
  <2>2. CASE ~(Len(fills) < FillCap)
    BY <1>8, <2>1, <2>2
  <2>3. CASE Len(fills) < FillCap
    <3> DEFINE o == [id |-> id, st |-> "open", by |-> "rest"]
               x == [id |-> id, sym |-> s]
    <3>1. gw' = built /\ fills' = Append(fills, x)
      BY <2>1, <2>3
    <3>2. built \in Gateways /\ \E i \in OrderSlots : Adds(gw.slots, built.slots, s, i, o)
      BY <1>2, <1>4, <2>1, OrderBuilt DEF built
    <3>3. PICK i \in OrderSlots : Adds(gw.slots, gw'.slots, s, i, o)
      BY <3>1, <3>2
    <3>4. o \in Order /\ o.id = id /\ o.st = "open" /\ o.by = "rest" /\ x \in Fill
      BY <1>2 DEF Order, Fill
    <3> HIDE DEF o, x
    <3>5. /\ fills' \in Seq(Fill) /\ \E k \in DOMAIN fills' : fills'[k] = x
          /\ \A k \in DOMAIN fills : \E m \in DOMAIN fills' : fills'[m] = fills[k]
      <4>1. fills' \in Seq(Fill) /\ Elements(fills') = Elements(fills) \cup {x}
        BY <1>4, <3>1, <3>4, AppendElements
      <4> QED BY <4>1 DEF Elements
    <3>6. \A t \in Symbols, j \in OrderSlots : Live(t, j) => gw.slots[t][j].id # o.id
      BY <1>2, <3>4
    <3>7. o.by = "rest" => /\ Drawn(o.id)
                           /\ \E k \in DOMAIN fills' : fills'[k] = [id |-> o.id, sym |-> s]
      BY <1>2, <3>4, <3>5 DEF x
    <3>8. strategy <= strategy' /\ strategy' \in Nat /\ gw' \in Gateways
      BY <1>1, <1>4, <3>1, <3>2
    <3>9. \A k \in DOMAIN bridge'.requests :
             IsSubmit(bridge'.requests[k]) => bridge'.requests[k].ask.id # o.id
      BY <1>2, <1>3, <3>4
    <3>10. Consumed(bridge.requests, bridge'.requests)
      BY <1>2, <1>3
    <3> QED BY <1>1, <3>3, <3>4, <3>5, <3>6, <3>7, <3>8, <3>9, <3>10, AddStep
  <2> QED BY <2>2, <2>3
<1> QED BY <1>7, <1>9, <1>10

LEMMA AnsweredStep ==
    ASSUME OrderInv, HttpInv, process_answer PROVE OrderInv'
<1> DEFINE r == Head(bridge.requests)
<1>1. /\ bridge.requests # <<>> /\ bridge' = Responded(Popped, r)
      /\ nextOrder' = nextOrder /\ strategy' = strategy /\ fills' = fills
      /\ gw' = cancel_order(gw, r.ask.id) \/ gw' = gw
  BY DEF process_answer, Taken
<1>2. gw \in Gateways /\ fills' \in Seq(Fill) /\ strategy' \in Nat /\ strategy <= strategy'
  BY <1>1 DEF OrderInv, GatewayType
<1>3. gw' \in Gateways /\ Shrinks(gw.slots, gw'.slots)
  BY <1>1, <1>2, OrderCancelled, SameSlots
<1>4. bridge'.requests = Tail(bridge.requests)
  <2>1. bridge \in Bridge
    BY DEF HttpInv, HttpTypeOK
  <2>2. /\ Popped \in Bridge /\ Popped.deferred = NoResponse /\ r \in Entry
        /\ Popped.requests = Tail(bridge.requests)
    BY <1>1, <2>1, BridgePopped
  <2> QED BY <1>1, <2>2, BridgeResponded
<1>5. Consumed(bridge.requests, bridge'.requests)
  <2>1. bridge.requests \in Seq(Entry)
    BY DEF HttpInv, HttpTypeOK, Bridge
  <2> QED BY <1>1, <1>4, <2>1, ConsumedTail
<1>6. RestOrdersHaveReport'
  BY <1>1, <1>3, ReportsKept
<1> QED BY <1>1, <1>2, <1>3, <1>5, <1>6, ShrinkStep

\* A report that is due fills the one order it can be for.
LEMMA DueStep ==
    ASSUME OrderInv, HttpInv, complete_due PROVE OrderInv'
<1> DEFINE fill == Head(fills)
           M == Matched(fill)
           u == gw.slots
           v == [s \in Symbols |-> [i \in OrderSlots |->
                   IF <<s, i>> \in M THEN [u[s][i] EXCEPT !.st = "done"] ELSE u[s][i]]]
<1>1. /\ fills # <<>> /\ fills' = Tail(fills) /\ gw' = [gw EXCEPT !.slots = v]
      /\ bridge' = bridge /\ nextOrder' = nextOrder /\ strategy' = strategy
  BY DEF complete_due, httpVars
<1>2. /\ gw \in Gateways /\ u \in OrderTables /\ fills \in Seq(Fill)
      /\ strategy' \in Nat /\ strategy <= strategy'
  BY <1>1 DEF OrderInv, GatewayType, Gateways
<1>3. \A p \in M : /\ p \in Symbols \X OrderSlots /\ u[p[1]][p[2]].st = "open"
  BY DEF Matched, Places, Slot
<1> HIDE DEF M
<1> DEFINE Done(o) == [o EXCEPT !.st = "done"]
<1>12. \A o \in Order : /\ Done(o) \in Order /\ Done(o).id = o.id /\ Done(o).by = o.by
                       /\ Done(o).st = "done"
  BY DEF Order
<1>13. \A s \in Symbols, i \in OrderSlots : u[s][i] \in Order
  BY <1>2 DEF OrderTables
<1>4. /\ v \in OrderTables
      /\ \A s \in Symbols, i \in OrderSlots :
            v[s][i] = IF <<s, i>> \in M THEN [u[s][i] EXCEPT !.st = "done"] ELSE u[s][i]
  <2>1. \A s \in Symbols, i \in OrderSlots :
          v[s][i] = IF <<s, i>> \in M THEN [u[s][i] EXCEPT !.st = "done"] ELSE u[s][i]
    OBVIOUS
  <2>2. \A s \in Symbols, i \in OrderSlots : [u[s][i] EXCEPT !.st = "done"] \in Order
    BY <1>12, <1>13
  <2>3. v \in OrderTables
    BY <1>2, <2>2 DEF OrderTables
  <2> QED BY <2>1, <2>3
<1> HIDE DEF v
<1>5. gw' \in Gateways /\ gw'.slots = v
  BY <1>1, <1>2, <1>4 DEF Gateways
<1>6. \A s \in Symbols, i \in OrderSlots :
        /\ v[s][i].id = u[s][i].id /\ v[s][i].by = u[s][i].by
        /\ <<s, i>> \in M => v[s][i].st = "done"
        /\ <<s, i>> \notin M => v[s][i].st = u[s][i].st
  <2>1. \A s \in Symbols, i \in OrderSlots :
          v[s][i] = IF <<s, i>> \in M THEN Done(u[s][i]) ELSE u[s][i]
    BY <1>4
  <2> SUFFICES ASSUME NEW s \in Symbols, NEW i \in OrderSlots
               PROVE  /\ v[s][i].id = u[s][i].id /\ v[s][i].by = u[s][i].by
                      /\ <<s, i>> \in M => v[s][i].st = "done"
                      /\ <<s, i>> \notin M => v[s][i].st = u[s][i].st
    OBVIOUS
  <2>2. /\ Done(u[s][i]).id = u[s][i].id /\ Done(u[s][i]).by = u[s][i].by
        /\ Done(u[s][i]).st = "done"
    BY <1>12, <1>13
  <2>3. v[s][i] = IF <<s, i>> \in M THEN Done(u[s][i]) ELSE u[s][i]
    BY <2>1
  <2> HIDE DEF Done, u
  <2> QED BY <2>2, <2>3
<1>7. Shrinks(u, v)
  <2>1. \A s \in Symbols, i \in OrderSlots : <<s, i>> \in M => u[s][i].st = "open"
    BY <1>3
  <2> HIDE DEF u
  <2> QED BY <1>6, <2>1 DEF Shrinks
<1>8. RestOrdersHaveReport'
  <2> SUFFICES ASSUME NEW s \in Symbols, NEW i \in OrderSlots, RestOpen(s, i)'
               PROVE  \E k \in DOMAIN fills' : fills'[k] = [id |-> u[s][i].id, sym |-> s]
    <3>1. \A s \in Symbols, i \in OrderSlots : gw'.slots[s][i].id = u[s][i].id
      BY <1>5, <1>6
    <3> HIDE DEF u
    <3> QED BY <3>1 DEF RestOrdersHaveReport
  <2>1. /\ u[s][i].st = "open" /\ u[s][i].by = "rest" /\ <<s, i>> \notin M
    BY <1>5, <1>6 DEF RestOpen
  <2> DEFINE x == [id |-> u[s][i].id, sym |-> s]
  <2>2. x \in Elements(fills)
    BY <2>1 DEF OrderInv, RestOrdersHaveReport, RestOpen, Elements
  <2>3. fill # x
    <3> SUFFICES ASSUME fill = x PROVE <<s, i>> \in M
      BY <2>1
    <3> DEFINE P == Places(gw, fill.id)
    <3>1. fill.id = u[s][i].id /\ fill.sym = s
      <4> HIDE DEF fill, u
      <4> QED OBVIOUS
    <3>2. \A p \in P : p = <<s, i>>
      <4> SUFFICES ASSUME NEW t \in Symbols, NEW j \in OrderSlots, Holds(gw, t, j, fill.id)
                   PROVE  t = s /\ j = i
        BY DEF Places
      <4> HIDE DEF fill
      <4> QED BY <2>1, <3>1 DEF OrderInv, RestIdsUnique, Live, Holds
    <3>3. <<s, i>> \in P
      <4> HIDE DEF fill
      <4> QED BY <2>1, <3>1 DEF Places, Holds
    <3>4. P \subseteq Symbols \X OrderSlots
      BY DEF Places
    <3>5. First(P) = <<s, i>>
      <4> HIDE DEF P
      <4>1. First(P) \in P
        BY <3>3, <3>4, FirstIn
      <4> QED BY <3>2, <4>1
    <3> HIDE DEF fill
    <3> QED BY <2>1, <3>1, <3>3, <3>5 DEF M, Matched, Slot
  <2>4. Elements(fills) = {fill} \cup Elements(Tail(fills))
    BY <1>1, <1>2, TailElements
  <2>5. x \in Elements(fills')
    <3> HIDE DEF fill, x
    <3> QED BY <1>1, <2>2, <2>3, <2>4
  <2> QED BY <2>5 DEF Elements
<1>9. Consumed(bridge.requests, bridge'.requests)
  <2>1. bridge.requests \in Seq(Entry)
    BY DEF HttpInv, HttpTypeOK, Bridge
  <2> QED BY <1>1, <2>1, ConsumedTail
<1>10. fills' \in Seq(Fill)
  BY <1>1, <1>2
<1>11. Shrinks(gw.slots, gw'.slots)
  BY <1>5, <1>7
<1> QED BY <1>1, <1>2, <1>5, <1>8, <1>9, <1>10, <1>11, ShrinkStep

\* A strategy order has the next id of its own counter.
LEMMA SignalStep ==
    ASSUME NoCollision, OrderInv, HttpInv, NEW s \in Symbols, NEW sound \in BOOLEAN,
           tick_signal(s, sound)
    PROVE  OrderInv'
<1> DEFINE built == try_build(gw, s, strategy, "strategy", sound)
           o == [id |-> strategy, st |-> "open", by |-> "strategy"]
<1>1. /\ strategy <= env.signals /\ strategy' = strategy + 1 /\ UNCHANGED httpVars
      /\ fills' = fills
      /\ gw' = IF Passes(gw, s, strategy, sound) /\ outbound = OutboundCap
               THEN apply_reject_report(built, s, strategy) ELSE built
  BY DEF tick_signal
<1>2. /\ gw \in Gateways /\ fills' \in Seq(Fill) /\ strategy \in Nat
      /\ strategy' \in Nat /\ strategy <= strategy' /\ nextOrder' = nextOrder /\ bridge' = bridge
  BY <1>1 DEF OrderInv, GatewayType, httpVars
<1>3. strategy < FirstOrderId
  <2>1. env \in Environments
    BY DEF HttpInv, HttpTypeOK
  <2>2. env.signals < FirstOrderId /\ env.signals \in Nat /\ FirstOrderId \in Nat
    BY <2>1, HttpAssumption DEF NoCollision
  <2> QED BY <1>1, <1>2, <2>2
<1>4. \A t \in Symbols, j \in OrderSlots : Live(t, j) => gw.slots[t][j].id # strategy
  <2> SUFFICES ASSUME NEW t \in Symbols, NEW j \in OrderSlots, Live(t, j)
               PROVE  gw.slots[t][j].id # strategy
    OBVIOUS
  <2>1. \/ Drawn(gw.slots[t][j].id)
        \/ gw.slots[t][j].id < strategy
    BY DEF OrderInv, OriginsKnown
  <2>2. gw.slots[t][j].id \in Nat /\ FirstOrderId \in Nat
    BY HttpAssumption DEF OrderInv, GatewayType, Gateways, OrderTables, Order
  <2> QED BY <1>2, <1>3, <2>1, <2>2 DEF Drawn, DrawnBefore
<1>5. Consumed(bridge.requests, bridge'.requests) /\ Consumed(bridge.requests, bridge.requests)
  <2>1. bridge.requests \in Seq(Entry)
    BY DEF HttpInv, HttpTypeOK, Bridge
  <2> QED BY <1>2, <2>1, ConsumedTail
<1> HIDE DEF built
<1>6. ASSUME gw' \in Gateways, Shrinks(gw.slots, gw'.slots) PROVE OrderInv'
  <2>1. RestOrdersHaveReport'
    BY <1>1, <1>6, ReportsKept
  <2> QED BY <1>2, <1>5, <1>6, <2>1, ShrinkStep
<1>7. CASE ~Passes(gw, s, strategy, sound)
  <2>1. gw' = built
    BY <1>1, <1>7
  <2>2. gw' \in Gateways /\ gw'.slots = gw.slots
    BY <1>2, <1>7, <2>1, OrderRefused DEF built
  <2> QED BY <1>6, <2>2, SameSlots
<1>8. CASE Passes(gw, s, strategy, sound) /\ outbound = OutboundCap
  <2> DEFINE k == apply_reject_report(built, s, strategy)
  <2>1. gw' = k
    BY <1>1, <1>8
  <2>2. \A t \in Symbols, j \in OrderSlots :
          gw.slots[t][j].st # "empty" => gw.slots[t][j].id # strategy
    BY <1>4 DEF Live
  <2>3. k \in Gateways /\ Shrinks(gw.slots, k.slots)
    BY <1>2, <1>8, <2>2, OrderRejected DEF built
  <2> QED BY <1>6, <2>1, <2>3
<1>9. CASE Passes(gw, s, strategy, sound) /\ outbound # OutboundCap
  <2>1. gw' = built
    BY <1>1, <1>9
  <2>2. built \in Gateways /\ \E i \in OrderSlots : Adds(gw.slots, built.slots, s, i, o)
    BY <1>2, <1>9, OrderBuilt DEF built
  <2>3. PICK i \in OrderSlots : Adds(gw.slots, gw'.slots, s, i, o)
    BY <2>1, <2>2
  <2>4. o \in Order /\ o.id = strategy /\ o.st = "open" /\ o.by = "strategy"
    BY <1>2 DEF Order
  <2> HIDE DEF o
  <2>5. o.by # "rest" => o.id < FirstOrderId /\ o.id < strategy'
    BY <1>1, <1>2, <1>3, <2>4
  <2>6. o.by # "rest" /\ gw' \in Gateways
    BY <2>1, <2>2, <2>4
  <2>7. \A t \in Symbols, j \in OrderSlots : Live(t, j) => gw.slots[t][j].id # o.id
    BY <1>4, <2>4
  <2>8. \A k \in DOMAIN fills : \E m \in DOMAIN fills' : fills'[m] = fills[k]
    BY <1>1
  <2>9. \A k \in DOMAIN bridge'.requests :
          IsSubmit(bridge'.requests[k]) => bridge'.requests[k].ask.id # o.id
    <3> SUFFICES ASSUME NEW k \in DOMAIN bridge.requests, IsSubmit(bridge.requests[k])
                 PROVE  bridge.requests[k].ask.id # strategy
      BY <1>2, <2>4
    <3>1. Drawn(bridge.requests[k].ask.id)
      BY <1>5, ConsumedFresh
    <3>2. bridge.requests[k].ask.id \in Nat /\ FirstOrderId \in Nat
      <4>1. bridge.requests \in Seq(Entry)
        BY DEF HttpInv, HttpTypeOK, Bridge
      <4>2. bridge.requests[k] \in Entry
        BY <4>1
      <4> QED BY <4>2, HttpAssumption DEF Entry, Asks
    <3> QED BY <1>2, <1>3, <3>1, <3>2 DEF Drawn, DrawnBefore
  <2> QED BY <1>2, <1>5, <2>3, <2>4, <2>5, <2>6, <2>7, <2>8, <2>9, AddStep
<1> QED BY <1>7, <1>8, <1>9

LEMMA OrdersStart == Init => OrderInv
<1> SUFFICES ASSUME Init PROVE OrderInv
  OBVIOUS
<1>1. /\ gw = [slots |-> [s \in Symbols |-> [i \in OrderSlots |-> EmptySlot]], tripped |-> FALSE]
      /\ fills = <<>> /\ strategy = 1 /\ nextOrder = FirstOrderId
      /\ bridge.requests = <<>>
  BY DEF Init, HttpInit, EmptyBridge
<1>2. GatewayType
  BY <1>1, EmptySlotType DEF GatewayType, Gateways, OrderTables
<1>3. \A s \in Symbols, i \in OrderSlots : gw.slots[s][i].st = "empty"
  BY <1>1, EmptySlotType
<1>4. OriginsKnown /\ RestIdsUnique /\ RestOrdersHaveReport
  BY <1>3 DEF OriginsKnown, RestIdsUnique, RestOrdersHaveReport, Live, RestOpen
<1>5. SubmitsFresh
  BY <1>1 DEF SubmitsFresh
<1>6. FirstOrderId <= nextOrder
  BY <1>1, HttpAssumption
<1> QED BY <1>2, <1>4, <1>5, <1>6 DEF OrderInv

\* What the I/O thread does to the queue of requests.
LEMMA HttpOrders ==
    ASSUME OrderInv, HttpInv, HttpNext, UNCHANGED engineVars PROVE OrderInv'
<1>1. UNCHANGED <<gw, fills, strategy>>
  BY DEF engineVars
<1>2. ASSUME bridge' = bridge \/ \E x : bridge' = [bridge EXCEPT !.responses = x],
             nextOrder' = nextOrder
      PROVE  OrderInv'
  <2>1. bridge'.requests = bridge.requests
    BY <1>2 DEF HttpInv, HttpTypeOK, Bridge
  <2> QED BY <1>1, <1>2, <2>1, OrdersKept
<1>3. CASE accept_client \/ end_of_serve \/ poll_fails
  BY <1>2, <1>3 DEF accept_client, end_of_serve, poll_fails
<1>4. ASSUME NEW s \in ClientSlots,
             hang_up(s) \/ \E f \in SendResults : continue_reply(s, f)
      PROVE  OrderInv'
  BY <1>2, <1>4 DEF hang_up, continue_reply
<1>5. ASSUME NEW late \in ClientSlots \cup {NoClient}, NEW f \in SendResults, end_of_turn(late, f)
      PROVE  OrderInv'
  <2>1. nextOrder' = nextOrder /\ bridge' = [bridge EXCEPT !.responses = <<>>]
    BY <1>5 DEF end_of_turn
  <2> QED BY <1>2, <2>1
<1>6. ASSUME NEW s \in ClientSlots, NEW w \in env.wire, read_client(s, w)
      PROVE  OrderInv'
  <2>1. w.ask \in Asks /\ nextReq \in Nat /\ nextOrder \in Nat /\ bridge \in Bridge
    BY HttpAssumption DEF HttpInv, HttpTypeOK
  <2>2. CASE dispatch_waiting(s, w)
    <3> DEFINE e == [req |-> nextReq, ask |-> w.ask]
    <3>1. /\ bridge' = [bridge EXCEPT !.requests = Append(@, e)] /\ nextOrder' = nextOrder
          /\ w.ask.cmd # "submit"
      BY <2>2 DEF dispatch_waiting, Waits
    <3>2. e \in Entry /\ ~IsSubmit(e)
      BY <2>1, <3>1 DEF Entry, IsSubmit
    <3> HIDE DEF e
    <3>3. bridge'.requests = Append(bridge.requests, e)
      BY <2>1, <3>1 DEF Bridge
    <3> QED BY <1>1, <2>1, <3>1, <3>2, <3>3, QueuedStep
  <2>3. ASSUME NEW f \in SendResults, dispatch_submit(s, w, f) PROVE OrderInv'
    <3> DEFINE e == [req |-> 0, ask |-> [w.ask EXCEPT !.id = nextOrder]]
    <3>1. /\ nextOrder' = IdAfter(nextOrder, LastOrderId)
          /\ bridge' = IF nextOrder = 0 THEN bridge
                       ELSE [bridge EXCEPT !.requests = Pushed(@, RequestCap, e)]
      BY <2>3 DEF dispatch_submit
    <3>2. e \in Entry /\ e.ask.id = nextOrder
      BY <2>1 DEF Entry, Asks
    <3> HIDE DEF e
    <3>3. CASE nextOrder = 0
      BY <1>2, <3>1, <3>3 DEF IdAfter
    <3>4. CASE nextOrder # 0 /\ Len(bridge.requests) < RequestCap
      <4>1. bridge'.requests = Append(bridge.requests, e)
        BY <2>1, <3>1, <3>4 DEF Bridge, Pushed
      <4> QED BY <1>1, <2>1, <3>1, <3>2, <3>4, <4>1, QueuedStep
    <3>5. CASE nextOrder # 0 /\ ~(Len(bridge.requests) < RequestCap)
      <4>1. bridge'.requests = bridge.requests
        BY <2>1, <3>1, <3>5 DEF Bridge, Pushed
      <4> QED BY <1>1, <2>1, <3>1, <3>5, <4>1, IdDiscarded
    <3> QED BY <3>3, <3>4, <3>5
  <2>4. ASSUME NEW f \in SendResults,
               \/ read_malformed(s, w, f) \/ dispatch_refused(s, w, f) \/ dispatch_busy(s, w, f)
               \/ \E taken \in BOOLEAN : dispatch_upgrade(s, w, taken, f)
        PROVE  OrderInv'
    BY <1>2, <2>4 DEF read_malformed, dispatch_refused, dispatch_busy, dispatch_upgrade
  <2> QED BY <1>6, <2>2, <2>3, <2>4 DEF read_client
<1> QED BY <1>3, <1>4, <1>5, <1>6 DEF HttpNext

LEMMA OrdersStep ==
    ASSUME NoCollision, OrderInv, HttpInv, [Next]_vars PROVE OrderInv'
<1>1. CASE Http
  BY <1>1, HttpOrders DEF Http
<1>2. CASE ServerOwner
  <2>1. UNCHANGED <<gw, fills, strategy, nextOrder>> /\ bridge' = bridge
    BY <1>2 DEF ServerOwner, start, stop, stop_joins, engineVars
  <2> QED BY <2>1, OrdersKept
<1>3. CASE Execution
  <2>1. CASE fill_not_due \/ tick_idle \/ leave_loop
    <3>1. UNCHANGED <<gw, fills, strategy, nextOrder>> /\ bridge' = bridge
      BY <2>1 DEF fill_not_due, tick_idle, leave_loop, httpVars
    <3> QED BY <3>1, OrdersKept
  <2>2. CASE complete_due
    BY <2>2, DueStep
  <2>3. CASE process_none
    <3>1. UNCHANGED <<gw, fills, strategy, nextOrder>>
          /\ (bridge' = bridge \/ bridge' = Flushed(bridge)) /\ bridge \in Bridge
      BY <2>3 DEF process_none, HttpInv, HttpTypeOK
    <3>2. bridge'.requests = bridge.requests
      BY <3>1, BridgeFlushed
    <3> QED BY <3>1, <3>2, OrdersKept
  <2>4. CASE process_answer
    BY <2>4, AnsweredStep
  <2>5. ASSUME NEW s \in Symbols,
               \/ process_blocked(s) \/ process_submit(s)
               \/ \E sound \in BOOLEAN : process_refused(s, sound)
        PROVE  OrderInv'
    BY <2>5, SubmittedStep
  <2>6. ASSUME NEW s \in Symbols, NEW sound \in BOOLEAN, tick_signal(s, sound) PROVE OrderInv'
    BY <2>6, SignalStep
  <2> QED BY <1>3, <2>1, <2>2, <2>3, <2>4, <2>5, <2>6 DEF Execution
<1>4. CASE egress \/ request_shutdown \/ Main \/ UNCHANGED vars
  <2>1. UNCHANGED <<gw, fills, strategy, nextOrder>> /\ bridge' = bridge
    BY <1>4 DEF egress, request_shutdown, Main, join_egress, join_http, vars, httpVars, engineVars
  <2> QED BY <2>1, OrdersKept
<1> QED BY <1>1, <1>2, <1>3, <1>4 DEF Next

\* As long as the strategy's ids stay below first_order_id, no REST order keeps
\* its reservation without a simulated report to come: what the loop cannot
\* send or schedule it rejects, and a due report finds the order it is for.
\* Where the ranges meet, a report can fill the other order: MCIdCollision.
THEOREM RestOrdersAlwaysHaveReport ==
    ASSUME NoCollision PROVE Spec => []RestOrdersHaveReport
<1> DEFINE Both == HttpInv /\ OrderInv
<1>1. Init => Both
  BY HttpStarts, OrdersStart
<1>2. Both /\ [Next]_vars => Both'
  BY HttpStep, OrdersStep
<1>3. Both => RestOrdersHaveReport
  BY DEF OrderInv
<1> QED BY <1>1, <1>2, <1>3, PTL DEF Spec

=============================================================================
