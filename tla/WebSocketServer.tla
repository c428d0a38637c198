--------------------------- MODULE WebSocketServer ---------------------------
(***************************************************************************)
(* luv_websocket.hpp/.cpp: the server that sends fills to the clients      *)
(* subscribed to an order.                                                 *)
(*                                                                         *)
(* Three threads meet here.  The HTTP thread hands over upgraded sockets   *)
(* (enqueue_upgrade), the execution thread hands over fills (publish) and  *)
(* the worker owns the connections.  Admission words count the producers   *)
(* that are inside, so that stop() can wait for them, and a pipe wakes the *)
(* worker from poll().                                                     *)
(*                                                                         *)
(* The methods the worker runs on its own data are functions from the      *)
(* server's record to the record they leave behind.  Bytes are counted in  *)
(* frames; what a frame holds does not matter here (WebSocketFrame parses  *)
(* it).  Only the poll() build is modelled: the flush list of the kqueue   *)
(* build does not exist in it.                                             *)
(***************************************************************************)
EXTENDS Naturals, Sequences, FiniteSets, SequencesExt

CONSTANTS
    MaxConnections, \* kMaxConnections; max_connections_ is env.slots
    Buckets,        \* kSubscriptionBuckets
    Hash,           \* subscription_hash, a function from order ids to buckets
    UpgradeCap,     \* kUpgradeQueueCapacity
    EventCap,       \* capacity of events_
    FillsPerTurn,   \* kMaxFillsPerTurn
    UpgradesPerTurn,\* kMaxUpgradesPerTurn
    WriteCap,       \* kWriteBufferBytes, in frames
    Environments    \* what peers and callers may do; Init chooses one

Ids == DOMAIN Hash

\* What the parser makes of the bytes of a client.
Frames == {"close", "ping", "pong", "data", "bad"}

ASSUME WebSocketAssumption ==
    /\ Buckets \in Nat \ {0} /\ Hash \in [Ids -> Nat]
    /\ FillsPerTurn \in Nat /\ UpgradesPerTurn \in Nat
    /\ UpgradeCap \in Nat /\ EventCap \in Nat /\ WriteCap \in Nat
    /\ \A e \in Environments :
          /\ e.slots \in 0 .. MaxConnections /\ e.ids \subseteq Ids /\ e.fills \subseteq Ids
          /\ e.batches \subseteq Seq(Frames) /\ e.pre \subseteq Seq(Frames)

VARIABLES
    env,            \* the environment of this behaviour
    srv,            \* connections_, subscriptions_, reserved_, active_
    worker,         \* the worker thread: its position and the locals it keeps
    upgrades,       \* upgrades_: the order ids of sockets handed over
    events,         \* events_: the order ids of fills
    pipe,           \* a byte waits in the wake-up pipe
    http,           \* the HTTP thread inside enqueue_upgrade
    exec,           \* the execution thread inside publish
    closed,         \* kAdmissionClosedBit of both admission words
    running,        \* running_
    control,        \* the thread that calls start() and stop()
    clock           \* maintenance: "early", "due" or "overdue"

vars == <<env, srv, worker, upgrades, events, pipe, http, exec, closed, running, control, clock>>

Slots == 0 .. env.slots - 1
Nil == Buckets + env.slots       \* the -1 of heads and links
BucketIndex == 0 .. Buckets - 1

FreeConnection ==
    [open |-> FALSE, id |-> 0, unread |-> <<>>, out |-> 0, blocked |-> "no", closing |-> FALSE,
     ping |-> "early", bucket |-> Nil, prev |-> Nil, next |-> Nil]

EmptyBucket == [state |-> "empty", id |-> 0, head |-> Nil]

EmptyPool ==
    [conn |-> [c \in Slots |-> FreeConnection], sub |-> [b \in BucketIndex |-> EmptyBucket],
     reserved |-> 0, active |-> 0]

-----------------------------------------------------------------------------
(***************************************************************************)
(* The subscription index: open addressing over buckets, and in each       *)
(* bucket a doubly linked list threaded through the connections.           *)
(***************************************************************************)
Probe(id, n) == (Hash[id] + n) % Buckets

Probes == 0 .. Buckets - 1

FirstOf(P) == CHOOSE n \in P : \A k \in P : n <= k

\* The probes before the first empty bucket: all a search visits.
Visited(s, id) ==
    {n \in Probes : \A k \in 0 .. n : s.sub[Probe(id, k)].state # "empty"}

Occupied(s, id) ==
    {n \in Visited(s, id) : LET b == s.sub[Probe(id, n)] IN b.state = "occupied" /\ b.id = id}

find_subscription(s, id) ==
    IF Occupied(s, id) = {} THEN Nil ELSE Probe(id, FirstOf(Occupied(s, id)))

\* The first tombstone passed, or else the empty bucket that ended the search.
Insertable(s, id) ==
    LET graves == {n \in Visited(s, id) : s.sub[Probe(id, n)].state = "tombstone"}
        ends == Probes \ Visited(s, id)
    IN  IF graves # {} THEN {FirstOf(graves)} ELSE IF ends # {} THEN {FirstOf(ends)} ELSE {}

find_or_create_subscription(s, id) ==
    IF Occupied(s, id) # {} THEN find_subscription(s, id)
    ELSE IF Insertable(s, id) = {} THEN Nil
    ELSE Probe(id, FirstOf(Insertable(s, id)))

subscribe(s, c) ==
    LET id == s.conn[c].id
        b == find_or_create_subscription(s, id)
        head == IF Occupied(s, id) # {} THEN s.sub[b].head ELSE Nil
        linked == [s.conn EXCEPT ![c].bucket = b, ![c].prev = Nil, ![c].next = head]
    IN  [s EXCEPT !.sub[b] = [state |-> "occupied", id |-> id, head |-> c],
                  !.conn = IF head = Nil THEN linked ELSE [linked EXCEPT ![head].prev = c]]

\* A bucket emptied instead of buried cuts the probe sequences across it.
Emptied(s, c) ==
    LET k == s.conn[c]
        head == IF k.prev # Nil THEN s.sub[k.bucket].head ELSE k.next
        before == IF k.prev = Nil THEN s.conn ELSE [s.conn EXCEPT ![k.prev].next = k.next]
        after == IF k.next = Nil THEN before ELSE [before EXCEPT ![k.next].prev = k.prev]
    IN  IF k.bucket = Nil THEN s ELSE
        [s EXCEPT !.conn = [after EXCEPT ![c].bucket = Nil, ![c].prev = Nil, ![c].next = Nil],
                  !.sub[k.bucket].head = head,
                  !.sub[k.bucket].state = IF head = Nil THEN "empty" ELSE @]

unsubscribe(s, c) ==
    LET k == s.conn[c]
        head == IF k.prev # Nil THEN s.sub[k.bucket].head
                ELSE IF s.sub[k.bucket].head = c THEN k.next ELSE s.sub[k.bucket].head
        before == IF k.prev = Nil THEN s.conn ELSE [s.conn EXCEPT ![k.prev].next = k.next]
        after == IF k.next = Nil THEN before ELSE [before EXCEPT ![k.next].prev = k.prev]
    IN  IF k.bucket = Nil THEN s ELSE
        [s EXCEPT !.conn = [after EXCEPT ![c].bucket = Nil, ![c].prev = Nil, ![c].next = Nil],
                  !.sub[k.bucket].head = head,
                  !.sub[k.bucket].state = IF head = Nil THEN "tombstone" ELSE @]

-----------------------------------------------------------------------------
(***************************************************************************)
(* One connection.                                                         *)
(***************************************************************************)
CloseUnreserved(s, c) ==
    IF ~s.conn[c].open THEN s ELSE
    [unsubscribe(s, c) EXCEPT !.conn[c] = FreeConnection, !.active = @ - 1]

close(s, c) ==
    IF ~s.conn[c].open THEN s ELSE
    [unsubscribe(s, c) EXCEPT !.conn[c] = FreeConnection, !.active = @ - 1, !.reserved = @ - 1]

HasRoom(s, c) == s.conn[c].out < WriteCap

\* queue_bytes, queue_frame; a full buffer fails and leaves it unchanged.
queue_frame(s, c) == [s EXCEPT !.conn[c].out = @ + 1]

\* queue_close with close_after_flush set behind it; a full buffer closes.
close_with_code(s, c) ==
    IF HasRoom(s, c) THEN [queue_frame(s, c) EXCEPT !.conn[c].closing = TRUE] ELSE close(s, c)

Pending(s, c) == s.conn[c].out > 0

\* One send.  "part" leaves frames behind, "again" is EAGAIN, "error" is any
\* other failure; an interrupted send changes nothing.
Sent(s, c, send) ==
    LET k == s.conn[c] IN
    CASE send = "all" -> IF k.closing THEN close(s, c)
                         ELSE [s EXCEPT !.conn[c].out = 0, !.conn[c].blocked = "no"]
      [] send = "part" /\ k.out > 1 -> [s EXCEPT !.conn[c].out = @ - 1, !.conn[c].blocked = "new"]
      [] send = "error" -> close(s, c)
      [] OTHER -> IF k.blocked = "late" THEN close(s, c)
                  ELSE [s EXCEPT !.conn[c].blocked = "new"]

flush(s, c, send) ==
    IF Pending(s, c) THEN Sent(s, c, send)
    ELSE IF s.conn[c].closing THEN close(s, c)
    ELSE [s EXCEPT !.conn[c].blocked = "no"]

\* consume_frame on the first unread frame; a frame the parser refuses stays.
consume_frame(s, c) ==
    LET f == Head(s.conn[c].unread)
        rest == [s EXCEPT !.conn[c].unread = Tail(@)]
    IN  CASE f = "close" -> close_with_code(rest, c)
          [] f = "ping" -> IF HasRoom(s, c) THEN queue_frame(rest, c) ELSE close(s, c)
          [] f = "pong" -> [rest EXCEPT !.conn[c].ping = IF @ \in {"sent", "late"} THEN "early" ELSE @]
          [] f = "data" -> rest
          [] f = "bad" -> close_with_code(s, c)

MoreToRead(s, c) == s.conn[c].open /\ ~s.conn[c].closing

\* One turn of the inner loop of receive(): it ends once there is no frame, or
\* once the connection is closed or closing, which is looked at behind a frame.
Parsed(s, c, n) ==
    IF s.conn[c].unread # <<>> /\ (n = 1 \/ MoreToRead(s, c)) THEN consume_frame(s, c) ELSE s

Consumed(s, c) ==
    LET frames == s.conn[c].unread
        turn[n \in 0 .. Len(frames)] == IF n = 0 THEN s ELSE Parsed(turn[n - 1], c, n)
    IN  turn[Len(frames)]

\* receive(): the bytes left from before are parsed first, and only then is
\* the socket read; "arrived" is what the reads bring, ended by EAGAIN.
receive(s, c, arrived) ==
    LET first == Consumed(s, c)
    IN  IF MoreToRead(first, c) THEN Consumed([first EXCEPT !.conn[c].unread = arrived], c)
        ELSE first

\* A read that says the peer is gone.
receive_end(s, c) ==
    LET first == Consumed(s, c)
    IN  IF MoreToRead(first, c) THEN close(first, c) ELSE first

-----------------------------------------------------------------------------
(***************************************************************************)
(* What one turn of the worker does with the connections.                  *)
(***************************************************************************)
\* One subscriber of a fill: a frame is queued, or there is no room and the
\* client is closed rather than left without it.
Fanout(s, c) ==
    IF ~s.conn[c].open \/ s.conn[c].closing THEN s
    ELSE IF HasRoom(s, c) THEN queue_frame(s, c)
    ELSE close(s, c)

Successor(s) == [c \in Slots \cup {Nil} |-> IF c = Nil THEN Nil ELSE s.conn[c].next]

\* The chain from a connection on, at most one visit per slot.
Chain(s, c) ==
    LET walk[n \in 0 .. env.slots] == IF n = 0 THEN c ELSE Successor(s)[walk[n - 1]]
    IN  [n \in 1 .. Cardinality({k \in 0 .. env.slots : walk[k] # Nil}) |-> walk[n - 1]]

\* broadcast: the successor is read before a full client is closed, so the
\* chain as it was at the start is the one that is walked.
broadcast(s, id) ==
    LET b == find_subscription(s, id)
        chain == Chain(s, s.sub[b].head)
        sent[n \in 0 .. Len(chain)] == IF n = 0 THEN s ELSE Fanout(sent[n - 1], chain[n])
    IN  IF b = Nil THEN s ELSE sent[Len(chain)]

FreeSlots(s) == {c \in Slots : ~s.conn[c].open}

\* accept_upgrade; u.pre is what the HTTP read already held of the client's
\* frames, and a key that cannot be answered or a socket that cannot be made
\* nonblocking is closed.
accept_upgrade(s, u) ==
    LET c == FirstOf(FreeSlots(s))
        taken == [s EXCEPT !.conn[c] = [FreeConnection EXCEPT !.open = TRUE, !.id = u.id,
                                                              !.unread = u.pre, !.out = 1],
                           !.active = @ + 1]
    IN  IF FreeSlots(s) = {} \/ ~u.sound THEN [s EXCEPT !.reserved = @ - 1]
        ELSE IF find_or_create_subscription(s, u.id) = Nil THEN close(taken, c)
        ELSE receive(subscribe(taken, c), c, <<>>)

Reaped(s, c, send) ==
    LET k == s.conn[c] IN
    IF ~k.open THEN s
    ELSE IF Pending(s, c) /\ k.blocked = "no" THEN flush(s, c, send)
    ELSE IF k.closing THEN s
    ELSE IF k.ping \in {"sent", "late"} THEN (IF k.ping = "late" THEN close(s, c) ELSE s)
    ELSE IF k.ping = "early" THEN s
    ELSE IF HasRoom(s, c) THEN [queue_frame(s, c) EXCEPT !.conn[c].ping = "sent"] ELSE close(s, c)

service_keepalive(s, c, send) ==
    LET k == s.conn[c] IN
    IF ~k.open THEN s
    ELSE IF Pending(s, c) /\ k.blocked = "no" THEN flush(s, c, send)
    ELSE IF Pending(s, c) /\ k.blocked = "late" THEN close(s, c)
    ELSE IF k.closing THEN s
    ELSE IF k.ping \in {"sent", "late"} THEN (IF k.ping = "late" THEN close(s, c) ELSE s)
    ELSE IF k.ping = "early" THEN s
    ELSE IF HasRoom(s, c) THEN [queue_frame(s, c) EXCEPT !.conn[c].ping = "sent"] ELSE close(s, c)

\* The pass behind poll() over a connection with these events: read, then
\* write, then hang up unless a close frame is still to be sent.
service_io(s, c, io) ==
    LET read == CASE io.read = "none" -> s
                  [] io.read = "end" -> receive_end(s, c)
                  [] OTHER -> receive(s, c, io.frames)
        writes == read.conn[c].open /\ (io.write \/ (read.conn[c].closing /\ Pending(read, c)))
        wrote == IF writes THEN flush(read, c, io.send) ELSE read
        k == wrote.conn[c]
    IN  IF io.hup /\ k.open /\ (~k.closing \/ k.out = 0) THEN close(wrote, c) ELSE wrote

-----------------------------------------------------------------------------
(***************************************************************************)
(* The worker thread: run().                                               *)
(***************************************************************************)
Taken(q, n) == IF Len(q) <= n THEN q ELSE SubSeq(q, 1, n)

Kept(q, n) == SubSeq(q, n + 1, Len(q))

run_test ==
    /\ worker.at = "test"
    /\ worker' = [worker EXCEPT !.at = IF running THEN "drain" ELSE "exited"]
    /\ UNCHANGED <<env, srv, upgrades, events, pipe, http, exec, closed, running, control, clock>>

drain_worker_signal ==
    /\ worker.at = "drain"
    /\ pipe' = FALSE
    /\ worker' = [worker EXCEPT !.at = "fills"]
    /\ UNCHANGED <<env, srv, upgrades, events, http, exec, closed, running, control, clock>>

run_fills ==
    /\ worker.at = "fills"
    /\ srv' = LET fills == Taken(events, FillsPerTurn)
                  sent[n \in 0 .. Len(fills)] ==
                      IF n = 0 THEN srv ELSE broadcast(sent[n - 1], fills[n])
              IN  sent[Len(fills)]
    /\ events' = Kept(events, FillsPerTurn)
    /\ worker' = [worker EXCEPT !.at = "upgrades", !.filled = @ \/ events # <<>>]
    /\ UNCHANGED <<env, upgrades, pipe, http, exec, closed, running, control, clock>>

run_upgrades ==
    /\ worker.at = "upgrades"
    /\ srv' = LET jobs == Taken(upgrades, UpgradesPerTurn)
                  made[n \in 0 .. Len(jobs)] ==
                      IF n = 0 THEN srv ELSE accept_upgrade(made[n - 1], jobs[n])
              IN  made[Len(jobs)]
    /\ upgrades' = Kept(upgrades, UpgradesPerTurn)
    /\ worker' = [worker EXCEPT !.at = "maintain"]
    /\ UNCHANGED <<env, events, pipe, http, exec, closed, running, control, clock>>

\* Maintenance waits for a quiet moment behind fills, but not for ever.
MustMaintain == clock = "overdue" \/ (clock = "due" /\ ~worker.filled)

run_maintain(send) ==
    /\ worker.at = "maintain"
    /\ IF MustMaintain
       THEN /\ srv' = LET kept[n \in 0 .. env.slots] ==
                              IF n = 0 THEN srv ELSE service_keepalive(kept[n - 1], n - 1, send)
                      IN  kept[env.slots]
            /\ clock' = "early"
       ELSE UNCHANGED <<srv, clock>>
    /\ worker' = [worker EXCEPT !.at = "poll", !.remains = events # <<>> \/ upgrades # <<>>]
    /\ UNCHANGED <<env, upgrades, events, pipe, http, exec, closed, running, control>>

\* poll() returns at once when work remains, and at the latest at the next
\* maintenance or when the quiet period ends.
TimesOut == worker.remains \/ clock # "early"

poll_quiet ==
    /\ worker.at = "poll"
    /\ TimesOut \/ (pipe /\ ~worker.remains)
    /\ worker' = [worker EXCEPT !.at = "test", !.remains = FALSE]
    /\ UNCHANGED <<env, srv, upgrades, events, pipe, http, exec, closed, running, control, clock>>

\* A producer's byte sends the worker back to its queues first, unless work
\* remained there anyway.
poll_ready(c, io) ==
    /\ worker.at = "poll" /\ (worker.remains \/ ~pipe)
    /\ srv.conn[c].open
    /\ io.write => Pending(srv, c)
    /\ srv' = service_io(srv, c, io)
    /\ worker' = [worker EXCEPT !.at = "test", !.remains = FALSE]
    /\ UNCHANGED <<env, upgrades, events, pipe, http, exec, closed, running, control, clock>>

-----------------------------------------------------------------------------
(***************************************************************************)
(* The producers.  Each holds its lease from the first step to the last.   *)
(***************************************************************************)
upgrade_lease(u) ==
    /\ http.at = "idle" /\ ~closed
    /\ http' = [at |-> "leased", job |-> u]
    /\ UNCHANGED <<env, srv, worker, upgrades, events, pipe, exec, closed, running, control, clock>>

\* A pool without room: the lease is given back.
upgrade_exhausted ==
    /\ http.at = "leased" /\ srv.reserved >= env.slots
    /\ http' = [http EXCEPT !.at = "release"]
    /\ UNCHANGED <<env, srv, worker, upgrades, events, pipe, exec, closed, running, control, clock>>

upgrade_reserve ==
    /\ http.at = "leased" /\ srv.reserved < env.slots
    /\ srv' = [srv EXCEPT !.reserved = @ + 1]
    /\ http' = [http EXCEPT !.at = "reserved"]
    /\ UNCHANGED <<env, worker, upgrades, events, pipe, exec, closed, running, control, clock>>

\* A full ring gives the reservation back.
upgrade_push ==
    /\ http.at = "reserved"
    /\ IF Len(upgrades) < UpgradeCap
       THEN /\ upgrades' = Append(upgrades, http.job)
            /\ http' = [http EXCEPT !.at = "signal"]
            /\ UNCHANGED srv
       ELSE /\ srv' = [srv EXCEPT !.reserved = @ - 1]
            /\ http' = [http EXCEPT !.at = "release"]
            /\ UNCHANGED upgrades
    /\ UNCHANGED <<env, worker, events, pipe, exec, closed, running, control, clock>>

upgrade_signal ==
    /\ http.at = "signal"
    /\ pipe' = TRUE
    /\ http' = [http EXCEPT !.at = "release"]
    /\ UNCHANGED <<env, srv, worker, upgrades, events, exec, closed, running, control, clock>>

upgrade_release ==
    /\ http.at = "release"
    /\ http' = [at |-> "idle", job |-> 0]
    /\ UNCHANGED <<env, srv, worker, upgrades, events, pipe, exec, closed, running, control, clock>>

publish_lease(id) ==
    /\ exec.at = "idle" /\ ~closed
    /\ exec' = [at |-> "leased", job |-> id]
    /\ UNCHANGED <<env, srv, worker, upgrades, events, pipe, http, closed, running, control, clock>>

\* A fill pushed without waking the worker.
PushSilently ==
    /\ exec.at = "leased"
    /\ events' = IF Len(events) < EventCap THEN Append(events, exec.job) ELSE events
    /\ exec' = [exec EXCEPT !.at = "release"]
    /\ UNCHANGED <<env, srv, worker, upgrades, pipe, http, closed, running, control, clock>>

\* A fill that finds the ring full is dropped and counted.
publish_push ==
    /\ exec.at = "leased"
    /\ IF Len(events) < EventCap
       THEN events' = Append(events, exec.job) /\ exec' = [exec EXCEPT !.at = "signal"]
       ELSE exec' = [exec EXCEPT !.at = "release"] /\ UNCHANGED events
    /\ UNCHANGED <<env, srv, worker, upgrades, pipe, http, closed, running, control, clock>>

publish_signal ==
    /\ exec.at = "signal"
    /\ pipe' = TRUE
    /\ exec' = [exec EXCEPT !.at = "release"]
    /\ UNCHANGED <<env, srv, worker, upgrades, events, http, closed, running, control, clock>>

publish_release ==
    /\ exec.at = "release"
    /\ exec' = [at |-> "idle", job |-> 0]
    /\ UNCHANGED <<env, srv, worker, upgrades, events, pipe, http, closed, running, control, clock>>

-----------------------------------------------------------------------------
(***************************************************************************)
(* The thread that starts and stops the server.                            *)
(***************************************************************************)
stop_close ==
    /\ control.at = "started" /\ control.stops < env.stops
    /\ closed' = TRUE
    /\ control' = [at |-> "draining", stops |-> control.stops + 1]
    /\ UNCHANGED <<env, srv, worker, upgrades, events, pipe, http, exec, running, clock>>

\* The worker stopped while a producer is still inside.
StopUndrained ==
    /\ control.at = "draining"
    /\ running' = FALSE /\ pipe' = TRUE
    /\ control' = [control EXCEPT !.at = "joining"]
    /\ UNCHANGED <<env, srv, worker, upgrades, events, http, exec, closed, clock>>

\* Both admission words have drained: running_ is cleared and the worker woken.
stop_drained ==
    /\ control.at = "draining" /\ http.at = "idle" /\ exec.at = "idle"
    /\ running' = FALSE /\ pipe' = TRUE
    /\ control' = [control EXCEPT !.at = "joining"]
    /\ UNCHANGED <<env, srv, worker, upgrades, events, http, exec, closed, clock>>

\* Behind the join: connections closed, rings drained, the pool destroyed and
\* the pipe closed.
stop_joined ==
    /\ control.at = "joining" /\ worker.at = "exited"
    /\ srv' = EmptyPool
    /\ upgrades' = <<>> /\ events' = <<>> /\ pipe' = FALSE /\ clock' = "early"
    /\ control' = [control EXCEPT !.at = "stopped"]
    /\ UNCHANGED <<env, worker, http, exec, closed, running>>

\* start(): a pool, a pipe and a worker, and only then the admission words.
\* A start that fails undoes what it did and leaves the server stopped.
start ==
    /\ control.at = "stopped"
    /\ running' = TRUE
    /\ worker' = [at |-> "test", remains |-> FALSE, filled |-> FALSE]
    /\ srv' = EmptyPool
    /\ control' = [control EXCEPT !.at = "opening"]
    /\ UNCHANGED <<env, upgrades, events, pipe, http, exec, closed, clock>>

start_open ==
    /\ control.at = "opening"
    /\ closed' = FALSE
    /\ control' = [control EXCEPT !.at = "started"]
    /\ UNCHANGED <<env, srv, worker, upgrades, events, pipe, http, exec, running, clock>>

\* Time: the maintenance interval, or every deadline that is running.
Aged(k) ==
    [k EXCEPT !.blocked = IF @ = "new" THEN "late" ELSE @,
              !.ping = CASE @ = "early" /\ env.pings -> "due" [] @ = "sent" -> "late" [] OTHER -> @]

elapse(far) ==
    /\ running
    /\ clock' = IF clock = "early" THEN "due" ELSE "overdue"
    /\ worker' = [worker EXCEPT !.filled = FALSE]
    /\ srv' = IF far THEN [srv EXCEPT !.conn = [c \in Slots |->
                             IF @[c].open THEN Aged(@[c]) ELSE @[c]]]
              ELSE srv
    /\ UNCHANGED <<env, upgrades, events, pipe, http, exec, closed, running, control>>

-----------------------------------------------------------------------------
Init ==
    /\ env \in Environments
    /\ srv = EmptyPool
    /\ worker = [at |-> "exited", remains |-> FALSE, filled |-> FALSE]
    /\ upgrades = <<>> /\ events = <<>> /\ pipe = FALSE
    /\ http = [at |-> "idle", job |-> 0] /\ exec = [at |-> "idle", job |-> 0]
    /\ closed = TRUE /\ running = FALSE /\ clock = "early"
    /\ control = [at |-> "stopped", stops |-> 0]

\* What a peer and the kernel may do to one connection in one pass.
Events ==
    [read : {"none", "end"}, frames : {<<>>}, write : BOOLEAN, send : env.sends, hup : BOOLEAN]
    \cup [read : {"some"}, frames : env.batches, write : BOOLEAN, send : env.sends, hup : {FALSE}]

Handovers == [id : env.ids, pre : env.pre, sound : env.sound]

Worker ==
    \/ run_test \/ drain_worker_signal \/ run_fills \/ run_upgrades
    \/ \E send \in env.sends : run_maintain(send)
    \/ poll_quiet

Peers == \E c \in Slots, io \in Events : poll_ready(c, io)

Http == upgrade_exhausted \/ upgrade_reserve \/ upgrade_push \/ upgrade_signal \/ upgrade_release

Exec == publish_push \/ publish_signal \/ publish_release

Control == stop_drained \/ stop_joined \/ start \/ start_open

Next ==
    \/ Worker \/ Peers \/ Http \/ Exec \/ Control \/ stop_close
    \/ \E u \in Handovers : upgrade_lease(u)
    \/ \E id \in env.fills : publish_lease(id)
    \/ \E far \in BOOLEAN : elapse(far)

\* When the worker can take a step: always, except while poll() blocks.
WorkerReady ==
    /\ worker.at # "exited"
    /\ worker.at = "poll" => TimesOut \/ (pipe /\ ~worker.remains)

\* WF_vars(Worker), with WorkerReady for ENABLED <<Worker>>_vars: every step
\* of the worker moves worker.at, so the two are the same.
WorkerFairness == []<>~WorkerReady \/ []<><<Worker>>_vars

\* The operating system runs every thread that can run, and time passes.
Spec ==
    /\ Init /\ [][Next]_vars
    /\ WorkerFairness /\ WF_vars(Http) /\ WF_vars(Exec) /\ WF_vars(Control)
    /\ WF_vars(elapse(TRUE))

-----------------------------------------------------------------------------
OpenSlots == {c \in Slots : srv.conn[c].open}

(***************************************************************************)
(* Every reserved place of the pool belongs to exactly one socket: one     *)
(* being handed over, one in the ring or an open connection.  The count    *)
(* never exceeds the pool and no way of losing a client, among them a full *)
(* buffer in the middle of a fan-out, a refused upgrade and a full ring,   *)
(* leaks a place or returns it twice.                                      *)
(***************************************************************************)
SlotsAccounted ==
    /\ srv.active = Cardinality(OpenSlots)
    /\ srv.reserved = srv.active + Len(upgrades) + (IF http.at = "reserved" THEN 1 ELSE 0)
    /\ srv.reserved <= env.slots

(***************************************************************************)
(* The index finds every subscriber of an order and no one else, whatever  *)
(* other orders collided with it and left the table before: the list that  *)
(* broadcast walks holds each open connection of the order once, and its   *)
(* backward links agree with it.                                           *)
(***************************************************************************)
SubscribersReachable ==
    \A id \in Ids :
        LET b == find_subscription(srv, id)
            chain == IF b = Nil THEN <<>> ELSE Chain(srv, srv.sub[b].head)
        IN  /\ ToSet(chain) = {c \in OpenSlots : srv.conn[c].id = id}
            /\ Len(chain) = Cardinality(ToSet(chain))
            /\ \A i \in DOMAIN chain :
                   /\ srv.conn[chain[i]].bucket = b
                   /\ srv.conn[chain[i]].prev = IF i = 1 THEN Nil ELSE chain[i - 1]

(***************************************************************************)
(* The worker does not sleep over work: when it waits in poll() believing  *)
(* its queues empty and one of them is not, a byte is in the pipe or the   *)
(* producer that pushed is about to write it.                              *)
(***************************************************************************)
WakeupNotLost ==
    worker.at = "poll" /\ ~worker.remains =>
        /\ events # <<>> => pipe \/ exec.at = "signal"
        /\ upgrades # <<>> => pipe \/ http.at = "signal"

(***************************************************************************)
(* stop() is final: once it returns no producer is inside, nothing is left *)
(* in a ring and no descriptor or place of the pool is held, also when it  *)
(* races with an upgrade and with a fill.                                  *)
(***************************************************************************)
StoppedIsQuiet ==
    control.at = "stopped" =>
        /\ http.at = "idle" /\ exec.at = "idle" /\ worker.at = "exited"
        /\ upgrades = <<>> /\ events = <<>> /\ OpenSlots = {} /\ srv.reserved = 0

Stalls == "part" \notin env.sends

Closing(c) == Stalls /\ c \in Slots /\ srv.conn[c].closing

Silent(c) == Stalls /\ c \in Slots /\ srv.conn[c].ping = "sent" /\ srv.conn[c].out = 0

(***************************************************************************)
(* Maintenance gets rid of dead peers.  A connection that is being closed  *)
(* is released even when its peer reads nothing any more, and a peer with  *)
(* nothing to be sent that does not answer a ping is released too.  (A     *)
(* peer that reads a part now and then is not held to this: each partial   *)
(* send restarts its deadline.)                                            *)
(***************************************************************************)
DeadPeersReleased ==
    \A c \in 0 .. MaxConnections - 1 :
        /\ Closing(c) ~> ~Closing(c)
        /\ Silent(c) ~> ~Silent(c)
=============================================================================
