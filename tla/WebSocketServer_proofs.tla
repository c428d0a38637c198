----------------------- MODULE WebSocketServer_proofs -----------------------
(***************************************************************************)
(* The fill server, for every number of slots, table of buckets, capacity  *)
(* of the rings and environment: a push is never slept over, a stopped     *)
(* server has nothing left inside, every reserved place of the pool is     *)
(* accounted for and a fill reaches the subscribers of its order.          *)
(*                                                                         *)
(* The last two are about what the worker does to the pool.  Each of its   *)
(* methods either leaves what the index depends on as it is or closes a    *)
(* connection (Touched); closing and subscribing keep the index (Indexed), *)
(* of which the list of a bucket is a tour of its members.                 *)
(***************************************************************************)
EXTENDS WebSocketServer, Integers, Induction, FiniteSetTheorems, SequenceTheorems, TLAPS

-----------------------------------------------------------------------------
(***************************************************************************)
(* Where the threads are.                                                  *)
(***************************************************************************)
WorkerState ==
    [at : {"test", "drain", "fills", "upgrades", "maintain", "poll", "exited"},
     remains : BOOLEAN, filled : BOOLEAN]

ThreadsOK ==
    /\ worker \in WorkerState
    /\ http = [at |-> http.at, job |-> http.job]
    /\ exec = [at |-> exec.at, job |-> exec.job]
    /\ control = [at |-> control.at, stops |-> control.stops]
    /\ pipe \in BOOLEAN /\ running \in BOOLEAN

LEMMA InitThreads == Init => ThreadsOK
<1> SUFFICES ASSUME Init PROVE ThreadsOK
  OBVIOUS
<1>1. worker \in WorkerState
  BY DEF Init, WorkerState
<1>2. /\ http = [at |-> http.at, job |-> http.job]
      /\ exec = [at |-> exec.at, job |-> exec.job]
      /\ control = [at |-> control.at, stops |-> control.stops]
  BY DEF Init
<1>3. pipe \in BOOLEAN /\ running \in BOOLEAN
  BY DEF Init
<1> QED BY <1>1, <1>2, <1>3 DEF ThreadsOK

USE DEF Worker, Peers, Http, Exec, Control

LEMMA NextThreads == ThreadsOK /\ [Next]_vars => ThreadsOK'
<1> SUFFICES ASSUME ThreadsOK, [Next]_vars PROVE ThreadsOK'
  OBVIOUS
<1> USE DEF ThreadsOK, WorkerState
<1>1. CASE Worker
  BY <1>1 DEF run_test, drain_worker_signal, run_fills, run_upgrades, run_maintain, poll_quiet
<1>2. CASE Peers
  BY <1>2 DEF poll_ready
<1>3. CASE Http
  BY <1>3 DEF upgrade_exhausted, upgrade_reserve, upgrade_push, upgrade_signal, upgrade_release
<1>4. CASE Exec
  BY <1>4 DEF publish_push, publish_signal, publish_release
<1>5. CASE Control
  <2>0. worker' \in {worker, [at |-> "test", remains |-> FALSE, filled |-> FALSE]}
    BY <1>5 DEF stop_drained, stop_joined, start, start_open
  <2>1. worker' \in WorkerState
    <3>1. [at |-> "test", remains |-> FALSE, filled |-> FALSE] \in WorkerState
      OBVIOUS
    <3> QED BY <2>0, <3>1
  <2>2. pipe' \in BOOLEAN /\ running' \in BOOLEAN
    BY <1>5 DEF stop_drained, stop_joined, start, start_open
  <2>3. UNCHANGED <<http, exec>>
    BY <1>5 DEF stop_drained, stop_joined, start, start_open
  <2>4. \E at : control' = [control EXCEPT !.at = at]
    BY <1>5 DEF stop_drained, stop_joined, start, start_open
  <2> QED BY <2>1, <2>2, <2>3, <2>4
<1>6. CASE stop_close
  BY <1>6 DEF stop_close
<1>7. ASSUME NEW u, upgrade_lease(u) PROVE ThreadsOK'
  BY <1>7 DEF upgrade_lease
<1>8. ASSUME NEW id, publish_lease(id) PROVE ThreadsOK'
  BY <1>8 DEF publish_lease
<1>9. ASSUME NEW far, elapse(far) PROVE ThreadsOK'
  BY <1>9 DEF elapse
<1>10. CASE UNCHANGED vars
  BY <1>10 DEF vars
<1> QED BY <1>1, <1>2, <1>3, <1>4, <1>5, <1>6, <1>7, <1>8, <1>9, <1>10 DEF Next

-----------------------------------------------------------------------------
(***************************************************************************)
(* The worker reads its queues once more before it sleeps, and a producer  *)
(* writes its byte after it has pushed.  Nothing but the worker empties    *)
(* the pipe while the worker runs, and it does so before it reads.         *)
(***************************************************************************)
LEMMA NextWakes ==
    ASSUME ThreadsOK, WakeupNotLost, [Next]_vars
    PROVE  WakeupNotLost'
<1> USE DEF WakeupNotLost
<1>1. CASE Worker
  <2>1. worker \in WorkerState
    BY DEF ThreadsOK
  <2>2. ASSUME NEW send, run_maintain(send) PROVE WakeupNotLost'
    <3>1. /\ worker' = [worker EXCEPT !.at = "poll", !.remains = events # <<>> \/ upgrades # <<>>]
          /\ events' = events /\ upgrades' = upgrades
      BY <2>2 DEF run_maintain
    <3>2. worker'.remains = (events # <<>> \/ upgrades # <<>>)
      BY <2>1, <3>1 DEF WorkerState
    <3> QED BY <3>1, <3>2
  <2>3. CASE run_test \/ drain_worker_signal \/ run_fills \/ run_upgrades \/ poll_quiet
    <3>1. worker'.at # "poll"
      BY <2>1, <2>3 DEF run_test, drain_worker_signal, run_fills, run_upgrades, poll_quiet,
         WorkerState
    <3> QED BY <3>1
  <2> QED BY <1>1, <2>2, <2>3
<1>2. CASE Peers
  <2>1. worker'.at # "poll"
    BY <1>2 DEF poll_ready, ThreadsOK, WorkerState
  <2> QED BY <2>1
<1>3. CASE Http
  BY <1>3 DEF upgrade_exhausted, upgrade_reserve, upgrade_push, upgrade_signal, upgrade_release,
     ThreadsOK
<1>4. CASE Exec
  BY <1>4 DEF publish_push, publish_signal, publish_release, ThreadsOK
<1>5. CASE Control
  <2>1. CASE stop_drained
    BY <2>1 DEF stop_drained
  <2>2. CASE stop_joined
    BY <2>2 DEF stop_joined
  <2>3. CASE start
    BY <2>3 DEF start
  <2>4. CASE start_open
    BY <2>4 DEF start_open
  <2> QED BY <1>5, <2>1, <2>2, <2>3, <2>4
<1>6. CASE stop_close
  BY <1>6 DEF stop_close
<1>7. ASSUME NEW u, upgrade_lease(u) PROVE WakeupNotLost'
  BY <1>7 DEF upgrade_lease
<1>8. ASSUME NEW id, publish_lease(id) PROVE WakeupNotLost'
  BY <1>8 DEF publish_lease
<1>9. ASSUME NEW far, elapse(far) PROVE WakeupNotLost'
  <2>1. /\ worker' = [worker EXCEPT !.filled = FALSE]
        /\ UNCHANGED <<events, upgrades, pipe, http, exec>>
    BY <1>9 DEF elapse
  <2>2. worker'.at = worker.at /\ worker'.remains = worker.remains
    BY <2>1 DEF ThreadsOK, WorkerState
  <2> QED BY <2>1, <2>2
<1>10. CASE UNCHANGED vars
  BY <1>10 DEF vars
<1> QED BY <1>1, <1>2, <1>3, <1>4, <1>5, <1>6, <1>7, <1>8, <1>9, <1>10 DEF Next

LEMMA InitWakes == Init => WakeupNotLost
BY DEF Init, WakeupNotLost

\* A worker that sleeps in poll() believing its queues empty is woken for every
\* fill and every upgrade pushed since, whatever the producers do between the
\* worker's last look and its poll() and however stop() and start() interleave.
THEOREM WakeupNeverLost == Spec => []WakeupNotLost
<1>1. ThreadsOK /\ WakeupNotLost /\ [Next]_vars => (ThreadsOK /\ WakeupNotLost)'
  BY NextThreads, NextWakes
<1> QED BY <1>1, InitThreads, InitWakes, PTL DEF Spec

-----------------------------------------------------------------------------
(***************************************************************************)
(* Stopping.  The admission words are closed from stop_close to start_open,*)
(* so the producers that have left stay out; running_ is cleared behind    *)
(* them, so the worker that has been joined stays gone.                    *)
(***************************************************************************)
StopOrder ==
    /\ control.at \in {"started", "draining", "joining", "stopped", "opening"}
    /\ control.at # "started" => closed
    /\ control.at \in {"joining", "stopped", "opening"} => http.at = "idle" /\ exec.at = "idle"
    /\ control.at \in {"joining", "stopped"} => ~running
    /\ control.at = "stopped" =>
          worker.at = "exited" /\ upgrades = <<>> /\ events = <<>> /\ srv = EmptyPool

LEMMA InitStopOrder == Init => StopOrder
BY DEF Init, StopOrder

LEMMA NextStopOrder ==
    ASSUME ThreadsOK, StopOrder, [Next]_vars
    PROVE  StopOrder'
<1> USE DEF StopOrder
<1>0. env' = env
  BY DEF Next, vars, run_test, drain_worker_signal, run_fills, run_upgrades, run_maintain,
     poll_quiet, poll_ready, upgrade_exhausted, upgrade_reserve, upgrade_push, upgrade_signal,
     upgrade_release, publish_push, publish_signal, publish_release, stop_drained, stop_joined,
     start, start_open, stop_close, upgrade_lease, publish_lease, elapse
<1>e. EmptyPool' = EmptyPool
  BY <1>0 DEF EmptyPool, Slots, FreeConnection, EmptyBucket, Nil, BucketIndex
<1>1. CASE Worker
  <2>1. worker.at # "exited" /\ UNCHANGED <<http, exec, closed, running, control>>
    BY <1>1 DEF run_test, drain_worker_signal, run_fills, run_upgrades, run_maintain, poll_quiet
  <2> QED BY <2>1
<1>2. CASE Peers
  <2>1. worker.at # "exited" /\ UNCHANGED <<http, exec, closed, running, control>>
    BY <1>2 DEF poll_ready
  <2> QED BY <2>1
<1>3. CASE Http
  <2>1. http.at # "idle" /\ UNCHANGED <<exec, closed, running, control>>
    BY <1>3 DEF upgrade_exhausted, upgrade_reserve, upgrade_push, upgrade_signal, upgrade_release
  <2> QED BY <2>1
<1>4. CASE Exec
  <2>1. exec.at # "idle" /\ UNCHANGED <<http, closed, running, control>>
    BY <1>4 DEF publish_push, publish_signal, publish_release
  <2> QED BY <2>1
<1>5. CASE Control
  <2>0. control = [at |-> control.at, stops |-> control.stops]
    BY DEF ThreadsOK
  <2>1. CASE stop_drained
    <3>1. control'.at = "joining"
      BY <2>0, <2>1 DEF stop_drained
    <3> QED BY <2>1, <3>1 DEF stop_drained
  <2>2. CASE stop_joined
    <3>1. control'.at = "stopped"
      BY <2>0, <2>2 DEF stop_joined
    <3> QED BY <1>e, <2>2, <3>1 DEF stop_joined
  <2>3. CASE start
    <3>1. control'.at = "opening"
      BY <2>0, <2>3 DEF start
    <3> QED BY <2>3, <3>1 DEF start
  <2>4. CASE start_open
    <3>1. control'.at = "started"
      BY <2>0, <2>4 DEF start_open
    <3> QED BY <3>1
  <2> QED BY <1>5, <2>1, <2>2, <2>3, <2>4
<1>6. CASE stop_close
  <2>1. control'.at = "draining"
    BY <1>6 DEF stop_close
  <2> QED BY <1>6, <2>1 DEF stop_close
<1>7. ASSUME NEW u, upgrade_lease(u) PROVE StopOrder'
  <2>1. ~closed /\ UNCHANGED <<closed, control>>
    BY <1>7 DEF upgrade_lease
  <2> QED BY <2>1
<1>8. ASSUME NEW id, publish_lease(id) PROVE StopOrder'
  <2>1. ~closed /\ UNCHANGED <<closed, control>>
    BY <1>8 DEF publish_lease
  <2> QED BY <2>1
<1>9. ASSUME NEW far, elapse(far) PROVE StopOrder'
  <2>1. running /\ UNCHANGED <<http, exec, closed, running, control>>
    BY <1>9 DEF elapse
  <2> QED BY <2>1
<1>10. CASE UNCHANGED vars
  BY <1>10, <1>e DEF vars
<1> QED BY <1>1, <1>2, <1>3, <1>4, <1>5, <1>6, <1>7, <1>8, <1>9, <1>10 DEF Next

LEMMA StopOrderQuiet == StopOrder => StoppedIsQuiet
<1> SUFFICES ASSUME StopOrder, control.at = "stopped"
             PROVE  /\ http.at = "idle" /\ exec.at = "idle" /\ worker.at = "exited"
                    /\ upgrades = <<>> /\ events = <<>> /\ OpenSlots = {} /\ srv.reserved = 0
  BY DEF StoppedIsQuiet
<1>1. srv = EmptyPool
  BY DEF StopOrder
<1>2. OpenSlots = {}
  BY <1>1 DEF OpenSlots, EmptyPool, FreeConnection
<1>3. srv.reserved = 0
  BY <1>1 DEF EmptyPool
<1> QED BY <1>2, <1>3 DEF StopOrder

\* Once stop() has returned no producer is inside, nothing is left in a ring
\* and no place of the pool is held, also when it races with an upgrade, with
\* a fill and with the worker's turn, and however often the server is started.
THEOREM StopIsFinal == Spec => []StoppedIsQuiet
<1>1. ThreadsOK /\ StopOrder /\ [Next]_vars => (ThreadsOK /\ StopOrder)'
  BY NextThreads, NextStopOrder
<1>2. Spec => [](ThreadsOK /\ StopOrder)
  BY <1>1, InitThreads, InitStopOrder, PTL DEF Spec
<1> QED BY <1>2, StopOrderQuiet, PTL

-----------------------------------------------------------------------------
(***************************************************************************)
(* The server's record.                                                    *)
(***************************************************************************)
EnvOK == env \in Environments

Connection ==
    [open : BOOLEAN, id : Ids \cup {0}, unread : Seq(Frames), out : Nat,
     blocked : {"no", "new", "late"}, closing : BOOLEAN, ping : {"early", "due", "sent", "late"},
     bucket : BucketIndex \cup {Nil}, prev : Slots \cup {Nil}, next : Slots \cup {Nil}]

Bucket == [state : {"empty", "occupied", "tombstone"}, id : Ids \cup {0}, head : Slots \cup {Nil}]

Pool == [conn : [Slots -> Connection], sub : [BucketIndex -> Bucket], reserved : Int, active : Int]

LEMMA EnvTypes ==
    ASSUME EnvOK
    PROVE  /\ env.slots \in Nat /\ Buckets \in Nat /\ Buckets > 0 /\ Nil \in Nat
           /\ Nil \notin Slots /\ Nil \notin BucketIndex
           /\ Slots \subseteq Nat /\ BucketIndex \subseteq Nat
           /\ IsFiniteSet(Slots) /\ Cardinality(Slots) = env.slots
<1>1. env.slots \in Nat
  BY WebSocketAssumption DEF EnvOK
<1>2. Buckets \in Nat /\ Buckets > 0
  BY WebSocketAssumption
<1>3. IsFiniteSet(Slots) /\ Cardinality(Slots) = env.slots
  <2>1. Slots = 0 .. env.slots - 1
    BY DEF Slots
  <2>2. /\ IsFiniteSet(0 .. env.slots - 1)
        /\ Cardinality(0 .. env.slots - 1) =
              IF 0 > env.slots - 1 THEN 0 ELSE (env.slots - 1) - 0 + 1
    <3> DEFINE top == env.slots - 1
    <3>1. top \in Int /\ 0 \in Int
      BY <1>1
    <3> HIDE DEF top
    <3>2. /\ IsFiniteSet(0 .. top)
          /\ Cardinality(0 .. top) = IF 0 > top THEN 0 ELSE top - 0 + 1
      BY ONLY <3>1, FS_Interval, Zenon
    <3> QED BY <3>2, Zenon DEF top
  <2>3. (IF 0 > env.slots - 1 THEN 0 ELSE (env.slots - 1) - 0 + 1) = env.slots
    BY <1>1
  <2> QED BY <2>1, <2>2, <2>3, Zenon
<1>4. Nil \in Nat /\ Nil \notin Slots /\ Nil \notin BucketIndex
  BY <1>1, <1>2 DEF Nil, Slots, BucketIndex
<1>5. Slots \subseteq Nat /\ BucketIndex \subseteq Nat
  BY <1>1, <1>2 DEF Slots, BucketIndex
<1> QED BY <1>1, <1>2, <1>3, <1>4, <1>5

LEMMA FreeType == FreeConnection \in Connection
<1>1. <<>> \in Seq(Frames)
  OBVIOUS
<1> QED BY <1>1 DEF FreeConnection, Connection

\* What one step on the frames of a connection may do to the pool: nothing that
\* the index and the counts depend on,
Linked(k, m) ==
    m.open = k.open /\ m.id = k.id /\ m.bucket = k.bucket /\ m.prev = k.prev /\ m.next = k.next

IdleKept(s, t) == \A d \in Slots : ~s.conn[d].open => t.conn[d] = s.conn[d]

Same(s, t) ==
    /\ t \in Pool /\ t.sub = s.sub /\ t.reserved = s.reserved /\ t.active = s.active
    /\ \A d \in Slots : Linked(s.conn[d], t.conn[d])
    /\ IdleKept(s, t)

\* or close it: the head of its bucket, the bucket and the neighbours behind it.
HeadAfter(sub, k, c) ==
    IF k.prev # Nil THEN sub[k.bucket].head
    ELSE IF sub[k.bucket].head = c THEN k.next ELSE sub[k.bucket].head

SubAfter(sub, k, c) ==
    IF k.bucket = Nil THEN sub
    ELSE [sub EXCEPT ![k.bucket] =
             [state |-> IF HeadAfter(sub, k, c) = Nil THEN "tombstone" ELSE sub[k.bucket].state,
              id |-> sub[k.bucket].id, head |-> HeadAfter(sub, k, c)]]

Relinked(k, d, m, n) ==
    /\ n.open = m.open /\ n.id = m.id /\ n.bucket = m.bucket
    /\ n.next = IF k.bucket # Nil /\ d = k.prev THEN k.next ELSE m.next
    /\ n.prev = IF k.bucket # Nil /\ d = k.next THEN k.prev ELSE m.prev

Gone(s, t, c) ==
    /\ t \in Pool /\ s.conn[c].open /\ t.conn[c] = FreeConnection
    /\ t.reserved = s.reserved - 1 /\ t.active = s.active - 1
    /\ t.sub = SubAfter(s.sub, s.conn[c], c)
    /\ \A d \in Slots : d # c => Relinked(s.conn[c], d, s.conn[d], t.conn[d])

Touched(s, t, c) == Same(s, t) \/ Gone(s, t, c)

LEMMA ConnectionOf ==
    ASSUME NEW s \in Pool, NEW c \in Slots
    PROVE  /\ s.conn[c] \in Connection /\ s.conn \in [Slots -> Connection]
           /\ s.sub \in [BucketIndex -> Bucket] /\ s.reserved \in Int /\ s.active \in Int
           /\ s.conn[c].prev \in Slots \cup {Nil} /\ s.conn[c].next \in Slots \cup {Nil}
           /\ s.conn[c].bucket \in BucketIndex \cup {Nil}
           /\ s.conn[c].unread \in Seq(Frames) /\ s.conn[c].out \in Nat
<1>1. /\ s.conn \in [Slots -> Connection] /\ s.sub \in [BucketIndex -> Bucket]
      /\ s.reserved \in Int /\ s.active \in Int
  BY DEF Pool
<1>2. s.conn[c] \in Connection
  BY <1>1
<1> DEFINE k == s.conn[c]
<1>3. /\ k.prev \in Slots \cup {Nil} /\ k.next \in Slots \cup {Nil}
      /\ k.bucket \in BucketIndex \cup {Nil} /\ k.unread \in Seq(Frames) /\ k.out \in Nat
  <2>1. k \in Connection
    BY <1>2
  <2> HIDE DEF k
  <2> QED BY <2>1 DEF Connection
<1> QED BY <1>1, <1>2, <1>3

\* A change of one open connection that leaves its links alone.
LEMMA OneSame ==
    ASSUME NEW s \in Pool, NEW c \in Slots, s.conn[c].open,
           NEW k \in Connection, Linked(s.conn[c], k),
           NEW t, t = [s EXCEPT !.conn[c] = k]
    PROVE  Same(s, t) /\ t.conn[c] = k /\ \A d \in Slots : d # c => t.conn[d] = s.conn[d]
<1>1. /\ s.conn \in [Slots -> Connection] /\ s.sub \in [BucketIndex -> Bucket]
      /\ s.reserved \in Int /\ s.active \in Int
  BY ConnectionOf
<1>2. /\ t.conn = [s.conn EXCEPT ![c] = k] /\ t.sub = s.sub
      /\ t.reserved = s.reserved /\ t.active = s.active
      /\ t = [conn |-> t.conn, sub |-> t.sub, reserved |-> t.reserved, active |-> t.active]
  BY DEF Pool
<1>3. t.conn \in [Slots -> Connection]
  BY <1>1, <1>2
<1>4. t \in Pool
  <2> DEFINE w == t.conn
  <2>1. t = [conn |-> w, sub |-> s.sub, reserved |-> s.reserved, active |-> s.active]
    BY <1>2
  <2>2. w \in [Slots -> Connection]
    BY <1>3
  <2> HIDE DEF w
  <2> QED BY ONLY <1>1, <2>1, <2>2 DEF Pool
<1>5. t.conn[c] = k /\ \A d \in Slots : d # c => t.conn[d] = s.conn[d]
  BY <1>1, <1>2
<1>6. \A d \in Slots : Linked(s.conn[d], t.conn[d])
  <2> SUFFICES ASSUME NEW d \in Slots PROVE Linked(s.conn[d], t.conn[d])
    OBVIOUS
  <2>1. CASE d = c
    BY <1>5, <2>1
  <2>2. CASE d # c
    BY <1>5, <2>2 DEF Linked
  <2> QED BY <2>1, <2>2
<1>7. IdleKept(s, t)
  BY <1>5 DEF IdleKept
<1> QED BY <1>2, <1>4, <1>5, <1>6, <1>7 DEF Same

\* close() takes the connection out of its list, its bucket and the counts.
LEMMA ClosedGone ==
    ASSUME EnvOK, NEW s \in Pool, NEW c \in Slots, s.conn[c].open
    PROVE  Gone(s, close(s, c), c)
<1> DEFINE k == s.conn[c]
           b == k.bucket
           head == HeadAfter(s.sub, k, c)
           before == IF k.prev = Nil THEN s.conn ELSE [s.conn EXCEPT ![k.prev].next = k.next]
           after == IF k.next = Nil THEN before ELSE [before EXCEPT ![k.next].prev = k.prev]
           u == unsubscribe(s, c)
           t == close(s, c)
<1>1. /\ k \in Connection /\ s.conn \in [Slots -> Connection]
      /\ s.sub \in [BucketIndex -> Bucket] /\ s.reserved \in Int /\ s.active \in Int
      /\ k.prev \in Slots \cup {Nil} /\ k.next \in Slots \cup {Nil} /\ b \in BucketIndex \cup {Nil}
  BY ConnectionOf
<1>2. Nil \notin Slots /\ Nil \notin BucketIndex
  BY EnvTypes
<1>3. t = [u EXCEPT !.conn[c] = FreeConnection, !.active = @ - 1, !.reserved = @ - 1]
  BY DEF close
<1>4. /\ before \in [Slots -> Connection]
      /\ \A d \in Slots :
            /\ before[d].open = s.conn[d].open /\ before[d].id = s.conn[d].id
            /\ before[d].bucket = s.conn[d].bucket /\ before[d].prev = s.conn[d].prev
            /\ before[d].next = IF d = k.prev THEN k.next ELSE s.conn[d].next
  <2>1. CASE k.prev = Nil
    BY <1>1, <1>2, <2>1
  <2>2. CASE k.prev # Nil
    <3> DEFINE p == k.prev
               m == [s.conn[p] EXCEPT !.next = k.next]
    <3>1. p \in Slots /\ s.conn[p] \in Connection
      BY <1>1, <2>2
    <3>2. /\ m \in Connection /\ m.open = s.conn[p].open /\ m.id = s.conn[p].id
          /\ m.bucket = s.conn[p].bucket /\ m.prev = s.conn[p].prev /\ m.next = k.next
      BY <1>1, <3>1 DEF Connection
    <3>3. before = [s.conn EXCEPT ![p] = m]
      BY <1>1, <2>2
    <3> HIDE DEF m, before
    <3> QED BY <1>1, <3>1, <3>2, <3>3
  <2> QED BY <2>1, <2>2
<1> HIDE DEF before
<1>5. /\ after \in [Slots -> Connection]
      /\ \A d \in Slots :
            /\ after[d].open = s.conn[d].open /\ after[d].id = s.conn[d].id
            /\ after[d].bucket = s.conn[d].bucket
            /\ after[d].next = IF d = k.prev THEN k.next ELSE s.conn[d].next
            /\ after[d].prev = IF d = k.next THEN k.prev ELSE s.conn[d].prev
  <2>1. CASE k.next = Nil
    BY <1>1, <1>2, <1>4, <2>1
  <2>2. CASE k.next # Nil
    <3> DEFINE p == k.next
               m == [before[p] EXCEPT !.prev = k.prev]
    <3>1. p \in Slots /\ before[p] \in Connection
      BY <1>1, <1>4, <2>2
    <3>2. /\ m \in Connection /\ m.open = before[p].open /\ m.id = before[p].id
          /\ m.bucket = before[p].bucket /\ m.next = before[p].next /\ m.prev = k.prev
      BY <1>1, <3>1 DEF Connection
    <3>3. after = [before EXCEPT ![p] = m]
      BY <1>4, <2>2
    <3> HIDE DEF m, after
    <3> QED BY <1>1, <1>4, <3>1, <3>2, <3>3
  <2> QED BY <2>1, <2>2
<1>6. CASE b = Nil
  <2>1. u = s
    BY <1>6 DEF unsubscribe
  <2>2. /\ t.conn = [s.conn EXCEPT ![c] = FreeConnection] /\ t.sub = s.sub
        /\ t.reserved = s.reserved - 1 /\ t.active = s.active - 1
        /\ t = [conn |-> t.conn, sub |-> t.sub, reserved |-> t.reserved, active |-> t.active]
    BY <1>3, <2>1 DEF Pool
  <2> HIDE DEF t
  <2>3. t \in Pool
    BY <1>1, <2>2, FreeType DEF Pool
  <2>4. t.conn[c] = FreeConnection /\ \A d \in Slots : d # c => t.conn[d] = s.conn[d]
    BY <1>1, <2>2
  <2>5. \A d \in Slots : d # c => Relinked(k, d, s.conn[d], t.conn[d])
    BY <1>6, <2>4 DEF Relinked
  <2>6. t.sub = SubAfter(s.sub, k, c)
    BY <1>6, <2>2 DEF SubAfter
  <2> QED BY <2>2, <2>3, <2>4, <2>5, <2>6 DEF Gone, t
<1>7. CASE b # Nil
  <2> DEFINE conn == [after EXCEPT ![c].bucket = Nil, ![c].prev = Nil, ![c].next = Nil]
             sub == [s.sub EXCEPT ![b].head = head,
                                  ![b].state = IF head = Nil THEN "tombstone" ELSE @]
  <2>0. u = [s EXCEPT !.conn = conn, !.sub[b].head = head,
                      !.sub[b].state = IF head = Nil THEN "tombstone" ELSE @]
    BY <1>7 DEF unsubscribe, HeadAfter, before
  <2>1. /\ u.conn = conn /\ u.sub = sub /\ u.reserved = s.reserved /\ u.active = s.active
        /\ u = [conn |-> u.conn, sub |-> u.sub, reserved |-> u.reserved, active |-> u.active]
    <3> HIDE DEF conn, head, u, k
    <3> QED BY <2>0 DEF Pool
  <2>2. b \in BucketIndex /\ s.sub[b] \in Bucket
    BY <1>1, <1>7
  <2>3. head \in Slots \cup {Nil}
    BY <1>1, <2>2 DEF HeadAfter, Bucket
  <2>4. sub = SubAfter(s.sub, k, c) /\ sub \in [BucketIndex -> Bucket]
    <3> DEFINE B == [state |-> IF head = Nil THEN "tombstone" ELSE s.sub[b].state,
                     id |-> s.sub[b].id, head |-> head]
    <3>1. B \in Bucket
      BY <2>2, <2>3 DEF Bucket
    <3>2. sub = [s.sub EXCEPT ![b] = B]
      <4>1. [s.sub[b] EXCEPT !.head = head, !.state = IF head = Nil THEN "tombstone" ELSE @] = B
        <5> DEFINE r == s.sub[b]
                   y == IF head = Nil THEN "tombstone" ELSE r.state
        <5>1. r \in Bucket
          BY <2>2
        <5>2. [r EXCEPT !.head = head, !.state = y] = [state |-> y, id |-> r.id, head |-> head]
          <6> DEFINE q == [r EXCEPT !.head = head, !.state = y]
          <6> HIDE DEF r, y, head
          <6>1. q = [r EXCEPT !.head = head, !.state = y]
            OBVIOUS
          <6> HIDE DEF q
          <6>2. q = [state |-> y, id |-> r.id, head |-> head]
            BY ONLY <5>1, <6>1 DEF Bucket
          <6> QED BY <6>1, <6>2
        <5> QED BY <5>2
      <4>2. sub = [s.sub EXCEPT ![b] = [s.sub[b] EXCEPT !.head = head,
                                                        !.state = IF head = Nil THEN "tombstone" ELSE @]]
        <5> HIDE DEF head, b
        <5> QED BY <1>1, <2>2 DEF sub
      <4> HIDE DEF B, sub
      <4> QED BY <4>1, <4>2
    <3>3. SubAfter(s.sub, k, c) = [s.sub EXCEPT ![b] = B]
      BY <1>7 DEF SubAfter
    <3> HIDE DEF B, sub
    <3> QED BY <1>1, <3>1, <3>2, <3>3
  <2> HIDE DEF sub
  <2>5. /\ DOMAIN conn = Slots
        /\ \A d \in Slots : d # c => conn[d] = after[d]
    BY <1>5
  <2>6. /\ t.conn = [conn EXCEPT ![c] = FreeConnection] /\ t.sub = sub
        /\ t.reserved = s.reserved - 1 /\ t.active = s.active - 1
        /\ t = [conn |-> t.conn, sub |-> t.sub, reserved |-> t.reserved, active |-> t.active]
    <3> HIDE DEF u, conn, sub
    <3> QED BY <1>3, <2>1
  <2> HIDE DEF t, conn, after
  <2>7. t.conn[c] = FreeConnection /\ \A d \in Slots : d # c => t.conn[d] = after[d]
    BY <2>5, <2>6
  <2>8. t.conn \in [Slots -> Connection]
    <3>1. DOMAIN t.conn = Slots /\ t.conn = [d \in DOMAIN t.conn |-> t.conn[d]]
      BY <2>5, <2>6
    <3>2. \A d \in Slots : t.conn[d] \in Connection
      BY <1>5, <2>7, FreeType
    <3> QED BY <3>1, <3>2
  <2>9. t \in Pool
    BY <1>1, <2>4, <2>6, <2>8 DEF Pool
  <2>10. \A d \in Slots : d # c => Relinked(k, d, s.conn[d], t.conn[d])
    BY <1>5, <1>7, <2>7 DEF Relinked
  <2> QED BY <2>4, <2>6, <2>7, <2>9, <2>10 DEF Gone, t
<1> QED BY <1>6, <1>7

LEMMA SameRefl ==
    ASSUME NEW s \in Pool
    PROVE  Same(s, s)
BY DEF Same, Linked, IdleKept

LEMMA TouchedTrans ==
    ASSUME EnvOK, NEW s, NEW m, NEW t, NEW c \in Slots, Touched(s, m, c), Touched(m, t, c)
    PROVE  Touched(s, t, c)
<1>1. CASE Same(s, m) /\ Same(m, t)
  <2>1. \A d \in Slots : Linked(s.conn[d], t.conn[d])
    BY <1>1 DEF Same, Linked
  <2>2. IdleKept(s, t)
    <3> SUFFICES ASSUME NEW d \in Slots, ~s.conn[d].open PROVE t.conn[d] = s.conn[d]
      BY DEF IdleKept
    <3>1. m.conn[d] = s.conn[d]
      BY <1>1 DEF Same, IdleKept
    <3> QED BY <1>1, <3>1 DEF Same, IdleKept
  <2>3. t \in Pool /\ t.sub = s.sub /\ t.reserved = s.reserved /\ t.active = s.active
    BY <1>1 DEF Same
  <2> QED BY <2>1, <2>2, <2>3 DEF Same, Touched
<1>2. CASE Same(s, m) /\ Gone(m, t, c)
  <2> DEFINE k == s.conn[c]
             j == m.conn[c]
  <2>1. /\ j.open = k.open /\ j.bucket = k.bucket /\ j.prev = k.prev /\ j.next = k.next
        /\ m.sub = s.sub /\ m.reserved = s.reserved /\ m.active = s.active
    BY <1>2 DEF Same, Linked
  <2>2. /\ t \in Pool /\ j.open /\ t.conn[c] = FreeConnection
        /\ t.reserved = m.reserved - 1 /\ t.active = m.active - 1
        /\ t.sub = SubAfter(m.sub, j, c)
        /\ \A d \in Slots : d # c => Relinked(j, d, m.conn[d], t.conn[d])
    BY <1>2 DEF Gone
  <2>3. \A d \in Slots : Linked(s.conn[d], m.conn[d])
    BY <1>2 DEF Same
  <2> HIDE DEF k, j
  <2>4. SubAfter(m.sub, j, c) = SubAfter(s.sub, k, c)
    BY <2>1 DEF SubAfter, HeadAfter
  <2>5. \A d \in Slots : d # c => Relinked(k, d, s.conn[d], t.conn[d])
    BY <2>1, <2>2, <2>3 DEF Relinked, Linked
  <2>6. Gone(s, t, c)
    BY <2>1, <2>2, <2>4, <2>5 DEF Gone, k
  <2> QED BY <2>6 DEF Touched
<1>3. CASE Gone(s, m, c) /\ Same(m, t)
  <2>1. /\ m.conn[c] = FreeConnection /\ s.conn[c].open /\ m.sub = SubAfter(s.sub, s.conn[c], c)
        /\ m.reserved = s.reserved - 1 /\ m.active = s.active - 1
        /\ \A d \in Slots : d # c => Relinked(s.conn[c], d, s.conn[d], m.conn[d])
    BY <1>3 DEF Gone
  <2>2. /\ t \in Pool /\ t.sub = m.sub /\ t.reserved = m.reserved /\ t.active = m.active
        /\ \A d \in Slots : Linked(m.conn[d], t.conn[d])
        /\ IdleKept(m, t)
    BY <1>3 DEF Same
  <2>3. t.conn[c] = FreeConnection
    BY <2>1, <2>2 DEF FreeConnection, IdleKept
  <2>4. \A d \in Slots : d # c => Relinked(s.conn[c], d, s.conn[d], t.conn[d])
    BY <2>1, <2>2 DEF Relinked, Linked
  <2>5. Gone(s, t, c)
    BY <2>1, <2>2, <2>3, <2>4 DEF Gone
  <2> QED BY <2>5 DEF Touched
<1>4. CASE Gone(s, m, c) /\ Gone(m, t, c)
  BY <1>4 DEF Gone, FreeConnection
<1> QED BY <1>1, <1>2, <1>3, <1>4 DEF Touched

-----------------------------------------------------------------------------
(***************************************************************************)
(* The methods that work on one open connection.                           *)
(***************************************************************************)
LEMMA SameOpen ==
    ASSUME NEW s, NEW t, NEW c \in Slots, s.conn[c].open, Same(s, t)
    PROVE  t \in Pool /\ t.conn[c].open /\ Touched(s, t, c)
BY DEF Same, Linked, Touched

LEMMA ClosedTouched ==
    ASSUME EnvOK, NEW s \in Pool, NEW c \in Slots
    PROVE  Touched(s, close(s, c), c)
<1>1. CASE s.conn[c].open
  BY <1>1, ClosedGone DEF Touched
<1>2. CASE ~s.conn[c].open
  <2>1. close(s, c) = s
    BY <1>2 DEF close
  <2> QED BY <2>1, SameRefl DEF Touched
<1> QED BY <1>1, <1>2

LEMMA QueuedSame ==
    ASSUME NEW s \in Pool, NEW c \in Slots, s.conn[c].open
    PROVE  Same(s, queue_frame(s, c))
<1> DEFINE j == s.conn[c]
           k == [j EXCEPT !.out = @ + 1]
           t == queue_frame(s, c)
<1>1. j \in Connection /\ j.out + 1 \in Nat
  BY ConnectionOf
<1>2. k \in Connection /\ Linked(j, k)
  <2> HIDE DEF j
  <2> QED BY <1>1 DEF Connection, Linked
<1>3. t = [s EXCEPT !.conn[c] = k]
  BY DEF queue_frame
<1> HIDE DEF k, t
<1>4. Same(s, t)
  BY <1>2, <1>3, OneSame
<1> QED BY <1>4 DEF t

LEMMA CloseCodeTouched ==
    ASSUME EnvOK, NEW s \in Pool, NEW c \in Slots, s.conn[c].open
    PROVE  Touched(s, close_with_code(s, c), c)
<1>1. CASE HasRoom(s, c)
  <2> DEFINE m == queue_frame(s, c)
             k == [m.conn[c] EXCEPT !.closing = TRUE]
             t == [m EXCEPT !.conn[c].closing = TRUE]
  <2>1. m \in Pool /\ m.conn[c].open /\ Touched(s, m, c)
    BY QueuedSame, SameOpen
  <2>2. close_with_code(s, c) = t
    BY <1>1 DEF close_with_code
  <2> HIDE DEF m
  <2>3. m.conn[c] \in Connection
    BY <2>1, ConnectionOf
  <2>4. k \in Connection /\ Linked(m.conn[c], k)
    BY <2>3 DEF Connection, Linked
  <2>5. t = [m EXCEPT !.conn[c] = k]
    OBVIOUS
  <2> HIDE DEF k, t
  <2>6. Same(m, t)
    BY <2>1, <2>4, <2>5, OneSame
  <2>7. Touched(m, t, c)
    BY <2>6 DEF Touched
  <2> QED BY <2>1, <2>2, <2>7, TouchedTrans
<1>2. CASE ~HasRoom(s, c)
  <2>1. close_with_code(s, c) = close(s, c)
    BY <1>2 DEF close_with_code
  <2> QED BY <2>1, ClosedTouched
<1> QED BY <1>1, <1>2

LEMMA SentTouched ==
    ASSUME EnvOK, NEW s \in Pool, NEW c \in Slots, s.conn[c].open, NEW send
    PROVE  Touched(s, Sent(s, c, send), c)
<1> DEFINE k == s.conn[c]
           all == [k EXCEPT !.out = 0, !.blocked = "no"]
           part == [k EXCEPT !.out = @ - 1, !.blocked = "new"]
           wait == [k EXCEPT !.blocked = "new"]
           t == Sent(s, c, send)
<1>1. k \in Connection /\ k.out \in Nat
  BY ConnectionOf
<1>2. /\ all \in Connection /\ Linked(k, all) /\ wait \in Connection /\ Linked(k, wait)
      /\ k.out > 1 => part \in Connection /\ Linked(k, part)
  <2> HIDE DEF k
  <2>1. all \in Connection /\ Linked(k, all)
    BY <1>1 DEF Connection, Linked
  <2>2. wait \in Connection /\ Linked(k, wait)
    BY <1>1 DEF Connection, Linked
  <2>3. ASSUME k.out > 1 PROVE part \in Connection /\ Linked(k, part)
    <3>1. k.out - 1 \in Nat
      BY <1>1, <2>3
    <3> QED BY <1>1, <3>1 DEF Connection, Linked
  <2> QED BY <2>1, <2>2, <2>3
<1>3. \/ t = close(s, c)
      \/ t = [s EXCEPT !.conn[c] = all]
      \/ k.out > 1 /\ t = [s EXCEPT !.conn[c] = part]
      \/ t = [s EXCEPT !.conn[c] = wait]
  <2>1. CASE send = "all"
    <3>1. t = IF k.closing THEN close(s, c)
              ELSE [s EXCEPT !.conn[c].out = 0, !.conn[c].blocked = "no"]
      BY <2>1 DEF Sent
    <3>2. [s EXCEPT !.conn[c].out = 0, !.conn[c].blocked = "no"] = [s EXCEPT !.conn[c] = all]
      BY ConnectionOf DEF Pool
    <3> HIDE DEF t, all
    <3> QED BY <3>1, <3>2
  <2>2. CASE send = "part" /\ k.out > 1
    <3>1. t = [s EXCEPT !.conn[c].out = @ - 1, !.conn[c].blocked = "new"]
      BY <2>2 DEF Sent
    <3>2. t = [s EXCEPT !.conn[c] = part]
      <4> HIDE DEF t
      <4> QED BY <3>1, ConnectionOf DEF Pool
    <3> QED BY <2>2, <3>2
  <2>3. CASE send # "all" /\ ~(send = "part" /\ k.out > 1) /\ send = "error"
    <3>1. t = close(s, c)
      BY <2>3 DEF Sent
    <3> QED BY <3>1
  <2>4. CASE send # "all" /\ ~(send = "part" /\ k.out > 1) /\ send # "error"
    <3>1. t = IF k.blocked = "late" THEN close(s, c) ELSE [s EXCEPT !.conn[c].blocked = "new"]
      BY <2>4 DEF Sent
    <3>2. [s EXCEPT !.conn[c].blocked = "new"] = [s EXCEPT !.conn[c] = wait]
      OBVIOUS
    <3> HIDE DEF t, wait
    <3> QED BY <3>1, <3>2
  <2> QED BY <2>1, <2>2, <2>3, <2>4
<1> HIDE DEF t, all, part, wait, k
<1>4. Linked(k, all) => Linked(s.conn[c], all)
  BY DEF k
<1>5. CASE t = close(s, c)
  BY <1>5, ClosedTouched DEF t
<1>6. CASE t = [s EXCEPT !.conn[c] = all]
  BY <1>2, <1>6, OneSame DEF t, k, Touched
<1>7. CASE k.out > 1 /\ t = [s EXCEPT !.conn[c] = part]
  BY <1>2, <1>7, OneSame DEF t, k, Touched
<1>8. CASE t = [s EXCEPT !.conn[c] = wait]
  BY <1>2, <1>8, OneSame DEF t, k, Touched
<1> QED BY <1>3, <1>5, <1>6, <1>7, <1>8

LEMMA FlushedTouched ==
    ASSUME EnvOK, NEW s \in Pool, NEW c \in Slots, s.conn[c].open, NEW send
    PROVE  Touched(s, flush(s, c, send), c)
<1>1. CASE Pending(s, c)
  <2>1. flush(s, c, send) = Sent(s, c, send)
    BY <1>1 DEF flush
  <2> QED BY <2>1, SentTouched
<1>2. CASE ~Pending(s, c) /\ s.conn[c].closing
  <2>1. flush(s, c, send) = close(s, c)
    BY <1>2 DEF flush
  <2> QED BY <2>1, ClosedTouched
<1>3. CASE ~Pending(s, c) /\ ~s.conn[c].closing
  <2> DEFINE k == [s.conn[c] EXCEPT !.blocked = "no"]
             t == flush(s, c, send)
  <2>1. t = [s EXCEPT !.conn[c] = k]
    BY <1>3 DEF flush
  <2>2. s.conn[c] \in Connection
    BY ConnectionOf
  <2>3. k \in Connection /\ Linked(s.conn[c], k)
    BY <2>2 DEF Connection, Linked
  <2> HIDE DEF k, t
  <2>4. Same(s, t)
    BY <2>1, <2>3, OneSame
  <2> QED BY <2>4 DEF Touched, t
<1> QED BY <1>1, <1>2, <1>3

\* A frame is read.
LEMMA ReadSame ==
    ASSUME NEW s \in Pool, NEW c \in Slots, s.conn[c].open, NEW frames \in Seq(Frames)
    PROVE  Same(s, [s EXCEPT !.conn[c].unread = frames])
<1> DEFINE k == [s.conn[c] EXCEPT !.unread = frames]
           t == [s EXCEPT !.conn[c].unread = frames]
<1>1. s.conn[c] \in Connection
  BY ConnectionOf
<1>2. k \in Connection /\ Linked(s.conn[c], k)
  BY <1>1 DEF Connection, Linked
<1>3. t = [s EXCEPT !.conn[c] = k]
  OBVIOUS
<1> HIDE DEF k, t
<1>4. Same(s, t)
  BY <1>2, <1>3, OneSame
<1> QED BY <1>4 DEF t

LEMMA FrameTouched ==
    ASSUME EnvOK, NEW s \in Pool, NEW c \in Slots, s.conn[c].open, s.conn[c].unread # <<>>
    PROVE  Touched(s, consume_frame(s, c), c)
<1> DEFINE q == s.conn[c].unread
           f == Head(q)
           rest == [s EXCEPT !.conn[c].unread = Tail(@)]
           t == consume_frame(s, c)
<1>1. q \in Seq(Frames) /\ q # <<>>
  BY ConnectionOf
<1>2. f \in Frames /\ Tail(q) \in Seq(Frames)
  <2> HIDE DEF q
  <2> QED BY <1>1, HeadTailProperties
<1>3. Same(s, rest)
  <2> DEFINE r == Tail(q)
  <2>1. rest = [s EXCEPT !.conn[c].unread = r]
    OBVIOUS
  <2>2. r \in Seq(Frames)
    BY <1>2
  <2> HIDE DEF r, rest
  <2> QED BY <2>1, <2>2, ReadSame
<1> HIDE DEF rest
<1>4. rest \in Pool /\ rest.conn[c].open /\ Touched(s, rest, c)
  BY <1>3, SameOpen
<1> HIDE DEF f
<1>5. CASE f = "close"
  <2>1. t = close_with_code(rest, c)
    BY <1>5 DEF consume_frame, f, rest
  <2>2. Touched(rest, t, c)
    BY <1>4, <2>1, CloseCodeTouched
  <2> HIDE DEF t
  <2>3. Touched(s, t, c)
    BY <1>4, <2>2, TouchedTrans
  <2> QED BY <2>3 DEF t
<1>6. CASE f = "ping"
  <2>1. t = IF HasRoom(s, c) THEN queue_frame(rest, c) ELSE close(s, c)
    BY <1>6 DEF consume_frame, f, rest
  <2>2. CASE HasRoom(s, c)
    <3>1. Same(rest, t)
      BY <1>4, <2>1, <2>2, QueuedSame
    <3>2. Touched(rest, t, c)
      BY <3>1 DEF Touched
    <3> HIDE DEF t
    <3>3. Touched(s, t, c)
      BY <1>4, <3>2, TouchedTrans
    <3> QED BY <3>3 DEF t
  <2>3. CASE ~HasRoom(s, c)
    BY <2>1, <2>3, ClosedTouched
  <2> QED BY <2>2, <2>3
<1>7. CASE f = "pong"
  <2> DEFINE j == rest.conn[c]
             k == [j EXCEPT !.ping = IF @ \in {"sent", "late"} THEN "early" ELSE @]
  <2>1. t = [rest EXCEPT !.conn[c].ping = IF @ \in {"sent", "late"} THEN "early" ELSE @]
    BY <1>7 DEF consume_frame, f, rest
  <2>2. t = [rest EXCEPT !.conn[c] = k]
    BY <2>1
  <2>3. j \in Connection
    BY <1>4, ConnectionOf
  <2>4. k \in Connection /\ Linked(j, k)
    <3> HIDE DEF j
    <3> QED BY <2>3 DEF Connection, Linked
  <2> HIDE DEF k, t
  <2>5. Same(rest, t)
    BY <1>4, <2>2, <2>4, OneSame
  <2>6. Touched(rest, t, c)
    BY <2>5 DEF Touched
  <2>7. Touched(s, t, c)
    BY <1>4, <2>6, TouchedTrans
  <2> QED BY <2>7 DEF t
<1>8. CASE f = "data"
  <2>1. t = rest
    BY <1>8 DEF consume_frame, f, rest
  <2> QED BY <1>4, <2>1
<1>9. CASE f = "bad"
  <2>1. t = close_with_code(s, c)
    BY <1>9 DEF consume_frame, f, rest
  <2> QED BY <2>1, CloseCodeTouched
<1> QED BY <1>2, <1>5, <1>6, <1>7, <1>8, <1>9 DEF Frames

\* The frames that are there are parsed one after the other.
LEMMA ConsumedTouched ==
    ASSUME EnvOK, NEW s \in Pool, NEW c \in Slots, s.conn[c].open
    PROVE  Touched(s, Consumed(s, c), c)
<1> DEFINE N == Len(s.conn[c].unread)
           T == {p \in Pool : Touched(s, p, c)}
           Turn(p, n) == IF p.conn[c].open THEN Parsed(p, c, n) ELSE p
           step == [n \in 1 .. N |-> [p \in T |-> Turn(p, n)]]
           body(g) == [n \in 0 .. N |-> IF n = 0 THEN s ELSE Parsed(g[n - 1], c, n)]
           turn == CHOOSE g : g = body(g)
<1>1. N \in Nat
  BY ConnectionOf, LenProperties
<1>2. s \in T
  BY SameRefl DEF Touched
<1>3. ASSUME NEW p \in Pool, NEW n, Touched(s, p, c), p.conn[c].open
      PROVE  Parsed(p, c, n) \in Pool /\ Touched(s, Parsed(p, c, n), c)
  <2> DEFINE q == Parsed(p, c, n)
  <2>1. Touched(p, q, c)
    <3>1. CASE q = p
      BY <3>1, SameRefl DEF Touched
    <3>2. CASE q # p
      <4>1. p.conn[c].unread # <<>> /\ q = consume_frame(p, c)
        BY <3>2 DEF Parsed
      <4> HIDE DEF q
      <4> QED BY <1>3, <4>1, FrameTouched
    <3> QED BY <3>1, <3>2
  <2> HIDE DEF q
  <2>2. Touched(s, q, c)
    BY <1>3, <2>1, TouchedTrans
  <2>3. q \in Pool
    BY <2>2 DEF Touched, Same, Gone
  <2> QED BY <2>2, <2>3 DEF q
<1>4. \A p \in T : \A n \in 1 .. N : Turn(p, n) \in T
  BY <1>3
<1> HIDE DEF T, N
<1>5. PICK f : Turns(f, step, T, s, N)
  <2>1. step \in [1 .. N -> [T -> T]]
    <3> HIDE DEF Turn
    <3> QED BY <1>4
  <2> HIDE DEF step
  <2> QED BY <1>1, <1>2, <2>1, TurnsExist
<1>6. f \in [0 .. N -> T] /\ f[0] = s /\ \A n \in 1 .. N : f[n] = Turn(f[n - 1], n)
  <2>1. f \in [0 .. N -> T] /\ f[0] = s /\ \A n \in 1 .. N : f[n] = step[n][f[n - 1]]
    BY <1>5 DEF Turns
  <2>2. \A n \in 1 .. N : f[n - 1] \in T
    BY <1>1, <2>1
  <2> HIDE DEF Turn
  <2> QED BY <2>1, <2>2
<1>7. \A n \in 1 .. N : f[n] = Parsed(f[n - 1], c, n)
  <2> SUFFICES ASSUME NEW n \in 1 .. N PROVE f[n] = Parsed(f[n - 1], c, n)
    OBVIOUS
  <2>1. CASE f[n - 1].conn[c].open
    BY <1>6, <2>1
  <2>2. CASE ~f[n - 1].conn[c].open
    <3>1. n # 1
      BY <1>6, <2>2
    <3>2. Parsed(f[n - 1], c, n) = f[n - 1]
      BY <2>2, <3>1 DEF Parsed, MoreToRead
    <3> QED BY <1>6, <2>2, <3>2
  <2> QED BY <2>1, <2>2
<1>8. f = body(f)
  <2> DEFINE D(n) == IF n = 0 THEN s ELSE Parsed(f[n - 1], c, n)
  <2>1. \A n \in 0 .. N : f[n] = D(n)
    <3>1. \A n \in 0 .. N : n = 0 \/ n \in 1 .. N
      BY <1>1
    <3> QED BY <1>6, <1>7, <3>1
  <2> HIDE DEF D
  <2>2. f = [n \in 0 .. N |-> D(n)]
    BY <1>6, <2>1
  <2> QED BY <2>2 DEF D
<1>9. turn = body(turn)
  <2> HIDE DEF body
  <2> QED BY <1>8
<1> HIDE DEF turn
<1>10. turn[0] = s /\ \A n \in 1 .. N : turn[n] = Parsed(turn[n - 1], c, n)
  <2> DEFINE D(n) == IF n = 0 THEN s ELSE Parsed(turn[n - 1], c, n)
  <2>1. turn = [n \in 0 .. N |-> D(n)]
    BY <1>9
  <2>2. D(0) = s /\ \A n \in 1 .. N : n \in 0 .. N /\ D(n) = Parsed(turn[n - 1], c, n)
    BY <1>1
  <2>3. 0 \in 0 .. N
    BY <1>1
  <2> HIDE DEF D
  <2> QED BY <2>1, <2>2, <2>3
<1> DEFINE S == {n \in Nat : n <= N => turn[n] = f[n]}
<1>11. 0 \in S
  BY <1>6, <1>10
<1>12. \A n \in Nat : n \in S => n + 1 \in S
  <2> SUFFICES ASSUME NEW n \in Nat, n \in S, n + 1 <= N PROVE turn[n + 1] = f[n + 1]
    OBVIOUS
  <2>1. n + 1 \in 1 .. N /\ (n + 1) - 1 = n /\ turn[n] = f[n]
    BY <1>1
  <2> QED BY <1>7, <1>10, <2>1
<1>13. N \in S
  <2> HIDE DEF S
  <2> QED BY <1>1, <1>11, <1>12, NatSetInduction
<1>14. turn[N] \in T
  <2>1. turn[N] = f[N] /\ N \in 0 .. N
    BY <1>1, <1>13
  <2> QED BY <1>6, <2>1
<1>15. Consumed(s, c) = turn[N]
  BY DEF Consumed, turn, N
<1> QED BY <1>14, <1>15 DEF T

LEMMA ReceivedTouched ==
    ASSUME EnvOK, NEW s \in Pool, NEW c \in Slots, s.conn[c].open, NEW arrived \in Seq(Frames)
    PROVE  Touched(s, receive(s, c, arrived), c)
<1> DEFINE first == Consumed(s, c)
           m == [first EXCEPT !.conn[c].unread = arrived]
           t == Consumed(m, c)
<1>1. Touched(s, first, c)
  BY ConsumedTouched
<1> HIDE DEF first
<1>2. CASE ~MoreToRead(first, c)
  <2>1. receive(s, c, arrived) = first
    BY <1>2 DEF receive, first
  <2> QED BY <1>1, <2>1
<1>3. CASE MoreToRead(first, c)
  <2>1. first \in Pool /\ first.conn[c].open
    BY <1>1, <1>3 DEF Touched, Same, Gone, MoreToRead
  <2>2. Same(first, m)
    BY <2>1, ReadSame
  <2> HIDE DEF m
  <2>3. m \in Pool /\ m.conn[c].open /\ Touched(first, m, c)
    BY <2>1, <2>2, SameOpen
  <2>4. Touched(m, t, c)
    BY <2>3, ConsumedTouched
  <2> HIDE DEF t
  <2>5. Touched(s, m, c)
    BY <1>1, <2>3, TouchedTrans
  <2>6. Touched(s, t, c)
    BY <2>4, <2>5, TouchedTrans
  <2>7. receive(s, c, arrived) = t
    BY <1>3 DEF receive, first, m, t
  <2> QED BY <2>6, <2>7
<1> QED BY <1>2, <1>3

LEMMA EndTouched ==
    ASSUME EnvOK, NEW s \in Pool, NEW c \in Slots, s.conn[c].open
    PROVE  Touched(s, receive_end(s, c), c)
<1> DEFINE first == Consumed(s, c)
           t == close(first, c)
<1>1. Touched(s, first, c)
  BY ConsumedTouched
<1> HIDE DEF first
<1>2. first \in Pool
  BY <1>1 DEF Touched, Same, Gone
<1>3. Touched(first, t, c)
  BY <1>2, ClosedTouched
<1> HIDE DEF t
<1>4. Touched(s, t, c)
  BY <1>1, <1>3, TouchedTrans
<1>5. receive_end(s, c) = t \/ receive_end(s, c) = first
  BY DEF receive_end, first, t
<1> QED BY <1>1, <1>4, <1>5

LEMMA FanoutTouched ==
    ASSUME EnvOK, NEW s \in Pool, NEW c \in Slots
    PROVE  Touched(s, Fanout(s, c), c)
<1> DEFINE t == Fanout(s, c)
<1>1. t = s \/ (s.conn[c].open /\ t = queue_frame(s, c)) \/ t = close(s, c)
  BY DEF Fanout
<1> HIDE DEF t
<1>2. Touched(s, t, c)
  BY <1>1, SameRefl, QueuedSame, ClosedTouched DEF Touched
<1> QED BY <1>2 DEF t

LEMMA KeptTouched ==
    ASSUME EnvOK, NEW s \in Pool, NEW c \in Slots, NEW send
    PROVE  Touched(s, service_keepalive(s, c, send), c)
<1> DEFINE t == service_keepalive(s, c, send)
           m == queue_frame(s, c)
           k == [m.conn[c] EXCEPT !.ping = "sent"]
           u == [m EXCEPT !.conn[c].ping = "sent"]
<1>1. \/ t = s \/ (s.conn[c].open /\ t = flush(s, c, send)) \/ t = close(s, c)
      \/ s.conn[c].open /\ t = u
  BY DEF service_keepalive
<1>2. ASSUME s.conn[c].open PROVE Touched(s, u, c)
  <2>1. m \in Pool /\ m.conn[c].open /\ Touched(s, m, c)
    BY <1>2, QueuedSame, SameOpen
  <2> HIDE DEF m
  <2>2. m.conn[c] \in Connection
    BY <2>1, ConnectionOf
  <2>3. k \in Connection /\ Linked(m.conn[c], k)
    BY <2>2 DEF Connection, Linked
  <2>4. u = [m EXCEPT !.conn[c] = k]
    OBVIOUS
  <2> HIDE DEF k, u
  <2>5. Same(m, u)
    BY <2>1, <2>3, <2>4, OneSame
  <2>6. Touched(m, u, c)
    BY <2>5 DEF Touched
  <2> QED BY <2>1, <2>6, TouchedTrans
<1> HIDE DEF t, u
<1>3. CASE t = s
  BY <1>3, SameRefl DEF Touched, t
<1>4. CASE s.conn[c].open /\ t = flush(s, c, send)
  BY <1>4, FlushedTouched DEF t
<1>5. CASE t = close(s, c)
  BY <1>5, ClosedTouched DEF t
<1>6. CASE s.conn[c].open /\ t = u
  BY <1>2, <1>6 DEF t
<1> QED BY <1>1, <1>3, <1>4, <1>5, <1>6

LEMMA ServicedTouched ==
    ASSUME EnvOK, NEW s \in Pool, NEW c \in Slots, s.conn[c].open, NEW io, io.frames \in Seq(Frames)
    PROVE  Touched(s, service_io(s, c, io), c)
<1> DEFINE read == CASE io.read = "none" -> s
                     [] io.read = "end" -> receive_end(s, c)
                     [] OTHER -> receive(s, c, io.frames)
           writes == read.conn[c].open /\ (io.write \/ (read.conn[c].closing /\ Pending(read, c)))
           wrote == IF writes THEN flush(read, c, io.send) ELSE read
           t == service_io(s, c, io)
<1>1. Touched(s, read, c)
  <2>1. CASE io.read = "none"
    BY <2>1, SameRefl DEF Touched
  <2>2. CASE io.read = "end"
    BY <2>2, EndTouched
  <2>3. CASE io.read # "none" /\ io.read # "end"
    BY <2>3, ReceivedTouched
  <2> QED BY <2>1, <2>2, <2>3
<1>2. t = wrote \/ t = close(wrote, c)
  BY DEF service_io
<1> HIDE DEF read, t
<1>3. read \in Pool
  BY <1>1 DEF Touched, Same, Gone
<1>4. Touched(read, wrote, c)
  <2>1. CASE writes
    BY <1>3, <2>1, FlushedTouched
  <2>2. CASE ~writes
    BY <1>3, <2>2, SameRefl DEF Touched
  <2> QED BY <2>1, <2>2
<1> HIDE DEF wrote
<1>5. Touched(s, wrote, c)
  BY <1>1, <1>4, TouchedTrans
<1>6. wrote \in Pool
  BY <1>5 DEF Touched, Same, Gone
<1>7. Touched(wrote, close(wrote, c), c)
  BY <1>6, ClosedTouched
<1>8. Touched(s, close(wrote, c), c)
  BY <1>5, <1>7, TouchedTrans
<1>9. Touched(s, t, c)
  BY <1>2, <1>5, <1>8
<1> QED BY <1>9 DEF t

\* Time does not touch the index.
LEMMA AgedSame ==
    ASSUME NEW s \in Pool,
           NEW t, t = [s EXCEPT !.conn = [c \in Slots |-> IF @[c].open THEN Aged(@[c]) ELSE @[c]]]
    PROVE  Same(s, t)
<1> DEFINE old == s.conn
           new == [c \in Slots |-> IF old[c].open THEN Aged(old[c]) ELSE old[c]]
<1>1. old \in [Slots -> Connection] /\ s.sub \in [BucketIndex -> Bucket]
      /\ s.reserved \in Int /\ s.active \in Int
  BY DEF Pool
<1>2. ASSUME NEW k \in Connection PROVE Aged(k) \in Connection /\ Linked(k, Aged(k))
  <2>1. (IF k.blocked = "new" THEN "late" ELSE k.blocked) \in {"no", "new", "late"}
    BY DEF Connection
  <2> DEFINE p == CASE k.ping = "early" /\ env.pings -> "due" [] k.ping = "sent" -> "late" [] OTHER -> k.ping
  <2>2. p \in {"early", "due", "sent", "late"}
    <3>1. k.ping \in {"early", "due", "sent", "late"}
      BY DEF Connection
    <3>2. CASE k.ping = "early" /\ env.pings
      BY <3>2
    <3>3. CASE k.ping = "sent"
      BY <3>3
    <3>4. CASE ~(k.ping = "early" /\ env.pings) /\ k.ping # "sent"
      BY <3>1, <3>4
    <3> QED BY <3>2, <3>3, <3>4
  <2>3. Aged(k) = [k EXCEPT !.blocked = IF k.blocked = "new" THEN "late" ELSE k.blocked, !.ping = p]
    BY DEF Aged
  <2> HIDE DEF p
  <2> QED BY <2>1, <2>2, <2>3 DEF Connection, Linked
<1>3. t = [s EXCEPT !.conn = new]
  OBVIOUS
<1>4. /\ t.conn = new /\ t.sub = s.sub /\ t.reserved = s.reserved /\ t.active = s.active
      /\ t = [conn |-> t.conn, sub |-> t.sub, reserved |-> t.reserved, active |-> t.active]
  <2> HIDE DEF new
  <2> QED BY <1>3 DEF Pool
<1>5. ASSUME NEW c \in Slots
      PROVE  /\ new[c] \in Connection /\ Linked(old[c], new[c])
             /\ ~old[c].open => new[c] = old[c]
  <2>1. old[c] \in Connection
    BY <1>1
  <2>2. Linked(old[c], old[c])
    BY DEF Linked
  <2>3. Aged(old[c]) \in Connection /\ Linked(old[c], Aged(old[c]))
    BY <1>2, <2>1
  <2>4. new[c] = IF old[c].open THEN Aged(old[c]) ELSE old[c]
    OBVIOUS
  <2> HIDE DEF new, old
  <2>5. CASE old[c].open
    BY <2>3, <2>4, <2>5
  <2>6. CASE ~old[c].open
    BY <2>1, <2>2, <2>4, <2>6
  <2> QED BY <2>5, <2>6
<1>6. new = [c \in Slots |-> new[c]]
  OBVIOUS
<1> HIDE DEF new
<1>7. t \in Pool
  BY <1>1, <1>4, <1>5, <1>6 DEF Pool
<1> QED BY <1>4, <1>5, <1>7 DEF Same, IdleKept

-----------------------------------------------------------------------------
(***************************************************************************)
(* The list of a bucket as a tour of its members: the order in which       *)
(* broadcast visits them.                                                  *)
(***************************************************************************)
At(w, n, i) == IF i \in 1 .. n THEN w[i] ELSE Nil

Tour(M, conn, head, w, n) ==
    /\ n \in Nat /\ w \in [1 .. n -> M]
    /\ \A c \in M : \E i \in 1 .. n : w[i] = c
    /\ \A i, j \in 1 .. n : w[i] = w[j] => i = j
    /\ \A i \in 1 .. n : conn[w[i]].next = At(w, n, i + 1) /\ conn[w[i]].prev = At(w, n, i - 1)
    /\ head = At(w, n, 1)

Unlinked(M, old, new, c, head, rest) ==
    /\ \A d \in M : d # c =>
          /\ new[d].next = IF d = old[c].prev THEN old[c].next ELSE old[d].next
          /\ new[d].prev = IF d = old[c].next THEN old[c].prev ELSE old[d].prev
    /\ rest = IF old[c].prev # Nil THEN head ELSE IF head = c THEN old[c].next ELSE head

\* A member that is unlinked leaves the tour, which closes behind it.
LEMMA TourLeft ==
    ASSUME NEW M, Nil \notin M, NEW old, NEW new, NEW head, NEW rest, NEW c \in M, NEW w, NEW n,
           Tour(M, old, head, w, n), Unlinked(M, old, new, c, head, rest)
    PROVE  \E v : Tour(M \ {c}, new, rest, v, n - 1)
<1>1. /\ n \in Nat /\ w \in [1 .. n -> M]
      /\ \A d \in M : \E i \in 1 .. n : w[i] = d
      /\ \A i, j \in 1 .. n : w[i] = w[j] => i = j
      /\ \A i \in 1 .. n : old[w[i]].next = At(w, n, i + 1) /\ old[w[i]].prev = At(w, n, i - 1)
      /\ head = At(w, n, 1)
  BY DEF Tour
<1>2. PICK m \in 1 .. n : w[m] = c
  BY <1>1
<1>3. old[c].next = At(w, n, m + 1) /\ old[c].prev = At(w, n, m - 1)
  BY <1>1, <1>2
<1> DEFINE v == [k \in 1 .. n - 1 |-> IF k < m THEN w[k] ELSE w[k + 1]]
<1>4. n \in Nat /\ n - 1 \in Nat /\ m \in Nat /\ 1 <= m /\ m <= n /\ m \in 1 .. n
  BY <1>1, <1>2
<1>5. \A k \in 1 .. n - 1 : v[k] \in M /\ v[k] # c
  <2> SUFFICES ASSUME NEW k \in 1 .. n - 1 PROVE v[k] \in M /\ v[k] # c
    OBVIOUS
  <2>1. CASE k < m
    <3>1. v[k] = w[k] /\ k # m /\ k \in 1 .. n
      BY <1>4, <2>1
    <3> QED BY <1>1, <1>2, <1>4, <3>1
  <2>2. CASE ~(k < m)
    <3>1. v[k] = w[k + 1] /\ k + 1 # m /\ k + 1 \in 1 .. n
      BY <1>4, <2>2
    <3> QED BY <1>1, <1>2, <1>4, <3>1
  <2> QED BY <2>1, <2>2
<1>6. v \in [1 .. n - 1 -> M \ {c}]
  BY <1>5
<1>7. \A k \in 0 .. n : At(v, n - 1, k) = IF k < m THEN At(w, n, k) ELSE At(w, n, k + 1)
  BY <1>1, <1>2 DEF At
<1>v. \A k \in 1 .. n - 1 : v[k] = IF k < m THEN w[k] ELSE w[k + 1]
  OBVIOUS
<1> HIDE DEF v
<1>8. ASSUME NEW d \in M \ {c} PROVE \E i \in 1 .. n - 1 : v[i] = d
  <2>1. PICK k \in 1 .. n : w[k] = d
    BY <1>1
  <2>2. k # m
    BY <1>2, <2>1
  <2>3. CASE k < m
    <3>1. k \in 1 .. n - 1
      BY <1>4, <2>3
    <3> QED BY <1>v, <2>1, <2>3, <3>1
  <2>4. CASE k > m
    <3>1. k - 1 \in 1 .. n - 1 /\ ~(k - 1 < m) /\ (k - 1) + 1 = k
      BY <1>4, <2>4
    <3> QED BY <1>v, <2>1, <3>1
  <2> QED BY <1>4, <2>2, <2>3, <2>4
<1>9. ASSUME NEW i \in 1 .. n - 1, NEW j \in 1 .. n - 1, v[i] = v[j] PROVE i = j
  <2> DEFINE J == IF i < m THEN i ELSE i + 1
             K == IF j < m THEN j ELSE j + 1
  <2>1. J \in 1 .. n /\ K \in 1 .. n /\ v[i] = w[J] /\ v[j] = w[K]
    BY <1>4, <1>v
  <2>2. \A a, b \in 1 .. n : w[a] = w[b] => a = b
    BY <1>1
  <2>3. J = K
    <3>1. w[J] = w[K] /\ J \in 1 .. n /\ K \in 1 .. n
      BY <1>9, <2>1
    <3> HIDE DEF J, K
    <3> QED BY ONLY <2>2, <3>1
  <2> QED BY <1>4, <2>3
\* Which members border on c.
<1>10. ASSUME NEW k \in 1 .. n, NEW i \in 0 .. n + 1 PROVE w[k] = At(w, n, i) <=> k = i
  <2>1. CASE i \in 1 .. n
    BY <1>1, <2>1 DEF At
  <2>2. CASE i \notin 1 .. n
    <3>1. At(w, n, i) = Nil /\ w[k] # Nil
      BY <1>1, <2>2 DEF At
    <3> QED BY <2>2, <3>1
  <2> QED BY <2>1, <2>2
<1>11. ASSUME NEW k \in 1 .. n - 1
       PROVE  new[v[k]].next = At(v, n - 1, k + 1) /\ new[v[k]].prev = At(v, n - 1, k - 1)
  <2>0. /\ new[v[k]].next = IF v[k] = At(w, n, m - 1) THEN At(w, n, m + 1) ELSE old[v[k]].next
        /\ new[v[k]].prev = IF v[k] = At(w, n, m + 1) THEN At(w, n, m - 1) ELSE old[v[k]].prev
    BY <1>3, <1>5 DEF Unlinked
  <2>n. /\ At(v, n - 1, k + 1) = IF k + 1 < m THEN At(w, n, k + 1) ELSE At(w, n, k + 2)
        /\ At(v, n - 1, k - 1) = IF k - 1 < m THEN At(w, n, k - 1) ELSE At(w, n, k)
    <3>1. k + 1 \in 0 .. n /\ k - 1 \in 0 .. n /\ (k + 1) + 1 = k + 2 /\ (k - 1) + 1 = k
      BY <1>4
    <3> QED BY <1>7, <3>1
  <2>1. CASE k < m
    <3>1. v[k] = w[k] /\ k \in 1 .. n /\ m - 1 \in 0 .. n + 1 /\ m + 1 \in 0 .. n + 1 /\ k # m + 1
          /\ k - 1 < m
      BY <1>4, <1>v, <2>1
    <3>2. (w[k] = At(w, n, m - 1) <=> k = m - 1) /\ w[k] # At(w, n, m + 1)
      BY <1>10, <3>1
    <3>3. old[w[k]].next = At(w, n, k + 1) /\ old[w[k]].prev = At(w, n, k - 1)
      BY <1>1, <3>1
    <3>4. new[v[k]].prev = At(v, n - 1, k - 1)
      BY <2>0, <2>n, <3>1, <3>2, <3>3
    <3>5. CASE k = m - 1
      <4>1. ~(k + 1 < m) /\ k + 2 = m + 1
        BY <1>4, <3>5
      <4> QED BY <2>0, <2>n, <3>1, <3>2, <3>4, <3>5, <4>1
    <3>6. CASE k # m - 1
      <4>1. k + 1 < m
        BY <1>4, <2>1, <3>6
      <4> QED BY <2>0, <2>n, <3>1, <3>2, <3>3, <3>4, <3>6, <4>1
    <3> QED BY <3>5, <3>6
  <2>2. CASE ~(k < m)
    <3>1. /\ v[k] = w[k + 1] /\ k + 1 \in 1 .. n /\ m - 1 \in 0 .. n + 1 /\ m + 1 \in 0 .. n + 1
          /\ k + 1 # m - 1 /\ ~(k + 1 < m) /\ (k + 1) + 1 = k + 2 /\ (k + 1) - 1 = k
      BY <1>4, <1>v, <2>2
    <3>2. (w[k + 1] = At(w, n, m + 1) <=> k + 1 = m + 1) /\ w[k + 1] # At(w, n, m - 1)
      BY <1>10, <3>1
    <3>3. old[w[k + 1]].next = At(w, n, k + 2) /\ old[w[k + 1]].prev = At(w, n, k)
      BY <1>1, <3>1
    <3>4. new[v[k]].next = At(v, n - 1, k + 1)
      BY <2>0, <2>n, <3>1, <3>2, <3>3
    <3>5. CASE k = m
      <4>1. k + 1 = m + 1 /\ k - 1 < m /\ k - 1 = m - 1
        BY <1>4, <3>5
      <4> QED BY <2>0, <2>n, <3>1, <3>2, <3>4, <3>5, <4>1
    <3>6. CASE k # m
      <4>1. k + 1 # m + 1 /\ ~(k - 1 < m)
        BY <1>4, <2>2, <3>6
      <4> QED BY <2>0, <2>n, <3>1, <3>2, <3>3, <3>4, <4>1
    <3> QED BY <3>5, <3>6
  <2> QED BY <2>1, <2>2
<1>12. rest = At(v, n - 1, 1)
  <2>0. rest = IF At(w, n, m - 1) # Nil THEN head ELSE IF head = c THEN At(w, n, m + 1) ELSE head
    BY <1>3 DEF Unlinked
  <2>1. 1 \in 0 .. n /\ 1 + 1 = 2
    BY <1>2, <1>4
  <2>2. At(v, n - 1, 1) = IF 1 < m THEN At(w, n, 1) ELSE At(w, n, 2)
    BY <1>7, <2>1
  <2>3. CASE m = 1
    <3>1. head = c /\ At(w, n, m - 1) = Nil
      BY <1>1, <1>2, <2>3 DEF At
    <3> QED BY <2>0, <2>2, <2>3, <3>1
  <2>4. CASE m # 1
    <3>1. 1 < m /\ m - 1 \in 1 .. n
      BY <1>4, <2>4
    <3>2. At(w, n, m - 1) # Nil
      BY <1>1, <3>1 DEF At
    <3> QED BY <1>1, <2>0, <2>2, <3>1, <3>2
  <2> QED BY <2>3, <2>4
<1>13. Tour(M \ {c}, new, rest, v, n - 1)
  BY <1>4, <1>6, <1>8, <1>9, <1>11, <1>12 DEF Tour
<1> QED BY <1>13

Joined(M, old, new, c, head) ==
    /\ new[c].next = head /\ new[c].prev = Nil
    /\ \A d \in M : new[d].next = old[d].next /\ new[d].prev = IF d = head THEN c ELSE old[d].prev

\* A connection that subscribes goes in front.
LEMMA TourJoined ==
    ASSUME NEW M, Nil \notin M, NEW old, NEW new, NEW head, NEW c, c \notin M, NEW w, NEW n,
           Tour(M, old, head, w, n), Joined(M, old, new, c, head)
    PROVE  \E v : Tour(M \cup {c}, new, c, v, n + 1)
<1>1. /\ n \in Nat /\ w \in [1 .. n -> M]
      /\ \A d \in M : \E i \in 1 .. n : w[i] = d
      /\ \A i, j \in 1 .. n : w[i] = w[j] => i = j
      /\ \A i \in 1 .. n : old[w[i]].next = At(w, n, i + 1) /\ old[w[i]].prev = At(w, n, i - 1)
      /\ head = At(w, n, 1)
  BY DEF Tour
<1> DEFINE v == [k \in 1 .. n + 1 |-> IF k = 1 THEN c ELSE w[k - 1]]
<1>2. \A k \in 1 .. n + 1 : k = 1 \/ k - 1 \in 1 .. n
  BY <1>1
<1>3. v \in [1 .. n + 1 -> M \cup {c}]
  BY <1>1, <1>2
<1>4. 1 \in 1 .. n + 1 /\ v[1] = c /\ \A k \in 1 .. n + 1 : k # 1 => v[k] = w[k - 1]
  BY <1>1
<1>5. \A k \in 1 .. n + 2 : At(v, n + 1, k) = IF k = 1 THEN c ELSE At(w, n, k - 1)
  BY <1>1 DEF At
<1>6. At(v, n + 1, 0) = Nil
  BY <1>1 DEF At
<1> HIDE DEF v
<1>7. ASSUME NEW d \in M \cup {c} PROVE \E i \in 1 .. n + 1 : v[i] = d
  <2>1. CASE d = c
    BY <1>4, <2>1
  <2>2. CASE d # c
    <3>1. PICK i \in 1 .. n : w[i] = d
      BY <1>1, <2>2
    <3>2. i + 1 \in 1 .. n + 1 /\ i + 1 # 1 /\ (i + 1) - 1 = i
      BY <1>1
    <3> QED BY <1>4, <3>1, <3>2
  <2> QED BY <2>1, <2>2
<1>8. ASSUME NEW i \in 1 .. n + 1, NEW j \in 1 .. n + 1, v[i] = v[j] PROVE i = j
  <2>1. CASE i = 1 \/ j = 1
    <3>1. \A k \in 1 .. n + 1 : v[k] = c => k = 1
      BY <1>1, <1>2, <1>4
    <3> QED BY <1>4, <1>8, <2>1, <3>1
  <2>2. CASE i # 1 /\ j # 1
    <3>1. i - 1 \in 1 .. n /\ j - 1 \in 1 .. n /\ w[i - 1] = w[j - 1]
      BY <1>2, <1>4, <1>8, <2>2
    <3>2. i - 1 = j - 1
      BY <1>1, <3>1
    <3> QED BY <1>1, <3>2
  <2> QED BY <2>1, <2>2
<1>9. ASSUME NEW k \in 1 .. n + 1
      PROVE  new[v[k]].next = At(v, n + 1, k + 1) /\ new[v[k]].prev = At(v, n + 1, k - 1)
  <2>1. CASE k = 1
    <3>1. k + 1 \in 1 .. n + 2 /\ k + 1 # 1 /\ (k + 1) - 1 = 1 /\ k - 1 = 0
      BY <1>1, <2>1
    <3>2. At(v, n + 1, k + 1) = head /\ At(v, n + 1, k - 1) = Nil
      BY <1>1, <1>5, <1>6, <3>1
    <3>3. new[c].next = head /\ new[c].prev = Nil
      BY DEF Joined
    <3> QED BY <1>4, <2>1, <3>2, <3>3
  <2>2. CASE k # 1
    <3>1. /\ k - 1 \in 1 .. n /\ v[k] = w[k - 1] /\ k + 1 \in 1 .. n + 2 /\ k + 1 # 1
          /\ (k + 1) - 1 = k /\ (k - 1) + 1 = k /\ k - 1 \in 1 .. n + 2
      BY <1>1, <1>2, <1>4, <2>2
    <3>2. /\ old[w[k - 1]].next = At(w, n, k) /\ old[w[k - 1]].prev = At(w, n, (k - 1) - 1)
          /\ w[k - 1] \in M
      BY <1>1, <3>1
    <3>3. /\ new[w[k - 1]].next = old[w[k - 1]].next
          /\ new[w[k - 1]].prev = IF w[k - 1] = head THEN c ELSE old[w[k - 1]].prev
      BY <3>2 DEF Joined
    <3>4. new[v[k]].next = At(v, n + 1, k + 1)
      BY <1>5, <3>1, <3>2, <3>3
    <3>5. w[k - 1] = head <=> k - 1 = 1
      <4>1. 1 \in 1 .. n
        BY <1>1, <3>1
      <4>2. head = w[1]
        BY <1>1, <4>1 DEF At
      <4>3. \A i, j \in 1 .. n : w[i] = w[j] => i = j
        BY <1>1
      <4>4. k - 1 \in 1 .. n
        BY <3>1
      <4> QED BY ONLY <4>1, <4>2, <4>3, <4>4
    <3>6. At(v, n + 1, k - 1) = IF k - 1 = 1 THEN c ELSE At(w, n, (k - 1) - 1)
      BY <1>5, <3>1
    <3> QED BY <3>1, <3>2, <3>3, <3>4, <3>5, <3>6
  <2> QED BY <2>1, <2>2
<1>10. c = At(v, n + 1, 1)
  BY <1>4 DEF At
<1>11. n + 1 \in Nat
  BY <1>1
<1>12. Tour(M \cup {c}, new, c, v, n + 1)
  BY <1>3, <1>7, <1>8, <1>9, <1>10, <1>11 DEF Tour
<1> QED BY <1>12

\* broadcast reads the members in the order of the tour, and a tour fits the pool.
LEMMA TourCount ==
    ASSUME EnvOK, NEW M, M \subseteq Slots, NEW conn, NEW head, NEW w, NEW n,
           Tour(M, conn, head, w, n)
    PROVE  n \in Nat /\ Cardinality(M) = n /\ n <= env.slots
<1>1. n \in Nat /\ w \in Bijection(1 .. n, M)
  BY DEF Tour, Bijection, Injection, Surjection, IsInjective
<1>2. ExistsBijection(1 .. n, M)
  BY <1>1 DEF ExistsBijection
<1>3. Cardinality(M) = n
  BY <1>1, <1>2, FS_CountingElements
<1>4. Cardinality(M) <= env.slots
  BY EnvTypes, FS_Subset
<1> QED BY <1>1, <1>3, <1>4

LEMMA ChainIsTour ==
    ASSUME EnvOK, NEW s \in Pool, NEW M, M \subseteq Slots, NEW head, NEW w, NEW n,
           Tour(M, s.conn, head, w, n)
    PROVE  Chain(s, head) = w
<1> DEFINE N == env.slots
           T == Slots \cup {Nil}
           walk == CHOOSE g : g = [k \in 0 .. N |-> IF k = 0 THEN head ELSE Successor(s)[g[k - 1]]]
<1>1. N \in Nat /\ n \in Nat /\ n <= N /\ Nil \notin M
  BY EnvTypes, TourCount
<1>2. /\ w \in [1 .. n -> M]
      /\ \A i \in 1 .. n : s.conn[w[i]].next = At(w, n, i + 1)
      /\ head = At(w, n, 1)
  BY DEF Tour
<1>3. Successor(s) \in [T -> T]
  BY ConnectionOf DEF Successor
<1>4. head \in T
  BY <1>2 DEF At
<1>5. Iterates(walk, Successor(s), T, head, N)
  <2> HIDE DEF T, N
  <2> QED BY <1>1, <1>3, <1>4, RecursiveLoop
<1> HIDE DEF walk
<1>6. walk[0] = head /\ \A k \in 1 .. N : walk[k] = Successor(s)[walk[k - 1]]
  BY <1>5 DEF Iterates
<1> DEFINE S == {k \in Nat : k <= N => walk[k] = At(w, n, k + 1)}
<1>7. 0 \in S
  BY <1>2, <1>6
<1>8. \A k \in Nat : k \in S => k + 1 \in S
  <2> SUFFICES ASSUME NEW k \in Nat, k \in S, k + 1 <= N
               PROVE  walk[k + 1] = At(w, n, (k + 1) + 1)
    OBVIOUS
  <2>1. walk[k] = At(w, n, k + 1) /\ walk[k + 1] = Successor(s)[walk[k]]
    <3>1. k + 1 \in 1 .. N /\ (k + 1) - 1 = k /\ k <= N
      BY <1>1
    <3> QED BY <1>6, <3>1
  <2>2. CASE k + 1 \in 1 .. n
    <3>1. walk[k] = w[k + 1] /\ w[k + 1] \in Slots /\ w[k + 1] # Nil
      BY <1>1, <1>2, <2>1, <2>2 DEF At
    <3>2. Successor(s)[w[k + 1]] = s.conn[w[k + 1]].next
      BY <3>1 DEF Successor
    <3> QED BY <1>2, <2>1, <2>2, <3>1, <3>2
  <2>3. CASE k + 1 \notin 1 .. n
    <3>1. walk[k] = Nil
      BY <2>1, <2>3 DEF At
    <3>2. Successor(s)[Nil] = Nil
      BY DEF Successor
    <3>3. (k + 1) + 1 \notin 1 .. n
      BY <1>1, <2>3
    <3> QED BY <2>1, <3>1, <3>2, <3>3 DEF At
  <2> QED BY <2>2, <2>3
<1>9. \A k \in Nat : k \in S
  <2> HIDE DEF S
  <2> QED BY <1>7, <1>8, NatSetInduction
<1>10. \A k \in 0 .. N : walk[k] = At(w, n, k + 1)
  BY <1>1, <1>9
<1>11. {k \in 0 .. N : walk[k] # Nil} = 0 .. n - 1
  <2>1. ASSUME NEW k \in 0 .. N PROVE walk[k] # Nil <=> k \in 0 .. n - 1
    <3>1. CASE k + 1 \in 1 .. n
      <4>1. walk[k] = w[k + 1] /\ w[k + 1] # Nil
        BY <1>1, <1>2, <1>10, <3>1 DEF At
      <4> QED BY <1>1, <3>1, <4>1
    <3>2. CASE k + 1 \notin 1 .. n
      <4>1. walk[k] = Nil
        BY <1>10, <3>2 DEF At
      <4> QED BY <1>1, <3>2, <4>1
    <3> QED BY <3>1, <3>2
  <2>2. 0 .. n - 1 \subseteq 0 .. N
    BY <1>1
  <2> QED BY <2>1, <2>2
<1>12. Cardinality({k \in 0 .. N : walk[k] # Nil}) = n
  <2>1. Cardinality(0 .. n - 1) = IF 0 > n - 1 THEN 0 ELSE (n - 1) - 0 + 1
    BY <1>1, FS_Interval
  <2>2. Cardinality(0 .. n - 1) = n
    BY <1>1, <2>1
  <2> QED BY <1>11, <2>2, Zenon
<1>13. Chain(s, head) = [k \in 1 .. n |-> walk[k - 1]]
  BY <1>12 DEF Chain, walk
<1>14. \A k \in 1 .. n : walk[k - 1] = w[k]
  <2> SUFFICES ASSUME NEW k \in 1 .. n PROVE walk[k - 1] = w[k]
    OBVIOUS
  <2>1. k - 1 \in 0 .. N /\ (k - 1) + 1 = k
    BY <1>1
  <2> QED BY <1>10, <2>1 DEF At
<1> QED BY <1>2, <1>13, <1>14

-----------------------------------------------------------------------------
(***************************************************************************)
(* The subscription index.                                                 *)
(***************************************************************************)
Members(s, b) == {c \in Slots : s.conn[c].bucket = b}

ListOf(s, b, w, n) == Tour(Members(s, b), s.conn, s.sub[b].head, w, n)

\* Every bucket has its list, and is occupied as long as the list has a member;
Toured(s) == \A b \in BucketIndex : \E n : \E w : ListOf(s, b, w, n)

Headed(s) == \A b \in BucketIndex : s.sub[b].state = "occupied" <=> s.sub[b].head # Nil

\* an open connection is in the list of its order, a free slot is in none;
Subscribed(s) ==
    \A c \in Slots :
        /\ s.conn[c].open => /\ s.conn[c].bucket \in BucketIndex
                             /\ s.sub[s.conn[c].bucket].id = s.conn[c].id
        /\ ~s.conn[c].open => s.conn[c].bucket = Nil

\* and an order has one bucket, which its probes meet before an empty one.
Reached(s, id, b) ==
    \E n \in Probes : Probe(id, n) = b /\ \A k \in 0 .. n : s.sub[Probe(id, k)].state # "empty"

Findable(s) ==
    \A b \in BucketIndex : s.sub[b].state = "occupied" =>
        s.sub[b].id \in Ids /\ Reached(s, s.sub[b].id, b)

OneBucket(s) ==
    \A a, b \in BucketIndex :
        s.sub[a].state = "occupied" /\ s.sub[b].state = "occupied" /\ s.sub[a].id = s.sub[b].id => a = b

Indexed(s) ==
    s \in Pool /\ Toured(s) /\ Headed(s) /\ Subscribed(s) /\ Findable(s) /\ OneBucket(s)

LEMMA MemberLinks ==
    ASSUME EnvOK, NEW s \in Pool, Toured(s), Headed(s), NEW b \in BucketIndex, NEW c \in Members(s, b)
    PROVE  /\ s.conn[c].prev \in Members(s, b) \cup {Nil}
           /\ s.conn[c].next \in Members(s, b) \cup {Nil}
           /\ s.sub[b].head \in Members(s, b) /\ s.sub[b].state = "occupied"
<1>0. Nil \notin Members(s, b)
  BY EnvTypes DEF Members
<1>1. PICK n, w : Tour(Members(s, b), s.conn, s.sub[b].head, w, n)
  BY DEF Toured, ListOf
<1>2. /\ n \in Nat /\ w \in [1 .. n -> Members(s, b)] /\ s.sub[b].head = At(w, n, 1)
      /\ \A i \in 1 .. n : s.conn[w[i]].next = At(w, n, i + 1) /\ s.conn[w[i]].prev = At(w, n, i - 1)
  BY <1>1 DEF Tour
<1>3. PICK i \in 1 .. n : w[i] = c
  BY <1>1 DEF Tour
<1>4. 1 \in 1 .. n
  BY <1>2, <1>3
<1>5. s.sub[b].head \in Members(s, b)
  BY <1>2, <1>4 DEF At
<1>6. \A j : At(w, n, j) \in Members(s, b) \cup {Nil}
  BY <1>2 DEF At
<1> QED BY <1>0, <1>2, <1>3, <1>5, <1>6 DEF Headed

\* What the index does not depend on: all that is in a free slot, and the frames.
Alike(s, t) ==
    /\ t \in Pool /\ t.sub = s.sub
    /\ \A d \in Slots : t.conn[d].open = s.conn[d].open /\ t.conn[d].bucket = s.conn[d].bucket
    /\ \A d \in Slots : s.conn[d].open => Linked(s.conn[d], t.conn[d])

LEMMA AlikeIndexed ==
    ASSUME EnvOK, NEW s, NEW t, Indexed(s), Alike(s, t)
    PROVE  Indexed(t)
<1>1. /\ t \in Pool /\ t.sub = s.sub
      /\ \A d \in Slots : t.conn[d].open = s.conn[d].open /\ t.conn[d].bucket = s.conn[d].bucket
      /\ \A d \in Slots : s.conn[d].open => Linked(s.conn[d], t.conn[d])
  BY DEF Alike
<1>2. \A b : Members(t, b) = Members(s, b)
  BY <1>1 DEF Members
<1>3. Toured(t)
  <2> SUFFICES ASSUME NEW b \in BucketIndex PROVE \E n : \E w : ListOf(t, b, w, n)
    BY DEF Toured
  <2>1. PICK n, w : ListOf(s, b, w, n)
    BY DEF Indexed, Toured
  <2>2. \A d \in Members(s, b) : d \in Slots /\ s.conn[d].open
    BY EnvTypes DEF Members, Indexed, Subscribed
  <2>3. \A d \in Members(s, b) : t.conn[d].next = s.conn[d].next /\ t.conn[d].prev = s.conn[d].prev
    BY <1>1, <2>2 DEF Linked
  <2>4. ListOf(t, b, w, n)
    BY <1>1, <1>2, <2>1, <2>3 DEF ListOf, Tour
  <2> QED BY <2>4
<1>4. Headed(t) /\ Findable(t) /\ OneBucket(t)
  BY <1>1 DEF Indexed, Headed, Findable, OneBucket, Reached
<1>5. Subscribed(t)
  BY <1>1 DEF Indexed, Subscribed, Linked
<1> QED BY <1>1, <1>3, <1>4, <1>5 DEF Indexed

LEMMA SameIndexed ==
    ASSUME EnvOK, NEW s, NEW t, Indexed(s), Same(s, t)
    PROVE  Indexed(t)
<1>1. Alike(s, t)
  BY DEF Same, Alike, Linked
<1> QED BY <1>1, AlikeIndexed

\* A connection that closes leaves its list; an emptied bucket is buried, so
\* that the probes of the orders behind it still pass.
LEMMA GoneIndexed ==
    ASSUME EnvOK, NEW s, NEW t, NEW c \in Slots, Indexed(s), Gone(s, t, c)
    PROVE  Indexed(t)
<1> DEFINE k == s.conn[c]
           b == k.bucket
           rest == HeadAfter(s.sub, k, c)
<1>1. s \in Pool /\ Toured(s) /\ Headed(s) /\ Subscribed(s) /\ Findable(s) /\ OneBucket(s)
  BY DEF Indexed
<1>2. /\ t \in Pool /\ k.open /\ t.conn[c] = FreeConnection
      /\ t.sub = SubAfter(s.sub, k, c)
      /\ \A d \in Slots : d # c => Relinked(k, d, s.conn[d], t.conn[d])
  BY DEF Gone
<1>3. /\ b \in BucketIndex /\ b # Nil /\ s.sub[b].id = k.id /\ c \in Members(s, b)
      /\ Nil \notin BucketIndex /\ Nil \notin Slots
  BY <1>1, <1>2, EnvTypes DEF Subscribed, Members
<1>4. /\ k.prev \in Members(s, b) \cup {Nil} /\ k.next \in Members(s, b) \cup {Nil}
      /\ s.sub[b].head \in Members(s, b) /\ s.sub[b].state = "occupied"
  BY <1>1, <1>3, MemberLinks
<1> DEFINE B == [state |-> IF rest = Nil THEN "tombstone" ELSE s.sub[b].state,
                 id |-> s.sub[b].id, head |-> rest]
<1>5. /\ t.sub = [s.sub EXCEPT ![b] = B]
      /\ s.sub \in [BucketIndex -> Bucket]
  BY <1>1, <1>2, <1>3 DEF SubAfter, Pool
<1>6. /\ t.sub[b] = B /\ \A a \in BucketIndex : a # b => t.sub[a] = s.sub[a]
      /\ t.sub[b].head = rest /\ t.sub[b].id = s.sub[b].id
      /\ t.sub[b].state = IF rest = Nil THEN "tombstone" ELSE "occupied"
  <2> HIDE DEF b, rest
  <2>1. t.sub[b] = B /\ \A a \in BucketIndex : a # b => t.sub[a] = s.sub[a]
    <3> HIDE DEF B
    <3> QED BY <1>3, <1>5
  <2> QED BY <1>4, <2>1
<1>7. /\ t.conn[c].bucket = Nil /\ ~t.conn[c].open
      /\ \A d \in Slots : d # c => t.conn[d].bucket = s.conn[d].bucket /\ t.conn[d].open = s.conn[d].open
                                   /\ t.conn[d].id = s.conn[d].id
  BY <1>2 DEF FreeConnection, Relinked
<1> HIDE DEF k
<1>8. \A a \in BucketIndex : a # b => Members(t, a) = Members(s, a)
  BY <1>3, <1>7 DEF Members, k
<1>9. Members(t, b) = Members(s, b) \ {c}
  BY <1>3, <1>7 DEF Members
<1>10. Toured(t)
  <2> SUFFICES ASSUME NEW a \in BucketIndex PROVE \E n : \E w : ListOf(t, a, w, n)
    BY DEF Toured
  <2>1. PICK n, w : ListOf(s, a, w, n)
    BY <1>1 DEF Toured
  <2>2. CASE a # b
    <3>1. \A d \in Members(s, a) : d \in Slots /\ d # c /\ d # k.prev /\ d # k.next
      BY <1>3, <1>4, <2>2 DEF Members
    <3>2. \A d \in Members(s, a) : t.conn[d].next = s.conn[d].next /\ t.conn[d].prev = s.conn[d].prev
      BY <1>2, <3>1 DEF Relinked, k
    <3>3. ListOf(t, a, w, n)
      <4>1. Members(t, a) = Members(s, a) /\ t.sub[a] = s.sub[a]
        BY <1>6, <1>8, <2>2
      <4> QED BY <2>1, <3>2, <4>1 DEF ListOf, Tour
    <3> QED BY <3>3
  <2>3. CASE a = b
    <3>1. Tour(Members(s, b), s.conn, s.sub[b].head, w, n)
      BY <2>1, <2>3 DEF ListOf
    <3>2. Unlinked(Members(s, b), s.conn, t.conn, c, s.sub[b].head, rest)
      <4>1. \A d \in Members(s, b) : d # c => Relinked(k, d, s.conn[d], t.conn[d])
        BY <1>2 DEF Members, k
      <4> QED BY <1>3, <4>1 DEF Unlinked, Relinked, HeadAfter, k
    <3>3. Nil \notin Members(s, b)
      BY <1>3 DEF Members
    <3> HIDE DEF b, rest
    <3>4. \E v : Tour(Members(s, b) \ {c}, t.conn, rest, v, n - 1)
      BY <1>3, <3>1, <3>2, <3>3, TourLeft
    <3>5. \E v : ListOf(t, b, v, n - 1)
      BY <1>6, <1>9, <3>4 DEF ListOf
    <3> QED BY <2>3, <3>5
  <2> QED BY <2>2, <2>3
<1> HIDE DEF b, rest, B
<1>11. Headed(t)
  BY <1>1, <1>6 DEF Headed
<1>12. Subscribed(t)
  <2> SUFFICES ASSUME NEW d \in Slots
               PROVE  /\ t.conn[d].open => /\ t.conn[d].bucket \in BucketIndex
                                           /\ t.sub[t.conn[d].bucket].id = t.conn[d].id
                      /\ ~t.conn[d].open => t.conn[d].bucket = Nil
    BY DEF Subscribed
  <2>1. \A a \in BucketIndex : t.sub[a].id = s.sub[a].id
    BY <1>6
  <2>2. CASE d = c
    BY <1>7, <2>2
  <2>3. CASE d # c
    BY <1>1, <1>7, <2>1, <2>3 DEF Subscribed
  <2> QED BY <2>2, <2>3
<1>13. /\ \A a \in BucketIndex : t.sub[a].state = "occupied" => s.sub[a].state = "occupied"
       /\ \A a \in BucketIndex : t.sub[a].id = s.sub[a].id
       /\ \A a \in BucketIndex : s.sub[a].state # "empty" => t.sub[a].state # "empty"
  BY <1>4, <1>6
<1>14. \A id \in Ids : \A n \in Nat : Probe(id, n) \in BucketIndex
  BY WebSocketAssumption DEF Probe, BucketIndex
<1>15. Findable(t)
  <2> SUFFICES ASSUME NEW a \in BucketIndex, t.sub[a].state = "occupied"
               PROVE  t.sub[a].id \in Ids /\ Reached(t, t.sub[a].id, a)
    BY DEF Findable
  <2>1. s.sub[a].id \in Ids /\ Reached(s, s.sub[a].id, a) /\ t.sub[a].id = s.sub[a].id
    BY <1>1, <1>13 DEF Findable
  <2>2. PICK n \in Probes : /\ Probe(s.sub[a].id, n) = a
                            /\ \A i \in 0 .. n : s.sub[Probe(s.sub[a].id, i)].state # "empty"
    BY <2>1 DEF Reached
  <2>3. \A i \in 0 .. n : i \in Nat
    OBVIOUS
  <2>4. \A i \in 0 .. n : t.sub[Probe(s.sub[a].id, i)].state # "empty"
    BY <1>13, <1>14, <2>1, <2>2, <2>3
  <2> QED BY <2>1, <2>2, <2>4 DEF Reached
<1>16. OneBucket(t)
  BY <1>1, <1>13 DEF OneBucket
<1> QED BY <1>2, <1>10, <1>11, <1>12, <1>15, <1>16 DEF Indexed

-----------------------------------------------------------------------------
(***************************************************************************)
(* Searching the index.                                                    *)
(***************************************************************************)
LEMMA ProbeType ==
    ASSUME NEW id \in Ids, NEW n \in Nat
    PROVE  Probe(id, n) \in BucketIndex
BY WebSocketAssumption DEF Probe, BucketIndex

LEMMA FirstIs ==
    ASSUME NEW P, P \subseteq Nat, P # {}
    PROVE  FirstOf(P) \in P /\ \A k \in P : FirstOf(P) <= k
<1>1. \E n \in P : \A k \in P : n <= k
  BY LeastNumber
<1> QED BY <1>1 DEF FirstOf

LEMMA VisitedType ==
    ASSUME NEW s, NEW id
    PROVE  /\ Probes \subseteq Nat /\ Visited(s, id) \subseteq Probes
           /\ Occupied(s, id) \subseteq Visited(s, id)
<1>1. Probes \subseteq Nat
  BY WebSocketAssumption DEF Probes
<1> QED BY <1>1 DEF Visited, Occupied

\* A search finds the bucket of the order if there is one.
LEMMA SearchFinds ==
    ASSUME EnvOK, NEW s, Indexed(s), NEW id \in Ids
    PROVE  /\ Occupied(s, id) # {} =>
                 /\ find_subscription(s, id) \in BucketIndex
                 /\ s.sub[find_subscription(s, id)].state = "occupied"
                 /\ s.sub[find_subscription(s, id)].id = id
           /\ Occupied(s, id) = {} =>
                 /\ find_subscription(s, id) = Nil
                 /\ \A b \in BucketIndex : s.sub[b].state = "occupied" => s.sub[b].id # id
<1>1. ASSUME Occupied(s, id) # {}
      PROVE  /\ find_subscription(s, id) \in BucketIndex
             /\ s.sub[find_subscription(s, id)].state = "occupied"
             /\ s.sub[find_subscription(s, id)].id = id
  <2> DEFINE n == FirstOf(Occupied(s, id))
  <2>1. n \in Occupied(s, id) /\ n \in Nat
    <3>1. Occupied(s, id) \subseteq Nat
      BY VisitedType
    <3> QED BY <1>1, <3>1, FirstIs
  <2>2. find_subscription(s, id) = Probe(id, n)
    BY <1>1 DEF find_subscription
  <2>3. s.sub[Probe(id, n)].state = "occupied" /\ s.sub[Probe(id, n)].id = id
    <3> HIDE DEF n
    <3> QED BY <2>1 DEF Occupied
  <2> HIDE DEF n
  <2> QED BY <2>1, <2>2, <2>3, ProbeType
<1>2. ASSUME Occupied(s, id) = {}, NEW b \in BucketIndex, s.sub[b].state = "occupied"
      PROVE  s.sub[b].id # id
  <2> SUFFICES ASSUME s.sub[b].id = id PROVE FALSE
    OBVIOUS
  <2>1. Reached(s, id, b)
    BY <1>2 DEF Indexed, Findable
  <2>2. PICK n \in Probes : Probe(id, n) = b /\ \A k \in 0 .. n : s.sub[Probe(id, k)].state # "empty"
    BY <2>1 DEF Reached
  <2>3. n \in Occupied(s, id)
    BY <1>2, <2>2 DEF Occupied, Visited
  <2> QED BY <1>2, <2>3
<1>3. Occupied(s, id) = {} => find_subscription(s, id) = Nil
  BY DEF find_subscription
<1> QED BY <1>1, <1>2, <1>3

\* A new subscription takes a bucket that no order holds, and no empty bucket
\* is passed on the way to it.
LEMMA SearchMakes ==
    ASSUME EnvOK, NEW s, NEW id \in Ids, Occupied(s, id) = {},
           NEW b, b = find_or_create_subscription(s, id), b # Nil
    PROVE  /\ b \in BucketIndex /\ s.sub[b].state # "occupied"
           /\ \E n \in Probes : /\ Probe(id, n) = b
                                /\ \A k \in 0 .. n : k # n => s.sub[Probe(id, k)].state # "empty"
<1> DEFINE graves == {n \in Visited(s, id) : s.sub[Probe(id, n)].state = "tombstone"}
           ends == Probes \ Visited(s, id)
           P == Insertable(s, id)
           n == FirstOf(P)
<1>1. P = IF graves # {} THEN {FirstOf(graves)} ELSE IF ends # {} THEN {FirstOf(ends)} ELSE {}
  BY DEF Insertable
<1>2. b = Probe(id, n) /\ P # {}
  BY DEF find_or_create_subscription
<1>3. Probes \subseteq Nat /\ graves \subseteq Nat /\ ends \subseteq Nat
  BY VisitedType
<1>4. P \subseteq Nat
  <2> HIDE DEF P, graves, ends
  <2>1. graves # {} => FirstOf(graves) \in Nat
    BY <1>3, FirstIs
  <2>2. ends # {} => FirstOf(ends) \in Nat
    BY <1>3, FirstIs
  <2> QED BY <1>1, <2>1, <2>2
<1>5. n \in P
  <2> HIDE DEF P
  <2> QED BY <1>2, <1>4, FirstIs
<1> HIDE DEF P, n
<1>6. CASE graves # {}
  <2>1. n = FirstOf(graves)
    BY <1>1, <1>5, <1>6
  <2>2. n \in graves
    <3> HIDE DEF graves
    <3> QED BY <1>3, <1>6, <2>1, FirstIs
  <2>3. n \in Probes /\ n \in Nat /\ \A k \in 0 .. n : s.sub[Probe(id, k)].state # "empty"
    BY <1>3, <2>2 DEF Visited
  <2>4. s.sub[Probe(id, n)].state = "tombstone"
    BY <2>2
  <2> QED BY <1>2, <2>3, <2>4, ProbeType
<1>7. CASE graves = {}
  <2>0. ends # {} /\ n = FirstOf(ends)
    BY <1>1, <1>5, <1>7
  <2>1. n \in ends /\ \A k \in ends : n <= k
    <3> HIDE DEF ends
    <3> QED BY <1>3, <2>0, FirstIs
  <2>2. n \in Probes /\ n \in Nat
    BY <1>3, <2>1
  <2>3. ASSUME NEW k \in 0 .. n, k # n PROVE s.sub[Probe(id, k)].state # "empty"
    <3>1. k \in Probes /\ ~(n <= k)
      BY <2>2, <2>3, WebSocketAssumption DEF Probes
    <3>2. k \in Visited(s, id)
      BY <2>1, <3>1
    <3>3. k \in 0 .. k
      BY <2>2
    <3> QED BY <3>2, <3>3 DEF Visited
  <2>4. s.sub[Probe(id, n)].state = "empty"
    <3>1. PICK k \in 0 .. n : s.sub[Probe(id, k)].state = "empty"
      BY <2>1, <2>2 DEF Visited
    <3> QED BY <2>3, <3>1
  <2> QED BY <1>2, <2>2, <2>3, <2>4, ProbeType
<1> QED BY <1>6, <1>7

-----------------------------------------------------------------------------
(***************************************************************************)
(* A connection that is accepted and subscribed.                           *)
(***************************************************************************)
Welcome(u) == [FreeConnection EXCEPT !.open = TRUE, !.id = u.id, !.unread = u.pre, !.out = 1]

HandoverOK(u) == u.id \in Ids /\ u.pre \in Seq(Frames)

Admitted(s, t, c, id, b) ==
    /\ t \in Pool /\ t.conn[c].open /\ t.conn[c].id = id /\ t.conn[c].bucket = b
    /\ t.conn[c].next = s.sub[b].head /\ t.conn[c].prev = Nil
    /\ t.reserved = s.reserved /\ t.active = s.active + 1
    /\ t.sub = [s.sub EXCEPT ![b] = [state |-> "occupied", id |-> id, head |-> c]]
    /\ \A d \in Slots : d # c =>
          /\ t.conn[d].open = s.conn[d].open /\ t.conn[d].id = s.conn[d].id
          /\ t.conn[d].bucket = s.conn[d].bucket /\ t.conn[d].next = s.conn[d].next
          /\ t.conn[d].prev = IF d = s.sub[b].head THEN c ELSE s.conn[d].prev

\* The bucket that a new subscriber goes to.
Suits(s, id, b) ==
    /\ b \in BucketIndex
    /\ \E n \in Probes : /\ Probe(id, n) = b
                         /\ \A k \in 0 .. n : k # n => s.sub[Probe(id, k)].state # "empty"
    /\ \A a \in BucketIndex : s.sub[a].state = "occupied" /\ s.sub[a].id = id => a = b
    /\ s.sub[b].state = "occupied" => s.sub[b].id = id

LEMMA ChosenSuits ==
    ASSUME EnvOK, NEW s, Indexed(s), NEW id \in Ids,
           NEW b, b = find_or_create_subscription(s, id), b # Nil
    PROVE  Suits(s, id, b) /\ (Occupied(s, id) # {} <=> s.sub[b].state = "occupied")
<1>1. CASE Occupied(s, id) # {}
  <2>1. b = find_subscription(s, id)
    BY <1>1 DEF find_or_create_subscription
  <2>2. b \in BucketIndex /\ s.sub[b].state = "occupied" /\ s.sub[b].id = id
    BY <1>1, <2>1, SearchFinds
  <2>3. Reached(s, id, b)
    BY <2>2 DEF Indexed, Findable
  <2>4. \A a \in BucketIndex : s.sub[a].state = "occupied" /\ s.sub[a].id = id => a = b
    BY <2>2 DEF Indexed, OneBucket
  <2> QED BY <1>1, <2>2, <2>3, <2>4 DEF Suits, Reached
<1>2. CASE Occupied(s, id) = {}
  <2>1. \A a \in BucketIndex : s.sub[a].state = "occupied" => s.sub[a].id # id
    BY <1>2, SearchFinds
  <2>2. /\ b \in BucketIndex /\ s.sub[b].state # "occupied"
        /\ \E n \in Probes : /\ Probe(id, n) = b
                             /\ \A k \in 0 .. n : k # n => s.sub[Probe(id, k)].state # "empty"
    BY <1>2, SearchMakes
  <2> QED BY <1>2, <2>1, <2>2 DEF Suits
<1> QED BY <1>1, <1>2

LEMMA SubscribedAdmits ==
    ASSUME EnvOK, NEW s, Indexed(s), NEW c \in Slots, ~s.conn[c].open, NEW u, HandoverOK(u),
           NEW b, b = find_or_create_subscription(s, u.id), b # Nil,
           NEW m, m = [s EXCEPT !.conn[c] = Welcome(u), !.active = @ + 1]
    PROVE  Admitted(s, subscribe(m, c), c, u.id, b)
<1> DEFINE id == u.id
           k == Welcome(u)
           head == s.sub[b].head
           t == subscribe(m, c)
           B == [state |-> "occupied", id |-> id, head |-> c]
           linked == [m.conn EXCEPT ![c].bucket = b, ![c].prev = Nil, ![c].next = head]
           new == IF head = Nil THEN linked ELSE [linked EXCEPT ![head].prev = c]
<1>1. /\ s \in Pool /\ s.conn \in [Slots -> Connection] /\ s.sub \in [BucketIndex -> Bucket]
      /\ s.reserved \in Int /\ s.active \in Int /\ id \in Ids /\ c \in Slots
  BY DEF Indexed, HandoverOK, Pool
<1>2. /\ k \in Connection /\ k.open /\ k.id = id
      /\ k = [k EXCEPT !.open = TRUE]
  <2>1. u.pre \in Seq(Frames)
    BY DEF HandoverOK
  <2> QED BY <1>1, <2>1, FreeType DEF Connection, Welcome, FreeConnection
<1> HIDE DEF k
<1>3. /\ m.conn = [s.conn EXCEPT ![c] = k] /\ m.sub = s.sub /\ m.reserved = s.reserved
      /\ m.active = s.active + 1
      /\ m = [conn |-> m.conn, sub |-> m.sub, reserved |-> m.reserved, active |-> m.active]
  <2>1. m = [s EXCEPT !.conn[c] = k, !.active = @ + 1]
    BY DEF k
  <2> HIDE DEF id
  <2> QED BY <1>1, <2>1 DEF Pool
<1>4. m.conn[c] = k /\ m.conn[c].id = id /\ \A d \in Slots : d # c => m.conn[d] = s.conn[d]
  BY <1>1, <1>2, <1>3
<1>5. Suits(s, id, b) /\ (Occupied(s, id) # {} <=> s.sub[b].state = "occupied")
  BY <1>1, ChosenSuits
<1>6. b \in BucketIndex /\ head \in Slots \cup {Nil} /\ head # c /\ Nil \notin Slots
  <2>1. b \in BucketIndex
    BY <1>5 DEF Suits
  <2>2. head \in Slots \cup {Nil}
    BY <1>1, <2>1 DEF Bucket
  <2>3. PICK n, w : Tour(Members(s, b), s.conn, head, w, n)
    BY <2>1 DEF Indexed, Toured, ListOf
  <2>4. head \in Members(s, b) \cup {Nil}
    BY <2>3 DEF Tour, At
  <2>5. s.conn[c].bucket = Nil /\ Nil # b
    BY DEF Indexed, Subscribed
  <2>6. c \notin Members(s, b)
    BY <2>5 DEF Members
  <2> QED BY <2>1, <2>2, <2>4, <2>6, EnvTypes
<1>7. /\ Occupied(m, id) = Occupied(s, id)
      /\ find_or_create_subscription(m, id) = b
  <2>1. Visited(m, id) = Visited(s, id)
    BY <1>3, Zenon DEF Visited
  <2>2. Occupied(m, id) = Occupied(s, id)
    BY <1>3, <2>1, Zenon DEF Occupied
  <2>3. Insertable(m, id) = Insertable(s, id)
    <3> DEFINE I(sub, V) ==
                   LET graves == {n \in V : sub[Probe(id, n)].state = "tombstone"}
                       ends == Probes \ V
                   IN  IF graves # {} THEN {FirstOf(graves)} ELSE IF ends # {} THEN {FirstOf(ends)} ELSE {}
    <3>1. Insertable(m, id) = I(m.sub, Visited(m, id)) /\ Insertable(s, id) = I(s.sub, Visited(s, id))
      BY Zenon DEF Insertable
    <3> HIDE DEF I
    <3> QED BY <1>3, <2>1, <3>1
  <2>4. find_or_create_subscription(m, id) = find_or_create_subscription(s, id)
    BY <2>2, <2>3, Zenon DEF find_or_create_subscription, find_subscription
  <2> QED BY <2>2, <2>4
<1>8. (IF Occupied(m, id) # {} THEN m.sub[b].head ELSE Nil) = head
  <2>1. s.sub[b].state # "occupied" => head = Nil
    BY <1>6 DEF Indexed, Headed
  <2> QED BY <1>3, <1>5, <1>7, <2>1
<1>9. t = [m EXCEPT !.sub[b] = B, !.conn = new]
  <2> DEFINE L(a, h) == [m.conn EXCEPT ![c].bucket = a, ![c].prev = Nil, ![c].next = h]
             R(i, a, h) == [m EXCEPT !.sub[a] = [state |-> "occupied", id |-> i, head |-> c],
                                     !.conn = IF h = Nil THEN L(a, h)
                                              ELSE [L(a, h) EXCEPT ![h].prev = c]]
             H(i, a) == IF Occupied(m, i) # {} THEN m.sub[a].head ELSE Nil
             F(i) == find_or_create_subscription(m, i)
  <2>1. t = R(m.conn[c].id, F(m.conn[c].id), H(m.conn[c].id, F(m.conn[c].id)))
    BY DEF subscribe
  <2>2. m.conn[c].id = id /\ F(id) = b /\ H(id, b) = head
    BY <1>4, <1>7, <1>8
  <2>3. R(id, b, head) = [m EXCEPT !.sub[b] = B, !.conn = new]
    OBVIOUS
  <2> HIDE DEF R, H, F, id, head, t, B, new
  <2> QED BY <2>1, <2>2, <2>3
<1> HIDE DEF t, head
<1>10. /\ t.conn = new /\ t.sub = [s.sub EXCEPT ![b] = B] /\ t.reserved = s.reserved
       /\ t.active = s.active + 1
       /\ t = [conn |-> t.conn, sub |-> t.sub, reserved |-> t.reserved, active |-> t.active]
  <2> HIDE DEF new, B
  <2> QED BY <1>3, <1>9
<1> DEFINE kc == [k EXCEPT !.bucket = b, !.prev = Nil, !.next = head]
<1>11. /\ linked[c] = kc /\ DOMAIN linked = Slots /\ linked = [d \in DOMAIN linked |-> linked[d]]
       /\ \A d \in Slots : d # c => linked[d] = s.conn[d]
  <2>1. m.conn \in [Slots -> Connection]
    BY <1>1, <1>2, <1>3
  <2>2. linked = [m.conn EXCEPT ![c] = kc]
    BY <1>1, <1>4, <2>1
  <2> HIDE DEF linked, kc
  <2> QED BY <1>1, <1>4, <2>1, <2>2
<1> HIDE DEF linked
<1>12. /\ new[c] = kc /\ new = [d \in Slots |-> new[d]]
       /\ \A d \in Slots : d # c =>
             new[d] = IF d = head THEN [s.conn[d] EXCEPT !.prev = c] ELSE s.conn[d]
  <2>1. CASE head = Nil
    BY <1>6, <1>11, <2>1
  <2>2. CASE head # Nil
    BY <1>6, <1>11, <2>2
  <2> QED BY <2>1, <2>2
<1> HIDE DEF new
<1>13. /\ kc \in Connection /\ kc.open /\ kc.id = id /\ kc.bucket = b /\ kc.next = head
       /\ kc.prev = Nil
  <2>1. kc \in Connection
    BY <1>2, <1>6 DEF Connection
  <2> QED BY <1>2, <2>1 DEF Connection
<1> HIDE DEF kc
<1>14. ASSUME NEW d \in Slots, d # c
       PROVE  /\ new[d] \in Connection
              /\ new[d].open = s.conn[d].open /\ new[d].id = s.conn[d].id
              /\ new[d].bucket = s.conn[d].bucket /\ new[d].next = s.conn[d].next
              /\ new[d].prev = IF d = head THEN c ELSE s.conn[d].prev
  <2>1. s.conn[d] \in Connection
    BY <1>1
  <2>2. CASE d = head
    <3>1. new[d] = [s.conn[d] EXCEPT !.prev = c]
      BY <1>12, <1>14, <2>2
    <3> QED BY <2>1, <2>2, <3>1 DEF Connection
  <2>3. CASE d # head
    <3>1. new[d] = s.conn[d]
      BY <1>12, <1>14, <2>3
    <3> QED BY <2>1, <2>3, <3>1
  <2> QED BY <2>2, <2>3
<1>15. t.conn \in [Slots -> Connection]
  BY <1>10, <1>12, <1>13, <1>14
<1>16. B \in Bucket
  BY <1>1 DEF Bucket
<1>17. t \in Pool
  <2>1. t.sub \in [BucketIndex -> Bucket]
    <3> HIDE DEF B
    <3> QED BY <1>1, <1>6, <1>10, <1>16
  <2> QED BY <1>1, <1>10, <1>15, <2>1 DEF Pool
<1> HIDE DEF B
<1>18. Admitted(s, t, c, id, b)
  <2>1. /\ t.conn[c].open /\ t.conn[c].id = id /\ t.conn[c].bucket = b
        /\ t.conn[c].next = s.sub[b].head /\ t.conn[c].prev = Nil
    BY <1>10, <1>12, <1>13 DEF head
  <2>2. t.sub = [s.sub EXCEPT ![b] = [state |-> "occupied", id |-> id, head |-> c]]
    BY <1>10 DEF B
  <2>3. ASSUME NEW d \in Slots, d # c
        PROVE  /\ t.conn[d].open = s.conn[d].open /\ t.conn[d].id = s.conn[d].id
               /\ t.conn[d].bucket = s.conn[d].bucket /\ t.conn[d].next = s.conn[d].next
               /\ t.conn[d].prev = IF d = s.sub[b].head THEN c ELSE s.conn[d].prev
    BY <1>10, <1>14, <2>3 DEF head
  <2>4. t.reserved = s.reserved /\ t.active = s.active + 1
    BY <1>10
  <2> QED BY <1>17, <2>1, <2>2, <2>3, <2>4 DEF Admitted
<1> QED BY <1>18 DEF t

LEMMA AdmittedIndexed ==
    ASSUME EnvOK, NEW s, NEW t, NEW c \in Slots, NEW id \in Ids, NEW b,
           Indexed(s), ~s.conn[c].open, Suits(s, id, b), Admitted(s, t, c, id, b)
    PROVE  Indexed(t)
<1> DEFINE head == s.sub[b].head
           B == [state |-> "occupied", id |-> id, head |-> c]
<1>1. s \in Pool /\ Toured(s) /\ Headed(s) /\ Subscribed(s) /\ Findable(s) /\ OneBucket(s)
  BY DEF Indexed
<1>2. /\ t \in Pool /\ t.conn[c].open /\ t.conn[c].id = id /\ t.conn[c].bucket = b
      /\ t.conn[c].next = head /\ t.conn[c].prev = Nil
      /\ t.sub = [s.sub EXCEPT ![b] = B]
      /\ \A d \in Slots : d # c =>
            /\ t.conn[d].open = s.conn[d].open /\ t.conn[d].id = s.conn[d].id
            /\ t.conn[d].bucket = s.conn[d].bucket /\ t.conn[d].next = s.conn[d].next
            /\ t.conn[d].prev = IF d = head THEN c ELSE s.conn[d].prev
  BY DEF Admitted
<1>3. /\ b \in BucketIndex
      /\ \A a \in BucketIndex : s.sub[a].state = "occupied" /\ s.sub[a].id = id => a = b
      /\ s.sub[b].state = "occupied" => s.sub[b].id = id
  BY DEF Suits
<1>4. Nil \notin BucketIndex /\ Nil \notin Slots /\ s.conn[c].bucket = Nil
  BY <1>1, EnvTypes DEF Subscribed
<1>5. /\ t.sub[b].state = "occupied" /\ t.sub[b].id = id /\ t.sub[b].head = c
      /\ \A a \in BucketIndex : a # b => t.sub[a] = s.sub[a]
  <2>1. t.sub[b] = B /\ \A a \in BucketIndex : a # b => t.sub[a] = s.sub[a]
    <3>1. s.sub \in [BucketIndex -> Bucket]
      BY <1>1 DEF Pool
    <3> HIDE DEF B
    <3> QED BY <1>2, <1>3, <3>1
  <2> QED BY <2>1
<1> HIDE DEF B, head
<1>6. \A a \in BucketIndex : a # b => Members(t, a) = Members(s, a)
  BY <1>2, <1>4 DEF Members
<1>7. Members(t, b) = Members(s, b) \cup {c} /\ c \notin Members(s, b) /\ Nil \notin Members(s, b)
  BY <1>2, <1>3, <1>4 DEF Members
<1>8. head \in Members(s, b) \cup {Nil}
  <2>1. PICK n, w : Tour(Members(s, b), s.conn, head, w, n)
    BY <1>1, <1>3 DEF Toured, ListOf, head
  <2> QED BY <2>1 DEF Tour, At
<1>9. Toured(t)
  <2> SUFFICES ASSUME NEW a \in BucketIndex PROVE \E n : \E w : ListOf(t, a, w, n)
    BY DEF Toured
  <2>1. PICK n, w : ListOf(s, a, w, n)
    BY <1>1 DEF Toured
  <2>2. CASE a # b
    <3>1. \A d \in Members(s, a) : d \in Slots /\ d # c /\ d # head
      BY <1>4, <1>8, <2>2 DEF Members
    <3>2. \A d \in Members(s, a) : t.conn[d].next = s.conn[d].next /\ t.conn[d].prev = s.conn[d].prev
      BY <1>2, <3>1
    <3>3. Members(t, a) = Members(s, a) /\ t.sub[a] = s.sub[a]
      BY <1>5, <1>6, <2>2
    <3>4. ListOf(t, a, w, n)
      BY <2>1, <3>2, <3>3 DEF ListOf, Tour
    <3> QED BY <3>4
  <2>3. CASE a = b
    <3>1. Tour(Members(s, b), s.conn, head, w, n)
      BY <2>1, <2>3 DEF ListOf, head
    <3>2. Joined(Members(s, b), s.conn, t.conn, c, head)
      <4>1. \A d \in Members(s, b) : d \in Slots /\ d # c
        BY <1>7 DEF Members
      <4> QED BY <1>2, <4>1 DEF Joined
    <3>3. \E v : Tour(Members(s, b) \cup {c}, t.conn, c, v, n + 1)
      BY <1>7, <3>1, <3>2, TourJoined
    <3>4. \E v : ListOf(t, b, v, n + 1)
      BY <1>5, <1>7, <3>3 DEF ListOf
    <3> QED BY <2>3, <3>4
  <2> QED BY <2>2, <2>3
<1>10. Headed(t)
  BY <1>1, <1>4, <1>5 DEF Headed
<1>11. Subscribed(t)
  <2> SUFFICES ASSUME NEW d \in Slots
               PROVE  /\ t.conn[d].open => /\ t.conn[d].bucket \in BucketIndex
                                           /\ t.sub[t.conn[d].bucket].id = t.conn[d].id
                      /\ ~t.conn[d].open => t.conn[d].bucket = Nil
    BY DEF Subscribed
  <2>1. CASE d = c
    BY <1>2, <1>3, <1>5, <2>1
  <2>2. CASE d # c /\ s.conn[d].open
    <3>1. /\ t.conn[d].open = s.conn[d].open /\ t.conn[d].id = s.conn[d].id
          /\ t.conn[d].bucket = s.conn[d].bucket
      BY <1>2, <2>2
    <3>2. s.conn[d].bucket \in BucketIndex /\ s.sub[s.conn[d].bucket].id = s.conn[d].id
      BY <1>1, <2>2 DEF Subscribed
    <3>3. s.conn[d].bucket = b => s.conn[d].id = id
      <4> SUFFICES ASSUME s.conn[d].bucket = b PROVE s.conn[d].id = id
        OBVIOUS
      <4>1. d \in Members(s, b)
        BY DEF Members
      <4>2. s.sub[b].state = "occupied"
        BY <1>1, <1>3, <4>1, MemberLinks
      <4> QED BY <1>3, <3>2, <4>2
    <3> QED BY <1>5, <2>2, <3>1, <3>2, <3>3
  <2>3. CASE d # c /\ ~s.conn[d].open
    BY <1>1, <1>2, <2>3 DEF Subscribed
  <2> QED BY <2>1, <2>2, <2>3
<1>12. \A a \in BucketIndex : s.sub[a].state # "empty" => t.sub[a].state # "empty"
  BY <1>5
<1>13. Findable(t)
  <2> SUFFICES ASSUME NEW a \in BucketIndex, t.sub[a].state = "occupied"
               PROVE  t.sub[a].id \in Ids /\ Reached(t, t.sub[a].id, a)
    BY DEF Findable
  <2>1. CASE a = b
    <3>1. PICK n \in Probes : /\ Probe(id, n) = b
                              /\ \A k \in 0 .. n : k # n => s.sub[Probe(id, k)].state # "empty"
      BY DEF Suits
    <3>2. \A k \in 0 .. n : Probe(id, k) \in BucketIndex
      BY ProbeType
    <3>3. \A k \in 0 .. n : t.sub[Probe(id, k)].state # "empty"
      BY <1>5, <1>12, <3>1, <3>2
    <3>4. Reached(t, id, b)
      BY <3>1, <3>3 DEF Reached
    <3> QED BY <1>5, <2>1, <3>4
  <2>2. CASE a # b
    <3> DEFINE i == s.sub[a].id
    <3>1. t.sub[a] = s.sub[a] /\ i \in Ids /\ Reached(s, i, a)
      BY <1>1, <1>5, <2>2 DEF Findable
    <3> HIDE DEF i
    <3>2. PICK n \in Probes : Probe(i, n) = a /\ \A k \in 0 .. n : s.sub[Probe(i, k)].state # "empty"
      BY <3>1 DEF Reached
    <3>3. \A k \in 0 .. n : Probe(i, k) \in BucketIndex
      BY <3>1, ProbeType
    <3>4. \A k \in 0 .. n : t.sub[Probe(i, k)].state # "empty"
      BY <1>12, <3>2, <3>3
    <3>5. Reached(t, i, a)
      BY <3>2, <3>4 DEF Reached
    <3> QED BY <3>1, <3>5 DEF i
  <2> QED BY <2>1, <2>2
<1>14. OneBucket(t)
  <2> SUFFICES ASSUME NEW a \in BucketIndex, NEW d \in BucketIndex, t.sub[a].state = "occupied",
                      t.sub[d].state = "occupied", t.sub[a].id = t.sub[d].id
               PROVE  a = d
    BY DEF OneBucket
  <2>1. CASE a = b \/ d = b
    BY <1>3, <1>5, <2>1
  <2>2. CASE a # b /\ d # b
    BY <1>1, <1>5, <2>2 DEF OneBucket
  <2> QED BY <2>1, <2>2
<1> QED BY <1>2, <1>9, <1>10, <1>11, <1>13, <1>14 DEF Indexed

-----------------------------------------------------------------------------
(***************************************************************************)
(* Counting the places of the pool, next to the index.                     *)
(***************************************************************************)
OpenIn(s) == {c \in Slots : s.conn[c].open}

Good(s) == Indexed(s) /\ s.active = Cardinality(OpenIn(s))

\* A method that ends n of the reservations that are not connections yet: none
\* of its ways gives a place back twice, or keeps one.
Leads(s, t, n) ==
    /\ Good(t)
    /\ t.reserved - t.active = s.reserved - s.active - n
    /\ t.reserved <= s.reserved

LEMMA GoodTypes ==
    ASSUME NEW s, Good(s)
    PROVE  s \in Pool /\ s.reserved \in Int /\ s.active \in Int
BY DEF Good, Indexed, Pool

LEMMA LeadsTrans ==
    ASSUME NEW s, NEW m, NEW t, NEW a \in Nat, NEW b \in Nat, Good(s), Leads(s, m, a), Leads(m, t, b)
    PROVE  Leads(s, t, a + b)
<1>1. Good(m) /\ Good(t)
  BY DEF Leads
<1>2. /\ s.reserved \in Int /\ s.active \in Int /\ m.reserved \in Int /\ m.active \in Int
      /\ t.reserved \in Int /\ t.active \in Int
  BY <1>1, GoodTypes
<1>3. /\ m.reserved - m.active = s.reserved - s.active - a /\ m.reserved <= s.reserved
      /\ t.reserved - t.active = m.reserved - m.active - b /\ t.reserved <= m.reserved
  BY DEF Leads
<1>4. t.reserved - t.active = s.reserved - s.active - (a + b) /\ t.reserved <= s.reserved
  BY <1>2, <1>3
<1> QED BY <1>1, <1>4 DEF Leads

LEMMA OpenFinite ==
    ASSUME EnvOK, NEW s
    PROVE  IsFiniteSet(OpenIn(s)) /\ Cardinality(OpenIn(s)) \in Nat
<1>1. IsFiniteSet(OpenIn(s))
  <2>1. OpenIn(s) \in SUBSET Slots
    BY DEF OpenIn
  <2> QED BY <2>1, EnvTypes, FS_Subset
<1> QED BY <1>1, FS_CardinalityType

LEMMA SameLeads ==
    ASSUME EnvOK, NEW s, NEW t, Good(s), Same(s, t)
    PROVE  Leads(s, t, 0)
<1>1. s.reserved \in Int /\ s.active \in Int
  BY GoodTypes
<1>2. Indexed(t)
  BY SameIndexed DEF Good
<1>3. OpenIn(t) = OpenIn(s) /\ t.reserved = s.reserved /\ t.active = s.active
  BY DEF Same, Linked, OpenIn
<1>4. Good(t)
  BY <1>2, <1>3 DEF Good
<1> QED BY <1>1, <1>3, <1>4 DEF Leads

LEMMA TouchedLeads ==
    ASSUME EnvOK, NEW s, NEW t, NEW c \in Slots, Good(s), Touched(s, t, c)
    PROVE  Leads(s, t, 0)
<1>1. s.reserved \in Int /\ s.active \in Int
  BY GoodTypes
<1>2. CASE Same(s, t)
  BY <1>2, SameLeads
<1>3. CASE Gone(s, t, c)
  <2>1. Indexed(t)
    BY <1>3, GoneIndexed DEF Good
  <2>2. /\ s.conn[c].open /\ t.conn[c] = FreeConnection
        /\ t.reserved = s.reserved - 1 /\ t.active = s.active - 1
        /\ \A d \in Slots : d # c => t.conn[d].open = s.conn[d].open
    BY <1>3 DEF Gone, Relinked
  <2>3. OpenIn(t) = OpenIn(s) \ {c} /\ c \in OpenIn(s)
    BY <2>2 DEF OpenIn, FreeConnection
  <2>4. Cardinality(OpenIn(t)) = Cardinality(OpenIn(s)) - 1
    BY <2>3, OpenFinite, FS_RemoveElement
  <2>5. Good(t)
    BY <2>1, <2>2, <2>4 DEF Good
  <2> QED BY <1>1, <2>2, <2>5 DEF Leads
<1> QED BY <1>2, <1>3 DEF Touched

\* accept_upgrade ends one reservation, whichever way it goes.
LEMMA AcceptedLeads ==
    ASSUME EnvOK, NEW s, Good(s), NEW u, HandoverOK(u)
    PROVE  Leads(s, accept_upgrade(s, u), 1)
<1> DEFINE c == FirstOf(FreeSlots(s))
           m == [s EXCEPT !.conn[c] = Welcome(u), !.active = @ + 1]
           t == accept_upgrade(s, u)
<1>1. s \in Pool /\ s.reserved \in Int /\ s.active \in Int /\ Indexed(s)
  BY GoodTypes DEF Good
<1>2. CASE FreeSlots(s) = {} \/ ~u.sound
  <2>1. t = [s EXCEPT !.reserved = @ - 1]
    BY <1>2 DEF accept_upgrade
  <2> HIDE DEF t
  <2>2. /\ t.conn = s.conn /\ t.sub = s.sub /\ t.active = s.active /\ t.reserved = s.reserved - 1
        /\ t \in Pool
    BY <1>1, <2>1 DEF Pool
  <2>3. Alike(s, t) /\ OpenIn(t) = OpenIn(s)
    BY <2>2 DEF Alike, Linked, OpenIn
  <2>4. Good(t)
    BY <1>1, <2>2, <2>3, AlikeIndexed DEF Good
  <2>5. Leads(s, t, 1)
    BY <1>1, <2>2, <2>4 DEF Leads
  <2> QED BY <2>5 DEF t
<1>3. CASE FreeSlots(s) # {} /\ u.sound
  <2>1. c \in Slots /\ ~s.conn[c].open
    <3>1. FreeSlots(s) \subseteq Nat
      BY EnvTypes DEF FreeSlots
    <3>2. c \in FreeSlots(s)
      BY <1>3, <3>1, FirstIs
    <3> HIDE DEF c
    <3> QED BY <3>2 DEF FreeSlots
  <2>2. t = IF find_or_create_subscription(s, u.id) = Nil THEN close(m, c)
            ELSE receive(subscribe(m, c), c, <<>>)
    <3>1. Welcome(u) = [FreeConnection EXCEPT !.open = TRUE, !.id = u.id,
                                              !.unread = u.pre, !.out = 1]
      BY DEF Welcome
    <3> QED BY <1>3, <3>1 DEF accept_upgrade
  <2>3. u.id \in Ids
    BY DEF HandoverOK
  <2> HIDE DEF t, c
  <2>4. CASE find_or_create_subscription(s, u.id) = Nil
    <3>1. Welcome(u) \in Connection /\ Welcome(u).open /\ Welcome(u).bucket = Nil
      <4>1. u.pre \in Seq(Frames)
        BY DEF HandoverOK
      <4> QED BY <2>3, <4>1, FreeType DEF Welcome, Connection, FreeConnection
    <3>2. /\ m.conn = [s.conn EXCEPT ![c] = Welcome(u)] /\ m.sub = s.sub
          /\ m.reserved = s.reserved /\ m.active = s.active + 1 /\ m \in Pool
      <4>1. /\ m.conn = [s.conn EXCEPT ![c] = Welcome(u)] /\ m.sub = s.sub
            /\ m.reserved = s.reserved /\ m.active = s.active + 1
            /\ m = [conn |-> m.conn, sub |-> m.sub, reserved |-> m.reserved, active |-> m.active]
        <5> DEFINE k == Welcome(u)
        <5>1. m = [s EXCEPT !.conn[c] = k, !.active = @ + 1]
          OBVIOUS
        <5> HIDE DEF m, k
        <5>2. m.conn = [s.conn EXCEPT ![c] = k]
          BY <1>1, <5>1 DEF Pool
        <5> QED BY <1>1, <5>1, <5>2 DEF Pool, k
      <4>2. /\ s.conn \in [Slots -> Connection] /\ s.sub \in [BucketIndex -> Bucket]
            /\ s.active + 1 \in Int
        BY <1>1 DEF Pool
      <4>3. m.conn \in [Slots -> Connection]
        BY <2>1, <3>1, <4>1, <4>2
      <4> HIDE DEF m
      <4> QED BY <1>1, <4>1, <4>2, <4>3 DEF Pool
    <3> HIDE DEF m
    <3>3. /\ m.conn[c].open /\ m.conn[c].bucket = Nil
          /\ \A d \in Slots : d # c => m.conn[d] = s.conn[d]
      BY <1>1, <2>1, <3>1, <3>2 DEF Pool
    <3>4. Gone(m, t, c)
      BY <2>1, <2>2, <2>4, <3>2, <3>3, ClosedGone
    <3>5. /\ t \in Pool /\ t.conn[c] = FreeConnection
          /\ t.reserved = s.reserved - 1 /\ t.active = s.active /\ t.sub = s.sub
          /\ \A d \in Slots : d # c => Linked(s.conn[d], t.conn[d])
      <4>1. /\ t \in Pool /\ t.conn[c] = FreeConnection
            /\ t.reserved = m.reserved - 1 /\ t.active = m.active - 1
            /\ t.sub = SubAfter(m.sub, m.conn[c], c)
            /\ \A d \in Slots : d # c => Relinked(m.conn[c], d, m.conn[d], t.conn[d])
        BY <3>4 DEF Gone
      <4>2. t.sub = s.sub
        BY <3>2, <3>3, <4>1 DEF SubAfter
      <4>3. \A d \in Slots : d # c => Linked(s.conn[d], t.conn[d])
        BY <3>3, <4>1 DEF Relinked, Linked
      <4> QED BY <1>1, <3>2, <4>1, <4>2, <4>3
    <3>6. Alike(s, t)
      <4>1. s.conn[c].bucket = Nil
        BY <1>1, <2>1 DEF Indexed, Subscribed
      <4>2. t.conn[c].open = s.conn[c].open
        <5>1. s.conn[c].open \in BOOLEAN
          BY <1>1, <2>1, ConnectionOf DEF Connection
        <5>2. s.conn[c].open = FALSE
          BY <2>1, <5>1, Zenon
        <5>3. t.conn[c].open = FALSE
          BY <3>5 DEF FreeConnection
        <5> QED BY <5>2, <5>3
      <4>3. t.conn[c].bucket = Nil
        BY <3>5 DEF FreeConnection
      <4> QED BY <2>1, <3>5, <4>1, <4>2, <4>3 DEF Alike, Linked
    <3>7. OpenIn(t) = OpenIn(s)
      BY <3>6 DEF Alike, OpenIn
    <3>8. Good(t)
      BY <1>1, <3>5, <3>6, <3>7, AlikeIndexed DEF Good
    <3>9. Leads(s, t, 1)
      BY <1>1, <3>5, <3>8 DEF Leads
    <3> QED BY <3>9 DEF t
  <2>5. CASE find_or_create_subscription(s, u.id) # Nil
    <3> DEFINE b == find_or_create_subscription(s, u.id)
               n == subscribe(m, c)
    <3>1. Admitted(s, n, c, u.id, b)
      BY <1>1, <2>1, <2>5, SubscribedAdmits
    <3>2. Suits(s, u.id, b)
      BY <1>1, <2>3, <2>5, ChosenSuits
    <3>3. t = receive(n, c, <<>>)
      BY <2>2, <2>5
    <3> HIDE DEF n, b, m
    <3>4. Indexed(n)
      BY <1>1, <2>1, <2>3, <3>1, <3>2, AdmittedIndexed
    <3>5. /\ n \in Pool /\ n.conn[c].open /\ n.reserved = s.reserved /\ n.active = s.active + 1
          /\ \A d \in Slots : d # c => n.conn[d].open = s.conn[d].open
      BY <3>1 DEF Admitted
    <3>6. OpenIn(n) = OpenIn(s) \cup {c} /\ c \notin OpenIn(s)
      BY <2>1, <3>5 DEF OpenIn
    <3>7. Cardinality(OpenIn(n)) = Cardinality(OpenIn(s)) + 1
      BY <3>6, OpenFinite, FS_AddElement
    <3>8. Good(n)
      BY <3>4, <3>5, <3>7 DEF Good
    <3>9. Leads(s, n, 1)
      BY <1>1, <3>5, <3>8 DEF Leads
    <3>10. Touched(n, t, c)
      <4>1. <<>> \in Seq(Frames)
        OBVIOUS
      <4> QED BY <2>1, <3>3, <3>5, <4>1, ReceivedTouched
    <3>11. Leads(n, t, 0)
      BY <2>1, <3>8, <3>10, TouchedLeads
    <3>12. Leads(s, t, 1 + 0)
      BY <3>9, <3>11, LeadsTrans
    <3> QED BY <3>12 DEF t
  <2> QED BY <2>4, <2>5
<1> QED BY <1>2, <1>3

LEMMA LeadsRefl ==
    ASSUME NEW s, Good(s)
    PROVE  Leads(s, s, 0)
BY GoodTypes DEF Leads

\* broadcast reaches the subscribers one by one; it may lose some on the way.
LEMMA BroadcastLeads ==
    ASSUME EnvOK, NEW s, Good(s), NEW id \in Ids
    PROVE  Leads(s, broadcast(s, id), 0)
<1> DEFINE b == find_subscription(s, id)
           chain == Chain(s, s.sub[b].head)
           N == Len(chain)
           T == {p \in Pool : Leads(s, p, 0)}
           step == [n \in 1 .. N |-> [p \in T |-> Fanout(p, chain[n])]]
           body(g) == [n \in 0 .. N |-> IF n = 0 THEN s ELSE Fanout(g[n - 1], chain[n])]
           sent == CHOOSE g : g = body(g)
<1>1. s \in Pool /\ Indexed(s)
  BY GoodTypes DEF Good
<1>2. CASE b = Nil
  <2>1. broadcast(s, id) = s
    BY <1>2 DEF broadcast
  <2> QED BY <2>1, LeadsRefl
<1>3. CASE b # Nil
  <2>1. b \in BucketIndex
    BY <1>1, <1>3, SearchFinds
  <2>2. N \in Nat /\ \A n \in 1 .. N : chain[n] \in Slots
    <3>1. PICK n, w : Tour(Members(s, b), s.conn, s.sub[b].head, w, n)
      BY <1>1, <2>1 DEF Indexed, Toured, ListOf
    <3>2. Members(s, b) \subseteq Slots
      BY DEF Members
    <3>3. chain = w /\ n \in Nat /\ w \in [1 .. n -> Slots]
      <4>1. chain = w
        BY <1>1, <3>1, <3>2, ChainIsTour
      <4> QED BY <3>1, <3>2, <4>1 DEF Tour
    <3> HIDE DEF chain
    <3>4. chain \in Seq(Slots)
      BY <3>3
    <3> QED BY <3>4
  <2> HIDE DEF chain, b
  <2>3. s \in T
    BY <1>1, LeadsRefl
  <2>4. ASSUME NEW p \in T, NEW n \in 1 .. N PROVE Fanout(p, chain[n]) \in T
    <3> DEFINE q == Fanout(p, chain[n])
    <3>1. p \in Pool /\ Leads(s, p, 0) /\ Good(p) /\ chain[n] \in Slots
      BY <2>2 DEF Leads
    <3>2. Touched(p, q, chain[n])
      BY <3>1, FanoutTouched
    <3> HIDE DEF q
    <3>3. Leads(p, q, 0)
      BY <3>1, <3>2, TouchedLeads
    <3>4. Leads(s, q, 0 + 0)
      BY <3>1, <3>3, LeadsTrans
    <3>5. Leads(s, q, 0) /\ q \in Pool
      BY <3>3, <3>4, GoodTypes DEF Leads
    <3> QED BY <3>5 DEF q
  <2> HIDE DEF N, T
  <2>5. PICK f : Turns(f, step, T, s, N)
    <3>1. step \in [1 .. N -> [T -> T]]
      BY <2>4
    <3> HIDE DEF step
    <3> QED BY <2>2, <2>3, <3>1, TurnsExist
  <2>6. f = body(f)
    <3>1. f \in [0 .. N -> T] /\ f[0] = s /\ \A n \in 1 .. N : f[n] = step[n][f[n - 1]]
      BY <2>5 DEF Turns
    <3>2. \A n \in 1 .. N : f[n - 1] \in T
      BY <2>2, <3>1
    <3>3. \A n \in 1 .. N : f[n] = Fanout(f[n - 1], chain[n])
      BY <3>1, <3>2
    <3> DEFINE D(n) == IF n = 0 THEN s ELSE Fanout(f[n - 1], chain[n])
    <3>4. \A n \in 0 .. N : f[n] = D(n)
      BY <2>2, <3>1, <3>3
    <3> HIDE DEF D
    <3>5. f = [n \in 0 .. N |-> D(n)]
      BY <3>1, <3>4
    <3> QED BY <3>5 DEF D
  <2>7. sent = body(sent)
    <3> HIDE DEF body
    <3> QED BY <2>6
  <2> HIDE DEF sent
  <2>8. sent[0] = s /\ \A n \in 1 .. N : sent[n] = Fanout(sent[n - 1], chain[n])
    <3> DEFINE D(n) == IF n = 0 THEN s ELSE Fanout(sent[n - 1], chain[n])
    <3>1. sent = [n \in 0 .. N |-> D(n)]
      BY <2>7
    <3>2. D(0) = s /\ \A n \in 1 .. N : n \in 0 .. N /\ D(n) = Fanout(sent[n - 1], chain[n])
      BY <2>2
    <3>3. 0 \in 0 .. N
      BY <2>2
    <3> HIDE DEF D
    <3> QED BY <3>1, <3>2, <3>3
  <2>9. sent[N] \in T
    <3>1. \A n \in 1 .. N : sent[n - 1] \in T => sent[n] \in T
      BY <2>4, <2>8
    <3> QED BY <2>2, <2>3, <2>8, <3>1, TurnsKeep
  <2>10. broadcast(s, id) = sent[N]
    BY <1>3 DEF broadcast, sent, N, chain, b
  <2> QED BY <2>9, <2>10 DEF T
<1> QED BY <1>2, <1>3

-----------------------------------------------------------------------------
(***************************************************************************)
(* What one turn of the worker does to the pool.                           *)
(***************************************************************************)
LEMMA TakenType ==
    ASSUME NEW T, NEW q \in Seq(T), NEW m \in Nat
    PROVE  /\ Taken(q, m) \in Seq(T) /\ Kept(q, m) \in Seq(T)
           /\ Len(Taken(q, m)) \in Nat /\ Len(Kept(q, m)) = Len(q) - Len(Taken(q, m))
           /\ \A n \in 1 .. Len(Taken(q, m)) : Taken(q, m)[n] \in T
<1>1. Len(q) \in Nat /\ \A n \in 1 .. Len(q) : q[n] \in T
  BY LenProperties
<1>2. Taken(q, m) \in Seq(T) /\ Len(Taken(q, m)) = IF Len(q) <= m THEN Len(q) ELSE m
  <2>1. CASE Len(q) <= m
    BY <2>1 DEF Taken
  <2>2. CASE ~(Len(q) <= m)
    <3> DEFINE a == SubSeq(q, 1, m)
    <3>1. \A n \in 1 .. m : q[n] \in T
      BY <1>1, <2>2
    <3>2. a \in Seq(T) /\ Len(a) = IF 1 <= m THEN m - 1 + 1 ELSE 0
      BY <3>1, SubSeqProperties
    <3>3. Taken(q, m) = a
      BY <2>2 DEF Taken
    <3> HIDE DEF a
    <3> QED BY <2>2, <3>2, <3>3
  <2> QED BY <2>1, <2>2
<1>3. Kept(q, m) \in Seq(T) /\ Len(Kept(q, m)) = IF m + 1 <= Len(q) THEN Len(q) - m ELSE 0
  <2> DEFINE a == SubSeq(q, m + 1, Len(q))
  <2>1. \A n \in m + 1 .. Len(q) : q[n] \in T
    BY <1>1
  <2>2. a \in Seq(T) /\ Len(a) = IF m + 1 <= Len(q) THEN Len(q) - (m + 1) + 1 ELSE 0
    BY <1>1, <2>1, SubSeqProperties
  <2>3. Kept(q, m) = a
    BY DEF Kept
  <2> HIDE DEF a
  <2> QED BY <1>1, <2>2, <2>3
<1> HIDE DEF Taken, Kept
<1>4. \A n \in 1 .. Len(Taken(q, m)) : Taken(q, m)[n] \in T
  BY <1>2, LenProperties
<1> DEFINE x == Len(Taken(q, m))
           y == Len(Kept(q, m))
<1>5. x \in Nat /\ y = Len(q) - x
  <2>1. x = (IF Len(q) <= m THEN Len(q) ELSE m) /\ y = IF m + 1 <= Len(q) THEN Len(q) - m ELSE 0
    BY <1>2, <1>3
  <2> DEFINE L == Len(q)
  <2>2. L \in Nat /\ x = (IF L <= m THEN L ELSE m) /\ y = IF m + 1 <= L THEN L - m ELSE 0
    BY <1>1, <2>1
  <2> HIDE DEF x, y, L
  <2>3. x \in Nat /\ y = L - x
    BY ONLY <2>2, m \in Nat
  <2> QED BY <2>3 DEF L
<1> QED BY <1>2, <1>3, <1>4, <1>5

LEMMA FillsLead ==
    ASSUME EnvOK, Good(srv), events \in Seq(Ids), run_fills
    PROVE  Leads(srv, srv', 0)
<1> DEFINE fills == Taken(events, FillsPerTurn)
           N == Len(fills)
           T == {p \in Pool : Leads(srv, p, 0)}
           step == [n \in 1 .. N |-> [p \in T |-> broadcast(p, fills[n])]]
           body(g) == [n \in 0 .. N |-> IF n = 0 THEN srv ELSE broadcast(g[n - 1], fills[n])]
           sent == CHOOSE g : g = body(g)
<1>1. N \in Nat /\ \A n \in 1 .. N : fills[n] \in Ids
  BY TakenType, WebSocketAssumption
<1>2. srv' = sent[N]
  BY DEF run_fills
<1> HIDE DEF fills
<1>3. srv \in T
  BY GoodTypes, LeadsRefl
<1>4. ASSUME NEW p \in T, NEW n \in 1 .. N PROVE broadcast(p, fills[n]) \in T
  <2> DEFINE q == broadcast(p, fills[n])
  <2>1. p \in Pool /\ Leads(srv, p, 0) /\ Good(p) /\ fills[n] \in Ids
    BY <1>1 DEF Leads
  <2>2. Leads(p, q, 0)
    BY <2>1, BroadcastLeads
  <2> HIDE DEF q
  <2>3. Leads(srv, q, 0 + 0)
    BY <2>1, <2>2, LeadsTrans
  <2>4. Leads(srv, q, 0) /\ q \in Pool
    BY <2>2, <2>3, GoodTypes DEF Leads
  <2> QED BY <2>4 DEF q
<1> HIDE DEF N, T
<1>5. PICK f : Turns(f, step, T, srv, N)
  <2>1. step \in [1 .. N -> [T -> T]]
    BY <1>4
  <2> HIDE DEF step
  <2> QED BY <1>1, <1>3, <2>1, TurnsExist
<1>6. f = body(f)
  <2>1. f \in [0 .. N -> T] /\ f[0] = srv /\ \A n \in 1 .. N : f[n] = step[n][f[n - 1]]
    BY <1>5 DEF Turns
  <2>2. \A n \in 1 .. N : f[n - 1] \in T
    BY <1>1, <2>1
  <2>3. \A n \in 1 .. N : f[n] = broadcast(f[n - 1], fills[n])
    BY <2>1, <2>2
  <2> DEFINE D(n) == IF n = 0 THEN srv ELSE broadcast(f[n - 1], fills[n])
  <2>4. \A n \in 0 .. N : f[n] = D(n)
    BY <1>1, <2>1, <2>3
  <2> HIDE DEF D
  <2>5. f = [n \in 0 .. N |-> D(n)]
    BY <2>1, <2>4
  <2> QED BY <2>5 DEF D
<1>7. sent = body(sent)
  <2> HIDE DEF body
  <2> QED BY <1>6
<1> HIDE DEF sent
<1>8. sent[0] = srv /\ \A n \in 1 .. N : sent[n] = broadcast(sent[n - 1], fills[n])
  <2> DEFINE D(n) == IF n = 0 THEN srv ELSE broadcast(sent[n - 1], fills[n])
  <2>1. sent = [n \in 0 .. N |-> D(n)]
    BY <1>7
  <2>2. D(0) = srv /\ \A n \in 1 .. N : n \in 0 .. N /\ D(n) = broadcast(sent[n - 1], fills[n])
    BY <1>1
  <2>3. 0 \in 0 .. N
    BY <1>1
  <2> HIDE DEF D
  <2> QED BY <2>1, <2>2, <2>3
<1>9. sent[N] \in T
  <2>1. \A n \in 1 .. N : sent[n - 1] \in T => sent[n] \in T
    BY <1>4, <1>8
  <2> QED BY <1>1, <1>3, <1>8, <2>1, TurnsKeep
<1> QED BY <1>2, <1>9 DEF T

LEMMA MaintainLeads ==
    ASSUME EnvOK, Good(srv), NEW send, run_maintain(send)
    PROVE  Leads(srv, srv', 0)
<1> DEFINE N == env.slots
           T == {p \in Pool : Leads(srv, p, 0)}
           A(p, n) == service_keepalive(p, n - 1, send)
           step == [n \in 1 .. N |-> [p \in T |-> A(p, n)]]
           body(g) == [n \in 0 .. N |-> IF n = 0 THEN srv ELSE A(g[n - 1], n)]
           kept == CHOOSE g : g = body(g)
<1>1. N \in Nat /\ \A n \in 1 .. N : n - 1 \in Slots
  <2>1. N \in Nat
    BY EnvTypes
  <2> QED BY <2>1 DEF Slots
<1>2. srv' = srv \/ srv' = kept[N]
  BY DEF run_maintain
<1>3. srv \in T
  BY GoodTypes, LeadsRefl
<1>4. ASSUME NEW p \in T, NEW n \in 1 .. N PROVE A(p, n) \in T
  <2> DEFINE q == A(p, n)
             c == n - 1
  <2>1. p \in Pool /\ Leads(srv, p, 0) /\ Good(p) /\ c \in Slots
    BY <1>1 DEF Leads
  <2>2. Touched(p, q, c)
    <3>1. q = service_keepalive(p, c, send)
      OBVIOUS
    <3> HIDE DEF c, q
    <3> QED BY <2>1, <3>1, KeptTouched
  <2> HIDE DEF q, c
  <2>3. Leads(p, q, 0)
    BY <2>1, <2>2, TouchedLeads
  <2>4. Leads(srv, q, 0 + 0)
    BY <2>1, <2>3, LeadsTrans
  <2>5. Leads(srv, q, 0) /\ q \in Pool
    BY <2>3, <2>4, GoodTypes DEF Leads
  <2> QED BY <2>5 DEF q
<1> HIDE DEF N, T, A
<1>5. PICK f : Turns(f, step, T, srv, N)
  <2>1. step \in [1 .. N -> [T -> T]]
    BY <1>4
  <2> HIDE DEF step
  <2> QED BY <1>1, <1>3, <2>1, TurnsExist
<1>6. f = body(f)
  <2>1. f \in [0 .. N -> T] /\ f[0] = srv /\ \A n \in 1 .. N : f[n] = step[n][f[n - 1]]
    BY <1>5 DEF Turns
  <2>2. \A n \in 1 .. N : f[n - 1] \in T
    BY <1>1, <2>1
  <2>3. \A n \in 1 .. N : f[n] = A(f[n - 1], n)
    BY <2>1, <2>2
  <2> DEFINE D(n) == IF n = 0 THEN srv ELSE A(f[n - 1], n)
  <2>4. \A n \in 0 .. N : f[n] = D(n)
    BY <1>1, <2>1, <2>3
  <2> HIDE DEF D
  <2>5. f = [n \in 0 .. N |-> D(n)]
    BY <2>1, <2>4
  <2> QED BY <2>5 DEF D
<1>7. kept = body(kept)
  <2> HIDE DEF body
  <2> QED BY <1>6
<1> HIDE DEF kept
<1>8. kept[0] = srv /\ \A n \in 1 .. N : kept[n] = A(kept[n - 1], n)
  <2> DEFINE D(n) == IF n = 0 THEN srv ELSE A(kept[n - 1], n)
  <2>1. kept = [n \in 0 .. N |-> D(n)]
    BY <1>7
  <2>2. D(0) = srv /\ \A n \in 1 .. N : n \in 0 .. N /\ D(n) = A(kept[n - 1], n)
    BY <1>1
  <2>3. 0 \in 0 .. N
    BY <1>1
  <2> HIDE DEF D
  <2> QED BY <2>1, <2>2, <2>3
<1>9. kept[N] \in T
  <2>1. \A n \in 1 .. N : kept[n - 1] \in T => kept[n] \in T
    BY <1>4, <1>8
  <2> QED BY <1>1, <1>3, <1>8, <2>1, TurnsKeep
<1> QED BY <1>2, <1>3, <1>9 DEF T

LEMMA HandoversOK ==
    ASSUME EnvOK, NEW u \in Handovers
    PROVE  HandoverOK(u)
<1>1. u.id \in env.ids /\ u.pre \in env.pre
  BY DEF Handovers
<1>2. env.ids \subseteq Ids /\ env.pre \subseteq Seq(Frames)
  BY WebSocketAssumption DEF EnvOK
<1> QED BY <1>1, <1>2 DEF HandoverOK

\* Every socket taken from the ring ends one reservation.
LEMMA UpgradesLead ==
    ASSUME EnvOK, Good(srv), upgrades \in Seq(Handovers), run_upgrades
    PROVE  Leads(srv, srv', Len(upgrades) - Len(upgrades'))
<1> DEFINE jobs == Taken(upgrades, UpgradesPerTurn)
           N == Len(jobs)
           T == {p \in Pool : Good(p)}
           A(p, n) == accept_upgrade(p, jobs[n])
           step == [n \in 1 .. N |-> [p \in T |-> A(p, n)]]
           body(g) == [n \in 0 .. N |-> IF n = 0 THEN srv ELSE A(g[n - 1], n)]
           made == CHOOSE g : g = body(g)
<1>1. N \in Nat /\ \A n \in 1 .. N : HandoverOK(jobs[n])
  <2>1. N \in Nat /\ \A n \in 1 .. N : jobs[n] \in Handovers
    BY TakenType, WebSocketAssumption
  <2> QED BY <2>1, HandoversOK
<1>2. srv' = made[N] /\ upgrades' = Kept(upgrades, UpgradesPerTurn)
  BY DEF run_upgrades
<1>3. Len(upgrades) - Len(upgrades') = N
  <2>1. Len(Kept(upgrades, UpgradesPerTurn)) = Len(upgrades) - N /\ Len(upgrades) \in Nat
    BY TakenType, WebSocketAssumption, LenProperties
  <2> QED BY <1>1, <1>2, <2>1
<1> HIDE DEF jobs
<1>4. srv \in T
  BY GoodTypes
<1>5. ASSUME NEW p \in T, NEW n \in 1 .. N PROVE A(p, n) \in T /\ Leads(p, A(p, n), 1)
  <2>1. Leads(p, A(p, n), 1)
    BY <1>1, AcceptedLeads
  <2> HIDE DEF A
  <2> QED BY <2>1, GoodTypes DEF Leads
<1> HIDE DEF N, T, A
<1>6. PICK f : Turns(f, step, T, srv, N)
  <2>1. step \in [1 .. N -> [T -> T]]
    BY <1>5
  <2> HIDE DEF step
  <2> QED BY <1>1, <1>4, <2>1, TurnsExist
<1>7. f = body(f)
  <2>1. f \in [0 .. N -> T] /\ f[0] = srv /\ \A n \in 1 .. N : f[n] = step[n][f[n - 1]]
    BY <1>6 DEF Turns
  <2>2. \A n \in 1 .. N : f[n - 1] \in T
    BY <1>1, <2>1
  <2>3. \A n \in 1 .. N : f[n] = A(f[n - 1], n)
    BY <2>1, <2>2
  <2> DEFINE D(n) == IF n = 0 THEN srv ELSE A(f[n - 1], n)
  <2>4. \A n \in 0 .. N : f[n] = D(n)
    BY <1>1, <2>1, <2>3
  <2> HIDE DEF D
  <2>5. f = [n \in 0 .. N |-> D(n)]
    BY <2>1, <2>4
  <2> QED BY <2>5 DEF D
<1>8. made = body(made)
  <2> HIDE DEF body
  <2> QED BY <1>7
<1> HIDE DEF made
<1>9. made[0] = srv /\ \A n \in 1 .. N : made[n] = A(made[n - 1], n)
  <2> DEFINE D(n) == IF n = 0 THEN srv ELSE A(made[n - 1], n)
  <2>1. made = [n \in 0 .. N |-> D(n)]
    BY <1>8
  <2>2. D(0) = srv /\ \A n \in 1 .. N : n \in 0 .. N /\ D(n) = A(made[n - 1], n)
    BY <1>1
  <2>3. 0 \in 0 .. N
    BY <1>1
  <2> HIDE DEF D
  <2> QED BY <2>1, <2>2, <2>3
<1> DEFINE S == {n \in Nat : n <= N => made[n] \in T /\ Leads(srv, made[n], n)}
<1>10. 0 \in S
  BY <1>4, <1>9, LeadsRefl
<1>11. \A n \in Nat : n \in S => n + 1 \in S
  <2> SUFFICES ASSUME NEW n \in Nat, n \in S, n + 1 <= N
               PROVE  made[n + 1] \in T /\ Leads(srv, made[n + 1], n + 1)
    OBVIOUS
  <2>1. n + 1 \in 1 .. N /\ (n + 1) - 1 = n /\ made[n] \in T /\ Leads(srv, made[n], n)
    BY <1>1
  <2>2. made[n + 1] = A(made[n], n + 1)
    BY <1>9, <2>1
  <2>3. made[n + 1] \in T /\ Leads(made[n], made[n + 1], 1)
    BY <1>5, <2>1, <2>2
  <2>4. Leads(srv, made[n + 1], n + 1)
    BY <2>1, <2>3, LeadsTrans
  <2> QED BY <2>3, <2>4
<1>12. N \in S
  <2> HIDE DEF S
  <2> QED BY <1>1, <1>10, <1>11, NatSetInduction
<1> QED BY <1>1, <1>2, <1>3, <1>12

LEMMA ReservedGood ==
    ASSUME NEW s, Good(s), NEW x \in Int, NEW t, t = [s EXCEPT !.reserved = x], EnvOK
    PROVE  Good(t) /\ t.reserved = x /\ t.active = s.active
<1>1. s \in Pool
  BY GoodTypes
<1>2. t.conn = s.conn /\ t.sub = s.sub /\ t.active = s.active /\ t.reserved = x /\ t \in Pool
  BY <1>1 DEF Pool
<1>3. Alike(s, t) /\ OpenIn(t) = OpenIn(s)
  BY <1>2 DEF Alike, Linked, OpenIn
<1>4. Good(t)
  BY <1>2, <1>3, AlikeIndexed DEF Good
<1> QED BY <1>2, <1>4

LEMMA EmptyGood ==
    ASSUME EnvOK
    PROVE  Good(EmptyPool) /\ EmptyPool.reserved = 0 /\ EmptyPool.active = 0
<1> DEFINE s == EmptyPool
<1>1. /\ s.conn = [c \in Slots |-> FreeConnection] /\ s.sub = [b \in BucketIndex |-> EmptyBucket]
      /\ s.reserved = 0 /\ s.active = 0
      /\ s = [conn |-> s.conn, sub |-> s.sub, reserved |-> s.reserved, active |-> s.active]
  BY DEF EmptyPool
<1> HIDE DEF s
<1>2. EmptyBucket \in Bucket /\ EmptyBucket.state = "empty" /\ EmptyBucket.head = Nil
  BY DEF EmptyBucket, Bucket
<1>3. s \in Pool
  BY <1>1, <1>2, FreeType DEF Pool
<1>4. /\ \A c \in Slots : ~s.conn[c].open /\ s.conn[c].bucket = Nil
      /\ \A b \in BucketIndex : s.sub[b].state = "empty" /\ s.sub[b].head = Nil
  BY <1>1, <1>2 DEF FreeConnection
<1>5. \A b \in BucketIndex : Members(s, b) = {}
  BY <1>4, EnvTypes DEF Members
<1>6. Toured(s)
  <2> SUFFICES ASSUME NEW b \in BucketIndex PROVE \E n : \E w : ListOf(s, b, w, n)
    BY DEF Toured
  <2> DEFINE w == [i \in 1 .. 0 |-> Nil]
  <2>1. w \in [1 .. 0 -> {}]
    OBVIOUS
  <2>2. At(w, 0, 1) = Nil
    BY DEF At
  <2> HIDE DEF w
  <2>3. Tour({}, s.conn, Nil, w, 0)
    BY <2>1, <2>2 DEF Tour
  <2>4. ListOf(s, b, w, 0)
    BY <1>4, <1>5, <2>3 DEF ListOf
  <2> QED BY <2>4
<1>7. Headed(s) /\ Subscribed(s) /\ Findable(s) /\ OneBucket(s)
  BY <1>4 DEF Headed, Subscribed, Findable, OneBucket
<1>8. OpenIn(s) = {}
  BY <1>4 DEF OpenIn
<1>9. Good(s)
  BY <1>1, <1>3, <1>6, <1>7, <1>8, FS_EmptySet DEF Good, Indexed
<1> QED BY <1>1, <1>9 DEF s

\* The environment does not change, so neither do the slots.
LEMMA GoodNext ==
    ASSUME env' = env, Good(srv')
    PROVE  Good(srv)'
<1>1. Slots' = Slots /\ Nil' = Nil
  BY DEF Slots, Nil
<1>2. Pool' = Pool
  BY <1>1 DEF Pool, Connection, Bucket
<1>3. \A b : Members(srv, b)' = Members(srv', b)
  BY <1>1 DEF Members
<1>4. \A w, n, i : At(w, n, i)' = At(w, n, i)
  BY <1>1 DEF At
<1>5. Toured(srv)'
  <2>1. ASSUME NEW b \in BucketIndex, NEW n, NEW w, ListOf(srv', b, w, n) PROVE ListOf(srv, b, w, n)'
    BY <1>3, <1>4, <2>1 DEF ListOf, Tour
  <2>2. Toured(srv')
    BY DEF Good, Indexed
  <2> QED BY <2>1, <2>2 DEF Toured
<1>6. Headed(srv)' /\ Subscribed(srv)'
  BY <1>1 DEF Good, Indexed, Headed, Subscribed
<1>7. Findable(srv)' /\ OneBucket(srv)'
  BY DEF Good, Indexed, Findable, OneBucket, Reached, Probe, Probes
<1>8. OpenIn(srv)' = OpenIn(srv')
  BY <1>1 DEF OpenIn
<1> QED BY <1>2, <1>5, <1>6, <1>7, <1>8 DEF Good, Indexed

-----------------------------------------------------------------------------
(***************************************************************************)
(* The pool under the three threads.                                       *)
(***************************************************************************)
QueuesOK ==
    /\ upgrades \in Seq(Handovers) /\ (http.at # "idle" => http.job \in Handovers)
    /\ events \in Seq(Ids) /\ (exec.at # "idle" => exec.job \in Ids)

Waiting == Len(upgrades) + (IF http.at = "reserved" THEN 1 ELSE 0)

PoolInv ==
    /\ EnvOK /\ QueuesOK /\ Good(srv)
    /\ srv.reserved - srv.active = Waiting /\ srv.reserved <= env.slots

LEMMA EnvKept ==
    ASSUME [Next]_vars
    PROVE  env' = env
BY DEF Next, vars, run_test, drain_worker_signal, run_fills, run_upgrades, run_maintain,
   poll_quiet, poll_ready, upgrade_exhausted, upgrade_reserve, upgrade_push, upgrade_signal,
   upgrade_release, publish_push, publish_signal, publish_release, stop_drained, stop_joined,
   start, start_open, stop_close, upgrade_lease, publish_lease, elapse

LEMMA NextQueues ==
    ASSUME EnvOK, ThreadsOK, QueuesOK, [Next]_vars
    PROVE  QueuesOK'
<1> USE DEF QueuesOK
<1>0. Handovers' = Handovers
  BY EnvKept DEF Handovers
<1>e. upgrades \in Seq(Handovers) /\ events \in Seq(Ids)
  OBVIOUS
<1>n. <<>> \in Seq(Handovers) /\ <<>> \in Seq(Ids)
  OBVIOUS
<1>1. CASE run_fills
  <2>1. events' \in Seq(Ids) /\ UNCHANGED <<upgrades, http, exec>>
    BY <1>1, <1>e, TakenType, WebSocketAssumption DEF run_fills
  <2> QED BY <1>0, <2>1
<1>2. CASE run_upgrades
  <2>1. upgrades' \in Seq(Handovers) /\ UNCHANGED <<events, http, exec>>
    BY <1>2, <1>e, TakenType, WebSocketAssumption DEF run_upgrades
  <2> QED BY <1>0, <2>1
<1>3. CASE upgrade_push
  <2>1. http.job \in Handovers /\ http' \in {[http EXCEPT !.at = "signal"], [http EXCEPT !.at = "release"]}
    BY <1>3 DEF upgrade_push
  <2>2. http'.job = http.job
    BY <2>1 DEF ThreadsOK
  <2>3. upgrades' \in Seq(Handovers) /\ UNCHANGED <<events, exec>>
    <3>1. Append(upgrades, http.job) \in Seq(Handovers)
      BY <1>e, <2>1, AppendProperties
    <3> QED BY <1>3, <1>e, <3>1 DEF upgrade_push
  <2> QED BY <1>0, <2>1, <2>2, <2>3
<1>4. CASE upgrade_exhausted \/ upgrade_reserve \/ upgrade_signal
  <2>1. http.at # "idle" /\ UNCHANGED <<upgrades, events, exec>> /\ \E at : http' = [http EXCEPT !.at = at]
    BY <1>4 DEF upgrade_exhausted, upgrade_reserve, upgrade_signal
  <2>2. http'.job = http.job
    BY <2>1 DEF ThreadsOK
  <2> QED BY <1>0, <2>1, <2>2
<1>5. CASE upgrade_release
  BY <1>0, <1>5 DEF upgrade_release
<1>6. CASE publish_push
  <2>1. exec.job \in Ids /\ exec' \in {[exec EXCEPT !.at = "signal"], [exec EXCEPT !.at = "release"]}
    BY <1>6 DEF publish_push
  <2>2. exec'.job = exec.job
    BY <2>1 DEF ThreadsOK
  <2>3. events' \in Seq(Ids) /\ UNCHANGED <<upgrades, http>>
    <3>1. Append(events, exec.job) \in Seq(Ids)
      BY <1>e, <2>1, AppendProperties
    <3> QED BY <1>6, <1>e, <3>1 DEF publish_push
  <2> QED BY <1>0, <2>1, <2>2, <2>3
<1>7. CASE publish_signal
  <2>1. exec.at # "idle" /\ UNCHANGED <<upgrades, events, http>> /\ exec' = [exec EXCEPT !.at = "release"]
    BY <1>7 DEF publish_signal
  <2>2. exec'.job = exec.job
    BY <2>1 DEF ThreadsOK
  <2> QED BY <1>0, <2>1, <2>2
<1>8. CASE publish_release
  BY <1>0, <1>8 DEF publish_release
<1>9. CASE stop_joined
  BY <1>0, <1>9, <1>n DEF stop_joined
<1>10. ASSUME NEW u \in Handovers, upgrade_lease(u) PROVE QueuesOK'
  BY <1>0, <1>10 DEF upgrade_lease
<1>11. ASSUME NEW id \in env.fills, publish_lease(id) PROVE QueuesOK'
  <2>1. id \in Ids
    BY WebSocketAssumption DEF EnvOK
  <2> QED BY <1>0, <1>11, <2>1 DEF publish_lease
<1>12. CASE UNCHANGED <<upgrades, events, http, exec>>
  BY <1>0, <1>12
<1>13. CASE run_test \/ drain_worker_signal \/ poll_quiet \/ stop_drained \/ start \/ start_open \/ stop_close
  <2>1. UNCHANGED <<upgrades, events, http, exec>>
    BY <1>13 DEF run_test, drain_worker_signal, poll_quiet, stop_drained, start, start_open, stop_close
  <2> QED BY <1>12, <2>1
<1>14. ASSUME NEW send, run_maintain(send) PROVE QueuesOK'
  BY <1>12, <1>14 DEF run_maintain
<1>15. ASSUME NEW c, NEW io, poll_ready(c, io) PROVE QueuesOK'
  BY <1>12, <1>15 DEF poll_ready
<1>16. ASSUME NEW far, elapse(far) PROVE QueuesOK'
  BY <1>12, <1>16 DEF elapse
<1>17. CASE UNCHANGED vars
  BY <1>12, <1>17 DEF vars
<1> QED BY <1>1, <1>2, <1>3, <1>4, <1>5, <1>6, <1>7, <1>8, <1>9, <1>10, <1>11, <1>13, <1>14, <1>15,
           <1>16, <1>17 DEF Next

\* A step that leads the pool on by as many as the ring has lost.
LEMMA LeadsPool ==
    ASSUME PoolInv, QueuesOK', env' = env, Leads(srv, srv', Waiting - Waiting')
    PROVE  PoolInv'
<1>1. Good(srv) /\ srv.reserved - srv.active = Waiting /\ srv.reserved <= env.slots /\ EnvOK
  BY DEF PoolInv
<1>2. /\ Good(srv') /\ srv'.reserved - srv'.active = srv.reserved - srv.active - (Waiting - Waiting')
      /\ srv'.reserved <= srv.reserved
  BY DEF Leads
<1>3. /\ srv.reserved \in Int /\ srv.active \in Int /\ srv'.reserved \in Int /\ srv'.active \in Int
      /\ env.slots \in Nat
  BY <1>1, <1>2, GoodTypes, EnvTypes
<1>4. Waiting \in Int /\ Waiting' \in Int
  <2>1. Len(upgrades) \in Nat /\ Len(upgrades') \in Nat
    BY LenProperties DEF PoolInv, QueuesOK
  <2> QED BY <2>1 DEF Waiting
<1>5. srv'.reserved - srv'.active = Waiting' /\ srv'.reserved <= env.slots
  BY <1>1, <1>2, <1>3, <1>4
<1>6. Good(srv)'
  BY <1>2, GoodNext
<1>7. EnvOK'
  BY <1>1 DEF EnvOK
<1> QED BY <1>5, <1>6, <1>7 DEF PoolInv

LEMMA NextPool ==
    ASSUME ThreadsOK, StopOrder, PoolInv, [Next]_vars
    PROVE  PoolInv'
<1>0. EnvOK /\ QueuesOK /\ QueuesOK' /\ env' = env /\ Good(srv) /\ EnvOK'
  BY NextQueues, EnvKept DEF PoolInv, EnvOK
<1>w. Waiting \in Nat /\ Waiting - Waiting = 0 /\ Len(upgrades) \in Nat /\ Len(upgrades') \in Nat
  <2>1. Len(upgrades) \in Nat /\ Len(upgrades') \in Nat
    BY <1>0, LenProperties DEF QueuesOK
  <2> QED BY <2>1 DEF Waiting
<1>s. ASSUME Leads(srv, srv', 0), Waiting' = Waiting PROVE PoolInv'
  BY <1>0, <1>s, <1>w, LeadsPool
<1>u. ASSUME srv' = srv, Waiting' = Waiting PROVE PoolInv'
  BY <1>0, <1>s, <1>u, LeadsRefl
<1>1. CASE run_fills
  <2>1. Leads(srv, srv', 0)
    BY <1>0, <1>1, FillsLead DEF QueuesOK
  <2>2. Waiting' = Waiting
    BY <1>1 DEF run_fills, Waiting
  <2> QED BY <1>s, <2>1, <2>2
<1>2. CASE run_upgrades
  <2>1. Leads(srv, srv', Len(upgrades) - Len(upgrades'))
    BY <1>0, <1>2, UpgradesLead DEF QueuesOK
  <2>2. http' = http
    BY <1>2 DEF run_upgrades
  <2>3. Waiting - Waiting' = Len(upgrades) - Len(upgrades')
    BY <1>w, <2>2 DEF Waiting
  <2> QED BY <1>0, <2>1, <2>3, LeadsPool
<1>3. ASSUME NEW send, run_maintain(send) PROVE PoolInv'
  <2>1. Leads(srv, srv', 0)
    BY <1>0, <1>3, MaintainLeads
  <2>2. Waiting' = Waiting
    BY <1>3 DEF run_maintain, Waiting
  <2> QED BY <1>s, <2>1, <2>2
<1>4. ASSUME NEW c \in Slots, NEW io \in Events, poll_ready(c, io) PROVE PoolInv'
  <2>1. srv.conn[c].open /\ srv' = service_io(srv, c, io)
    BY <1>4 DEF poll_ready
  <2>2. io.frames \in Seq(Frames)
    <3>1. <<>> \in Seq(Frames)
      OBVIOUS
    <3>2. env.batches \subseteq Seq(Frames)
      BY <1>0, WebSocketAssumption DEF EnvOK
    <3> QED BY <3>1, <3>2 DEF Events
  <2>3. srv \in Pool
    BY <1>0, GoodTypes
  <2>4. Touched(srv, srv', c)
    BY <1>0, <2>1, <2>2, <2>3, ServicedTouched
  <2>5. Leads(srv, srv', 0)
    BY <1>0, <2>4, TouchedLeads
  <2>6. Waiting' = Waiting
    BY <1>4 DEF poll_ready, Waiting
  <2> QED BY <1>s, <2>5, <2>6
<1>5. ASSUME NEW far, elapse(far) PROVE PoolInv'
  <2>1. Waiting' = Waiting
    BY <1>5 DEF elapse, Waiting
  <2>2. CASE srv' = srv
    BY <1>u, <2>1, <2>2
  <2>3. CASE srv' # srv
    <3>1. srv' = [srv EXCEPT !.conn = [c \in Slots |-> IF @[c].open THEN Aged(@[c]) ELSE @[c]]]
      BY <1>5, <2>3 DEF elapse
    <3>2. Same(srv, srv')
      BY <1>0, <3>1, GoodTypes, AgedSame
    <3> QED BY <1>0, <1>s, <2>1, <3>2, SameLeads
  <2> QED BY <2>2, <2>3
\* A place is taken and given back.
<1>6. CASE upgrade_reserve
  <2> DEFINE x == srv.reserved + 1
  <2>1. /\ http.at = "leased" /\ srv.reserved < env.slots /\ srv' = [srv EXCEPT !.reserved = x]
        /\ http' = [http EXCEPT !.at = "reserved"] /\ upgrades' = upgrades
    BY <1>6 DEF upgrade_reserve
  <2>2. srv.reserved \in Int /\ srv.active \in Int /\ x \in Int /\ env.slots \in Nat
    BY <1>0, GoodTypes, EnvTypes
  <2>3. http'.at = "reserved"
    BY <2>1 DEF ThreadsOK
  <2> HIDE DEF x
  <2>4. Good(srv') /\ srv'.reserved = x /\ srv'.active = srv.active
    BY <1>0, <2>1, <2>2, ReservedGood
  <2>5. Waiting' = Waiting + 1
    BY <1>w, <2>1, <2>3 DEF Waiting
  <2>6. srv'.reserved - srv'.active = Waiting' /\ srv'.reserved <= env.slots
    <3>1. srv.reserved - srv.active = Waiting
      BY DEF PoolInv
    <3> QED BY <1>w, <2>1, <2>2, <2>4, <2>5, <3>1 DEF x
  <2>7. Good(srv)'
    BY <1>0, <2>4, GoodNext
  <2> QED BY <1>0, <2>6, <2>7 DEF PoolInv
<1>7. CASE upgrade_push
  <2>0. http.at = "reserved" /\ http.job \in Handovers
    BY <1>0, <1>7 DEF upgrade_push, QueuesOK
  <2>1. CASE Len(upgrades) < UpgradeCap
    <3>1. /\ upgrades' = Append(upgrades, http.job) /\ http' = [http EXCEPT !.at = "signal"]
          /\ srv' = srv
      BY <1>7, <2>1 DEF upgrade_push
    <3>2. Len(upgrades') = Len(upgrades) + 1
      BY <1>0, <2>0, <3>1, AppendProperties DEF QueuesOK
    <3>3. http'.at = "signal"
      BY <3>1 DEF ThreadsOK
    <3>4. Waiting' = Waiting
      BY <1>w, <2>0, <3>2, <3>3 DEF Waiting
    <3> QED BY <1>u, <3>1, <3>4
  <2>2. CASE ~(Len(upgrades) < UpgradeCap)
    <3> DEFINE x == srv.reserved - 1
    <3>1. /\ upgrades' = upgrades /\ http' = [http EXCEPT !.at = "release"]
          /\ srv' = [srv EXCEPT !.reserved = x]
      BY <1>7, <2>2 DEF upgrade_push
    <3>2. http'.at = "release"
      BY <3>1 DEF ThreadsOK
    <3>3. srv.reserved \in Int /\ srv.active \in Int /\ x \in Int
      BY <1>0, GoodTypes
    <3> HIDE DEF x
    <3>4. Good(srv') /\ srv'.reserved = x /\ srv'.active = srv.active
      BY <1>0, <3>1, <3>3, ReservedGood
    <3>5. Waiting - Waiting' = 1
      BY <1>w, <2>0, <3>1, <3>2 DEF Waiting
    <3>6. Leads(srv, srv', 1)
      BY <3>3, <3>4 DEF Leads, x
    <3> QED BY <1>0, <3>5, <3>6, LeadsPool
  <2> QED BY <2>1, <2>2
<1>8. CASE stop_joined \/ start
  <2>1. srv' = EmptyPool /\ http.at = "idle" /\ http' = http /\ upgrades' = <<>>
    BY <1>8 DEF stop_joined, start, StopOrder
  <2>2. Waiting' = 0
    BY <2>1 DEF Waiting
  <2>3. Good(srv') /\ srv'.reserved = 0 /\ srv'.active = 0
    BY <1>0, <2>1, EmptyGood
  <2>4. Good(srv)'
    BY <1>0, <2>3, GoodNext
  <2>5. env.slots \in Nat
    BY <1>0, EnvTypes
  <2> QED BY <1>0, <2>2, <2>3, <2>4, <2>5 DEF PoolInv
\* The other steps do not touch the pool.
<1>9. CASE upgrade_exhausted \/ upgrade_signal \/ upgrade_release
  <2>1. /\ srv' = srv /\ upgrades' = upgrades /\ http.at # "reserved"
        /\ http' \in {[http EXCEPT !.at = "release"], [at |-> "idle", job |-> 0]}
    BY <1>9 DEF upgrade_exhausted, upgrade_signal, upgrade_release
  <2>2. http'.at # "reserved"
    BY <2>1 DEF ThreadsOK
  <2>3. Waiting' = Waiting
    BY <2>1, <2>2 DEF Waiting
  <2> QED BY <1>u, <2>1, <2>3
<1>10. ASSUME NEW u, upgrade_lease(u) PROVE PoolInv'
  <2>1. srv' = srv /\ upgrades' = upgrades /\ http.at = "idle" /\ http'.at = "leased"
    BY <1>10 DEF upgrade_lease
  <2>2. Waiting' = Waiting
    BY <2>1 DEF Waiting
  <2> QED BY <1>u, <2>1, <2>2
<1>11. CASE UNCHANGED <<srv, upgrades, http>>
  BY <1>u, <1>11 DEF Waiting
<1>12. CASE \/ run_test \/ drain_worker_signal \/ poll_quiet \/ Exec \/ stop_drained \/ start_open
            \/ stop_close
  <2>1. UNCHANGED <<srv, upgrades, http>>
    BY <1>12 DEF run_test, drain_worker_signal, poll_quiet, publish_push, publish_signal,
       publish_release, stop_drained, start_open, stop_close
  <2> QED BY <1>11, <2>1
<1>13. ASSUME NEW id, publish_lease(id) PROVE PoolInv'
  BY <1>11, <1>13 DEF publish_lease
<1>14. CASE UNCHANGED vars
  BY <1>11, <1>14 DEF vars
<1> QED BY <1>1, <1>2, <1>3, <1>4, <1>5, <1>6, <1>7, <1>8, <1>9, <1>10, <1>12, <1>13, <1>14 DEF Next

LEMMA InitPool == Init => PoolInv
<1> SUFFICES ASSUME Init PROVE PoolInv
  OBVIOUS
<1>1. EnvOK /\ srv = EmptyPool /\ upgrades = <<>> /\ events = <<>> /\ http.at = "idle" /\ exec.at = "idle"
  BY DEF Init, EnvOK
<1>2. QueuesOK
  BY <1>1 DEF QueuesOK
<1>3. Good(srv) /\ srv.reserved = 0 /\ srv.active = 0 /\ env.slots \in Nat
  BY <1>1, EmptyGood, EnvTypes
<1>4. Waiting = 0
  BY <1>1 DEF Waiting
<1> QED BY <1>1, <1>2, <1>3, <1>4 DEF PoolInv

LEMMA PoolAlways == Spec => []PoolInv
<1>1. ThreadsOK /\ StopOrder /\ PoolInv /\ [Next]_vars => (ThreadsOK /\ StopOrder /\ PoolInv)'
  BY NextThreads, NextStopOrder, NextPool
<1> QED BY <1>1, InitThreads, InitStopOrder, InitPool, PTL DEF Spec

LEMMA PoolAccounted == PoolInv => SlotsAccounted
<1> SUFFICES ASSUME PoolInv PROVE SlotsAccounted
  OBVIOUS
<1>1. srv.reserved \in Int /\ srv.active \in Int /\ Len(upgrades) \in Nat
  BY GoodTypes, LenProperties DEF PoolInv, QueuesOK
<1>2. srv.active = Cardinality(OpenSlots)
  BY DEF PoolInv, Good, OpenIn, OpenSlots
<1>3. srv.reserved - srv.active = Waiting /\ srv.reserved <= env.slots
  BY DEF PoolInv
<1>4. srv.reserved = srv.active + Len(upgrades) + (IF http.at = "reserved" THEN 1 ELSE 0)
  BY <1>1, <1>3 DEF Waiting
<1> QED BY <1>2, <1>3, <1>4 DEF SlotsAccounted

\* Every reserved place belongs to a socket that is being handed over, is in the
\* ring or is an open connection, for every pool, ring and number of frames: a
\* full buffer in the middle of a fan-out, a refused upgrade, a full ring and a
\* stop neither leak a place nor give one back twice.
THEOREM SlotsAlwaysAccounted == Spec => []SlotsAccounted
BY PoolAlways, PoolAccounted, PTL

LEMMA GoodReachable == PoolInv => SubscribersReachable
<1> SUFFICES ASSUME PoolInv, NEW id \in Ids
             PROVE  LET b == find_subscription(srv, id)
                        chain == IF b = Nil THEN <<>> ELSE Chain(srv, srv.sub[b].head)
                    IN  /\ ToSet(chain) = {c \in OpenSlots : srv.conn[c].id = id}
                        /\ Len(chain) = Cardinality(ToSet(chain))
                        /\ \A i \in DOMAIN chain :
                               /\ srv.conn[chain[i]].bucket = b
                               /\ srv.conn[chain[i]].prev = IF i = 1 THEN Nil ELSE chain[i - 1]
  BY DEF SubscribersReachable
<1> DEFINE b == find_subscription(srv, id)
           chain == IF b = Nil THEN <<>> ELSE Chain(srv, srv.sub[b].head)
           mine == {c \in OpenSlots : srv.conn[c].id = id}
<1>1. /\ EnvOK /\ srv \in Pool /\ Indexed(srv) /\ Toured(srv) /\ Headed(srv) /\ Subscribed(srv)
      /\ OneBucket(srv)
  BY DEF PoolInv, Good, Indexed
<1>2. ASSUME NEW c \in mine
      PROVE  /\ srv.conn[c].bucket \in BucketIndex /\ srv.sub[srv.conn[c].bucket].id = id
             /\ srv.sub[srv.conn[c].bucket].state = "occupied"
  <2> DEFINE a == srv.conn[c].bucket
  <2>1. c \in Slots /\ a \in BucketIndex /\ srv.sub[a].id = id
    BY <1>1 DEF OpenSlots, Subscribed
  <2>2. c \in Members(srv, a)
    BY <2>1 DEF Members
  <2> HIDE DEF a
  <2>3. srv.sub[a].state = "occupied"
    BY <1>1, <2>1, <2>2, MemberLinks
  <2> QED BY <2>1, <2>3 DEF a
<1>3. CASE Occupied(srv, id) = {}
  <2>1. b = Nil /\ \A a \in BucketIndex : srv.sub[a].state = "occupied" => srv.sub[a].id # id
    BY <1>1, <1>3, SearchFinds
  <2>2. mine = {}
    <3> HIDE DEF mine
    <3> QED BY <1>2, <2>1
  <2>3. chain = <<>>
    BY <2>1
  <2> HIDE DEF chain, b, mine
  <2>4. ToSet(chain) = {} /\ Len(chain) = 0 /\ DOMAIN chain = {}
    BY <2>3 DEF ToSet
  <2>5. Len(chain) = Cardinality(ToSet(chain))
    BY <2>4, FS_EmptySet
  <2> QED BY <2>2, <2>4, <2>5 DEF chain, b, mine
<1>4. CASE Occupied(srv, id) # {}
  <2>1. b \in BucketIndex /\ srv.sub[b].state = "occupied" /\ srv.sub[b].id = id
    BY <1>1, <1>4, SearchFinds
  <2>2. b # Nil /\ Nil \notin BucketIndex
    BY <1>1, <2>1, EnvTypes
  <2>3. Members(srv, b) = mine /\ Members(srv, b) \subseteq Slots
    <3>1. ASSUME NEW c \in Members(srv, b) PROVE c \in mine
      <4>1. c \in Slots /\ srv.conn[c].bucket = b
        BY DEF Members
      <4>2. srv.conn[c].open
        BY <1>1, <2>2, <4>1 DEF Subscribed
      <4>3. srv.conn[c].id = id
        BY <1>1, <2>1, <4>1, <4>2 DEF Subscribed
      <4> QED BY <4>1, <4>2, <4>3 DEF OpenSlots
    <3>2. ASSUME NEW c \in mine PROVE c \in Members(srv, b)
      <4>1. srv.conn[c].bucket = b
        BY <1>1, <1>2, <2>1 DEF OneBucket
      <4>2. c \in Slots
        BY DEF OpenSlots
      <4> QED BY <4>1, <4>2 DEF Members
    <3>3. Members(srv, b) \subseteq Slots
      BY DEF Members
    <3> HIDE DEF mine, b
    <3> QED BY <3>1, <3>2, <3>3
  <2> HIDE DEF b
  <2>4. PICK n, w : Tour(Members(srv, b), srv.conn, srv.sub[b].head, w, n)
    BY <1>1, <2>1 DEF Toured, ListOf
  <2>5. chain = w
    <3>1. Chain(srv, srv.sub[b].head) = w
      BY <1>1, <2>3, <2>4, ChainIsTour
    <3> QED BY <2>2, <3>1
  <2>6. n \in Nat /\ Cardinality(Members(srv, b)) = n
    BY <1>1, <2>3, <2>4, TourCount
  <2>7. /\ w \in [1 .. n -> Members(srv, b)]
        /\ \A c \in Members(srv, b) : \E i \in 1 .. n : w[i] = c
        /\ \A i \in 1 .. n : srv.conn[w[i]].prev = At(w, n, i - 1)
    BY <2>4 DEF Tour
  <2> HIDE DEF chain, mine
  <2>8. ToSet(chain) = Members(srv, b)
    BY <2>5, <2>7 DEF ToSet
  <2>9. Len(chain) = n /\ DOMAIN chain = 1 .. n
    BY <2>5, <2>6, <2>7
  <2>10. ASSUME NEW i \in 1 .. n
         PROVE  /\ srv.conn[w[i]].bucket = b
                /\ srv.conn[w[i]].prev = IF i = 1 THEN Nil ELSE w[i - 1]
    <3>1. srv.conn[w[i]].bucket = b
      BY <2>7 DEF Members
    <3>2. At(w, n, i - 1) = IF i = 1 THEN Nil ELSE w[i - 1]
      BY <2>6 DEF At
    <3> QED BY <2>7, <3>1, <3>2
  <2>11. Len(chain) = Cardinality(ToSet(chain)) /\ ToSet(chain) = mine
    BY <2>3, <2>6, <2>8, <2>9
  <2>12. \A i \in DOMAIN chain : /\ srv.conn[chain[i]].bucket = b
                                 /\ srv.conn[chain[i]].prev = IF i = 1 THEN Nil ELSE chain[i - 1]
    BY <2>5, <2>9, <2>10
  <2> QED BY <2>11, <2>12 DEF chain, mine, b
<1> QED BY <1>3, <1>4

\* A fill reaches every open connection of its order and no other, once, however
\* many orders share buckets of the index and however many have left it: the
\* search finds the order's bucket across the graves of others, and the list it
\* holds is linked both ways.
THEOREM SubscribersAlwaysReachable == Spec => []SubscribersReachable
BY PoolAlways, GoodReachable, PTL
=============================================================================
