---------------------------- MODULE HotPath_proofs ---------------------------
(***************************************************************************)
(* The two ends of the path from a packet to an order.                     *)
(*                                                                         *)
(* The tick ring keeps its invariant and implements the bounded queue, for *)
(* every capacity and every word size it divides.  The pipeline uses the   *)
(* ring as the ring asks to be used, loses no tick to a full ring and      *)
(* leaves none behind.                                                     *)
(*                                                                         *)
(* For any number of symbols, slots and orders, and for any outcome of the *)
(* logs, the gateway keeps its types, its accounting and its agreement     *)
(* with the ledger, and terminal orders stay as they are.                  *)
(***************************************************************************)
EXTENDS TickPipeline, ExecutionGateway, FiniteSetTheorems, SequenceTheorems, Induction, TLAPS

-----------------------------------------------------------------------------
(***************************************************************************)
(* Positions and slots.                                                    *)
(***************************************************************************)

\* A multiple of the capacity is never strictly between 0 and the capacity.
LEMMA NoMultipleBetween ==
    ASSUME NEW c \in Nat \ {0}, NEW m \in Int, 0 < c * m, c * m < c
    PROVE  FALSE
<1>1. CASE m <= 0
  BY <1>1
<1>2. CASE m >= 1
  BY <1>2
<1> QED
  BY <1>1, <1>2

\* The slot of a position exists.
LEMMA IndexInRange ==
    ASSUME NEW p \in Positions
    PROVE  Index(p) \in 0 .. Capacity - 1
BY RingAssumption DEF Positions, Index

\* Positions less than a lap apart have different slots, also across the
\* wrap of the word.
LEMMA IndexDistinct ==
    ASSUME NEW p \in Positions, NEW q \in Positions,
           0 < Distance(p, q), Distance(p, q) < Capacity
    PROVE  Index(p) # Index(q)
<1> SUFFICES ASSUME Index(p) = Index(q) PROVE FALSE
  OBVIOUS
<1>k. PICK k \in 1 .. Words : Words = k * Capacity
  BY RingAssumption
<1> DEFINE c == Capacity
           a == p \div c
           b == q \div c
           r == p % c
<1>c. c \in Nat \ {0} /\ Words \in Nat /\ k \in Int /\ p \in Int /\ q \in Int
  BY RingAssumption DEF Positions
<1>1. a \in Int /\ b \in Int /\ r \in Int
  BY <1>c
<1>2. p = c * a + r
  BY <1>c
<1>3. q = c * b + r
  BY <1>c DEF Index
<1>4. Words = c * k
  BY <1>c, <1>k
<1>5. CASE p >= q
  <2>1. Distance(p, q) = p - q
    BY <1>5 DEF Distance
  <2> HIDE DEF a, b, r, c
  <2>2. p - q = c * (a - b)
    BY <1>1, <1>2, <1>3, <1>c
  <2>3. 0 < c * (a - b) /\ c * (a - b) < c
    BY <2>1, <2>2 DEF c
  <2> QED
    BY <2>3, <1>1, <1>c, NoMultipleBetween
<1>6. CASE ~(p >= q)
  <2>1. Distance(p, q) = p - q + Words
    BY <1>6 DEF Distance
  <2> HIDE DEF a, b, r, c
  <2>2. p - q + Words = c * (a - b + k)
    BY <1>1, <1>2, <1>3, <1>4, <1>c
  <2>3. 0 < c * (a - b + k) /\ c * (a - b + k) < c
    BY <2>1, <2>2 DEF c
  <2>4. a - b + k \in Int
    BY <1>1, <1>c
  <2> QED
    BY <2>3, <2>4, <1>c, NoMultipleBetween
<1> QED
  BY <1>5, <1>6

\* Distances and sums of positions stay in their ranges.
LEMMA PositionArithmetic ==
    ASSUME NEW p \in Positions, NEW q \in Positions, NEW n \in 0 .. Capacity
    PROVE  /\ Distance(p, q) \in Positions
           /\ Plus(p, n) \in Positions
           /\ Plus(p, 0) = p
           /\ Plus(q, Distance(p, q)) = p
           /\ n <= Distance(p, q) => Distance(p, Plus(q, n)) = Distance(p, q) - n
BY RingAssumption DEF Positions, Distance, Plus

\* One step and then n are n + 1.
LEMMA PlusOnePlus ==
    ASSUME NEW p \in Positions, NEW n \in 0 .. Capacity - 1
    PROVE  Plus(Plus(p, 1), n) = Plus(p, n + 1)
BY RingAssumption DEF Positions, Plus

\* A load returns a position between the one seen before and the current one.
LEMMA LoadBetween ==
    ASSUME NEW seen \in Positions, NEW p \in Positions, NEW q \in Loads(seen, p)
    PROVE  /\ q \in Positions
           /\ Distance(q, seen) + Distance(p, q) = Distance(p, seen)
BY RingAssumption DEF Loads, Positions, Distance

\* What the order of the positions says of the number of pending messages.
LEMMA SizeBounds ==
    ASSUME RingTypeOK, RingOrder
    PROVE  /\ size \in 0 .. Capacity
           /\ size = Distance(seenHead, tail) + Distance(head, seenHead)
           /\ Distance(head, seenTail) = Distance(tail, seenTail) + size
           /\ writer # "idle" => size < Capacity
           /\ reader = "holding" => size > 0
<1> DEFINE a == Distance(tail, seenTail)
           b == Distance(seenHead, tail)
           c == Distance(head, seenHead)
<1>1. a \in Nat /\ b \in Nat /\ c \in Nat /\ a + b + c <= Capacity
  BY RingAssumption DEF RingTypeOK, RingOrder, Positions, Distance
<1>2. size = b + c
  BY RingAssumption, <1>1 DEF RingTypeOK, Positions, Distance, size
<1>3. Distance(head, seenTail) = a + size
  BY RingAssumption, <1>1, <1>2 DEF RingTypeOK, Positions, Distance, size
<1>4. reader = "holding" => b > 0
  BY RingAssumption DEF RingTypeOK, RingOrder, Positions, Distance
<1> HIDE DEF a, b, c
<1>5. writer # "idle" => a + size < Capacity
  BY <1>3 DEF RingOrder
<1>6. size \in 0 .. Capacity
  BY <1>1, <1>2, RingAssumption
<1>7. writer # "idle" => size < Capacity
  BY <1>1, <1>5, <1>6, RingAssumption
<1>8. reader = "holding" => size > 0
  BY <1>1, <1>2, <1>4
<1> QED
  BY <1>2, <1>3, <1>6, <1>7, <1>8 DEF a, b, c

\* The slot being written is none of the pending ones.
LEMMA WrittenSlotFree ==
    ASSUME RingTypeOK, RingOrder, writer # "idle", NEW n \in 0 .. size - 1
    PROVE  Index(Plus(tail, n)) # Index(head)
<1>1. size \in 0 .. Capacity /\ size < Capacity
  BY SizeBounds
<1>2. head \in Positions /\ tail \in Positions /\ n \in 0 .. Capacity
  BY <1>1, RingAssumption DEF RingTypeOK
<1>3. Plus(tail, n) \in Positions
  BY <1>2, PositionArithmetic
<1>4. Distance(head, Plus(tail, n)) = size - n
  BY <1>1, <1>2, PositionArithmetic, RingAssumption DEF size
<1> QED
  BY <1>1, <1>2, <1>3, <1>4, IndexDistinct, RingAssumption

-----------------------------------------------------------------------------
(***************************************************************************)
(* The invariant.                                                          *)
(***************************************************************************)
LEMMA RingInitInv == RingInit => RingInv
BY RingAssumption DEF RingInit, RingInv, RingTypeOK, RingOrder, PendingComplete, HeldIntact,
    Positions, Distance, size

LEMMA RingTypeStep == RingInv /\ [RingNext]_ringVars => RingTypeOK'
<1> SUFFICES ASSUME RingInv, [RingNext]_ringVars PROVE RingTypeOK'
  OBVIOUS
<1> USE RingAssumption
<1>i. Index(head) \in 0 .. Capacity - 1 /\ Index(tail) \in 0 .. Capacity - 1
  BY IndexInRange DEF RingInv, RingTypeOK
<1>p. Plus(head, 1) \in Positions /\ Plus(tail, 1) \in Positions
  BY DEF RingInv, RingTypeOK, Positions, Plus
<1>1. ASSUME NEW t \in Positions, try_claim(t) \/ load_tail(t) PROVE RingTypeOK'
  BY <1>1 DEF RingInv, RingTypeOK, try_claim, load_tail, consumer
<1>2. CASE begin_write
  BY <1>2, <1>i DEF RingInv, RingTypeOK, begin_write, consumer
<1>3. ASSUME NEW v \in Values, end_write(v) PROVE RingTypeOK'
  BY <1>3, <1>i DEF RingInv, RingTypeOK, end_write, consumer
<1>4. CASE abandon
  BY <1>4 DEF RingInv, RingTypeOK, abandon, consumer
<1>5. CASE commit
  BY <1>5, <1>p DEF RingInv, RingTypeOK, commit, consumer
<1>6. ASSUME NEW h \in Positions, try_peek(h) \/ load_head(h) PROVE RingTypeOK'
  BY <1>6, <1>i DEF RingInv, RingTypeOK, try_peek, load_head, producer
<1>7. CASE consume
  BY <1>7, <1>p DEF RingInv, RingTypeOK, consume, producer
<1>8. CASE UNCHANGED ringVars
  BY <1>8 DEF RingInv, RingTypeOK, ringVars
<1> QED
  BY <1>1, <1>2, <1>3, <1>4, <1>5, <1>6, <1>7, <1>8 DEF RingNext, Produce, Consume

LEMMA RingOrderStep == RingInv /\ [RingNext]_ringVars => RingOrder'
<1> SUFFICES ASSUME RingInv, [RingNext]_ringVars PROVE RingOrder'
  OBVIOUS
<1> USE RingAssumption
<1>t. RingTypeOK /\ RingOrder
  BY DEF RingInv
<1>1. ASSUME NEW t \in Positions, try_claim(t) \/ load_tail(t) PROVE RingOrder'
  <2>1. /\ t \in Loads(seenTail, tail) /\ seenTail' = t
        /\ UNCHANGED <<head, tail, reader, seenHead>>
        /\ writer' # "idle" => Distance(head, t) < Capacity
    BY <1>1, <1>t DEF try_claim, load_tail, consumer, Full, RingTypeOK, Positions, Distance
  <2>2. Distance(t, seenTail) + Distance(tail, t) = Distance(tail, seenTail)
    BY <2>1, <1>t, LoadBetween DEF RingTypeOK
  <2>3. /\ Distance(t, seenTail) \in Nat /\ Distance(tail, t) \in Nat
        /\ Distance(tail, seenTail) \in Nat
        /\ Distance(seenHead, tail) \in Nat /\ Distance(head, seenHead) \in Nat
    BY <1>t DEF RingTypeOK, Positions, Distance
  <2>4. Distance(tail, t) + Distance(seenHead, tail) + Distance(head, seenHead) <= Capacity
    BY <2>2, <2>3, <1>t DEF RingOrder
  <2> QED
    BY <2>1, <2>4, <1>t DEF RingOrder, Distance
<1>2. CASE begin_write
  BY <1>2, <1>t DEF RingOrder, begin_write, consumer
<1>3. ASSUME NEW v \in Values, end_write(v) PROVE RingOrder'
  BY <1>3, <1>t DEF RingOrder, end_write, consumer
<1>4. CASE abandon
  BY <1>4, <1>t DEF RingOrder, abandon, consumer
<1>5. CASE commit
  BY <1>5, <1>t DEF RingTypeOK, RingOrder, commit, consumer, Positions, Distance, Plus
<1>6. ASSUME NEW h \in Positions, try_peek(h) \/ load_head(h) PROVE RingOrder'
  <2>1. /\ h \in Loads(seenHead, head) /\ seenHead' = h
        /\ UNCHANGED <<head, tail, writer, seenTail>>
        /\ reader' = "holding" => h # tail
    BY <1>6, <1>t DEF try_peek, load_head, producer, RingOrder
  <2>2. Distance(h, seenHead) + Distance(head, h) = Distance(head, seenHead)
    BY <2>1, <1>t, LoadBetween DEF RingTypeOK
  <2>3. /\ Distance(h, seenHead) \in Nat /\ Distance(head, h) \in Nat
        /\ Distance(tail, seenTail) \in Nat
        /\ Distance(seenHead, tail) \in Nat /\ Distance(head, seenHead) \in Nat
    BY <1>t DEF RingTypeOK, Positions, Distance
  <2>4. Distance(h, seenHead) + Distance(seenHead, tail) <= Capacity
    BY <2>2, <2>3, <1>t DEF RingOrder
  <2>5. Distance(h, tail) = Distance(h, seenHead) + Distance(seenHead, tail)
    BY <2>4, <1>t DEF RingTypeOK, Positions, Distance
  <2>6. Distance(tail, seenTail) + Distance(h, tail) + Distance(head, h) <= Capacity
    BY <2>2, <2>3, <2>5, <1>t DEF RingOrder
  <2> QED
    BY <2>1, <2>6, <1>t DEF RingOrder, Distance
<1>7. CASE consume
  BY <1>7, <1>t DEF RingTypeOK, RingOrder, consume, producer, Positions, Distance, Plus
<1>8. CASE UNCHANGED ringVars
  BY <1>8, <1>t DEF RingOrder, ringVars
<1> QED
  BY <1>1, <1>2, <1>3, <1>4, <1>5, <1>6, <1>7, <1>8 DEF RingNext, Produce, Consume

LEMMA PendingStep == RingInv /\ [RingNext]_ringVars => PendingComplete'
<1> SUFFICES ASSUME RingInv, [RingNext]_ringVars PROVE PendingComplete'
  OBVIOUS
<1> USE RingAssumption
<1>t. RingTypeOK /\ RingOrder /\ PendingComplete
  BY DEF RingInv
<1>s. size \in 0 .. Capacity
  BY <1>t, SizeBounds
<1>1. ASSUME NEW t \in Positions, try_claim(t) \/ load_tail(t) PROVE PendingComplete'
  BY <1>1, <1>t DEF PendingComplete, try_claim, load_tail, consumer, size
<1>2. CASE begin_write
  <2>1. \A n \in 0 .. size - 1 : Index(Plus(tail, n)) # Index(head)
    BY <1>2, <1>t, WrittenSlotFree DEF begin_write
  <2> QED
    BY <2>1, <1>2, <1>t DEF PendingComplete, begin_write, consumer, size, RingTypeOK
<1>3. ASSUME NEW v \in Values, end_write(v) PROVE PendingComplete'
  <2>1. \A n \in 0 .. size - 1 : Index(Plus(tail, n)) # Index(head)
    BY <1>3, <1>t, WrittenSlotFree DEF end_write
  <2>2. Index(head) \in 0 .. Capacity - 1
    BY <1>t, IndexInRange DEF RingTypeOK
  <2> QED
    BY <2>1, <2>2, <1>3, <1>t DEF PendingComplete, end_write, consumer, size, RingTypeOK
<1>4. CASE abandon
  BY <1>4, <1>t DEF PendingComplete, abandon, consumer, size
<1>5. CASE commit
  <2>1. size < Capacity /\ slots[Index(head)] \in Values
    BY <1>5, <1>t, SizeBounds DEF commit, PendingComplete
  <2>2. size' = size + 1
    BY <1>5, <1>t, <1>s, <2>1 DEF commit, consumer, RingTypeOK, Positions, Distance, Plus, size
  <2>3. Plus(tail, size) = head
    BY <1>t, <1>s, PositionArithmetic DEF RingTypeOK, size
  <2>4. ASSUME NEW n \in 0 .. size' - 1 PROVE slots[Index(Plus(tail, n))] \in Values
    <3>1. n \in 0 .. size - 1 \/ n = size
      BY <2>2, <1>s
    <3> QED
      BY <3>1, <2>1, <2>3, <1>t DEF PendingComplete
  <2>5. writer' = "idle" /\ slots' = slots /\ tail' = tail
    BY <1>5 DEF commit, consumer
  <2>6. \A n \in 0 .. size' - 1 : slots'[Index(Plus(tail', n))] \in Values
    BY <2>4, <2>5
  <2> QED
    BY <2>5, <2>6 DEF PendingComplete, Index, Plus
<1>6. ASSUME NEW h \in Positions, try_peek(h) \/ load_head(h) PROVE PendingComplete'
  BY <1>6, <1>t DEF PendingComplete, try_peek, load_head, producer, size
<1>7. CASE consume
  <2>1. size > 0
    BY <1>7, <1>t, SizeBounds DEF consume
  <2>2. size' = size - 1
    BY <1>7, <1>t, <1>s, <2>1 DEF consume, producer, RingTypeOK, Positions, Distance, Plus, size
  <2>3. ASSUME NEW n \in 0 .. size' - 1 PROVE slots[Index(Plus(Plus(tail, 1), n))] \in Values
    <3>1. n + 1 \in 0 .. size - 1 /\ n \in 0 .. Capacity - 1
      BY <2>2, <1>s
    <3>2. Plus(Plus(tail, 1), n) = Plus(tail, n + 1)
      BY <3>1, <1>t, PlusOnePlus DEF RingTypeOK
    <3> QED
      BY <3>1, <3>2, <1>t DEF PendingComplete
  <2>4. slots' = slots /\ tail' = Plus(tail, 1) /\ writer' = writer /\ head' = head
    BY <1>7 DEF consume, producer
  <2>5. \A n \in 0 .. size' - 1 : slots'[Index(Plus(tail', n))] \in Values
    BY <2>3, <2>4
  <2> QED
    BY <2>4, <2>5, <1>t DEF PendingComplete, Index
<1>8. CASE UNCHANGED ringVars
  BY <1>8, <1>t DEF PendingComplete, ringVars, size
<1> QED
  BY <1>1, <1>2, <1>3, <1>4, <1>5, <1>6, <1>7, <1>8 DEF RingNext, Produce, Consume

LEMMA HeldStep == RingInv /\ [RingNext]_ringVars => HeldIntact'
<1> SUFFICES ASSUME RingInv, [RingNext]_ringVars PROVE HeldIntact'
  OBVIOUS
<1> USE RingAssumption
<1>t. RingTypeOK /\ RingOrder /\ PendingComplete /\ HeldIntact
  BY DEF RingInv
<1>s. size \in 0 .. Capacity
  BY <1>t, SizeBounds
<1>z. Plus(tail, 0) = tail
  BY <1>t DEF RingTypeOK, Positions, Plus
<1>1. ASSUME NEW t \in Positions, try_claim(t) \/ load_tail(t) PROVE HeldIntact'
  BY <1>1, <1>t DEF HeldIntact, try_claim, load_tail, consumer
<1>w. ASSUME reader = "holding", writer # "idle" PROVE Index(tail) # Index(head)
  <2>1. 0 \in 0 .. size - 1
    BY <1>w, <1>s, <1>t, SizeBounds
  <2> QED
    BY <2>1, <1>w, <1>t, <1>z, WrittenSlotFree
<1>2. CASE begin_write
  BY <1>2, <1>w, <1>t DEF HeldIntact, begin_write, consumer, RingTypeOK
<1>3. ASSUME NEW v \in Values, end_write(v) PROVE HeldIntact'
  BY <1>3, <1>w, <1>t DEF HeldIntact, end_write, consumer, RingTypeOK
<1>4. CASE abandon
  BY <1>4, <1>t DEF HeldIntact, abandon, consumer
<1>5. CASE commit
  BY <1>5, <1>t DEF HeldIntact, commit, consumer
<1>6. ASSUME NEW h \in Positions, try_peek(h) \/ load_head(h) PROVE HeldIntact'
  <2>1. CASE try_peek(h)
    <3>1. h \in Loads(seenHead, head) /\ h # tail
      BY <2>1 DEF try_peek
    <3>2. size > 0
      BY <3>1, <1>t, <1>s DEF RingTypeOK, RingOrder, Loads, Positions, Distance, size
    <3>3. slots[Index(tail)] \in Values
      BY <3>2, <1>s, <1>t, <1>z DEF PendingComplete
    <3> QED
      BY <2>1, <3>3 DEF HeldIntact, try_peek, producer
  <2>2. CASE load_head(h)
    BY <2>2, <1>t DEF HeldIntact, load_head, producer
  <2> QED
    BY <1>6, <2>1, <2>2
<1>7. CASE consume
  BY <1>7 DEF HeldIntact, consume
<1>8. CASE UNCHANGED ringVars
  BY <1>8, <1>t DEF HeldIntact, ringVars
<1> QED
  BY <1>1, <1>2, <1>3, <1>4, <1>5, <1>6, <1>7, <1>8 DEF RingNext, Produce, Consume

\* try_claim, commit, try_peek and consume keep the order of the positions and
\* the contents of the slots between them, for every capacity and word size.
THEOREM RingInvariant == RingSpec => []RingInv
<1>1. RingInv /\ [RingNext]_ringVars => RingInv'
  BY RingTypeStep, RingOrderStep, PendingStep, HeldStep DEF RingInv
<1> QED
  BY <1>1, RingInitInv, PTL DEF RingSpec

\* A consumer that reads its slot in place between try_peek() and consume()
\* reads a complete message that nobody is writing to.
THEOREM RingHeldIntact == RingSpec => []HeldIntact
<1>1. RingInv => HeldIntact
  BY DEF RingInv
<1> QED
  BY <1>1, RingInvariant, PTL

-----------------------------------------------------------------------------
(***************************************************************************)
(* The refinement.                                                         *)
(***************************************************************************)

\* The pending messages as a sequence.
LEMMA PendingIsQueue ==
    ASSUME RingInv
    PROVE  /\ Pending \in Seq(Values)
           /\ Len(Pending) = size
           /\ \A n \in 1 .. size : Pending[n] = slots[Index(Plus(tail, n - 1))]
<1>1. size \in 0 .. Capacity /\ size \in Nat
  BY SizeBounds, RingAssumption DEF RingInv
<1>2. ASSUME NEW n \in 1 .. size PROVE slots[Index(Plus(tail, n - 1))] \in Values
  <2>1. n - 1 \in 0 .. size - 1
    BY <1>1
  <2> QED
    BY <2>1 DEF RingInv, PendingComplete
<1>3. Pending \in [1 .. size -> Values]
  BY <1>2 DEF Pending
<1> QED
  BY <1>1, <1>3 DEF Pending

LEMMA CommitPuts == RingInv /\ RingInv' /\ commit => \E v \in Values : Queue!Put(v)
<1> SUFFICES ASSUME RingInv, RingInv', commit PROVE \E v \in Values : Queue!Put(v)
  OBVIOUS
<1> USE RingAssumption
<1> DEFINE v == slots[Index(head)]
<1>1. v \in Values /\ slots' = slots /\ tail' = tail
  BY DEF RingInv, PendingComplete, commit, consumer
<1>2. size \in 0 .. Capacity /\ size < Capacity
  BY SizeBounds DEF RingInv, commit
<1>3. size' = size + 1
  BY <1>2 DEF commit, consumer, RingInv, RingTypeOK, Positions, Distance, Plus, size
<1>4. Plus(tail, size) = head
  BY <1>2, PositionArithmetic DEF RingInv, RingTypeOK, size
<1>5. /\ Pending \in Seq(Values) /\ Len(Pending) = size
      /\ \A n \in 1 .. size : Pending[n] = slots[Index(Plus(tail, n - 1))]
  BY PendingIsQueue
<1>6. Pending' = [n \in 1 .. size + 1 |-> slots[Index(Plus(tail, n - 1))]]
  BY <1>1, <1>3 DEF Pending, Index, Plus
<1>7. \A n \in 1 .. size + 1 :
          slots[Index(Plus(tail, n - 1))] = IF n = size + 1 THEN v ELSE Pending[n]
  BY <1>2, <1>4, <1>5
<1>8. Append(Pending, v) = [n \in 1 .. size + 1 |-> IF n = size + 1 THEN v ELSE Pending[n]]
  BY <1>1, <1>2, <1>5
<1>9. Pending' = Append(Pending, v)
  BY <1>6, <1>7, <1>8
<1> QED
  BY <1>1, <1>2, <1>5, <1>9 DEF Queue!Put

LEMMA ConsumeTakes == RingInv /\ RingInv' /\ consume => Queue!Take
<1> SUFFICES ASSUME RingInv, RingInv', consume PROVE Queue!Take
  OBVIOUS
<1> USE RingAssumption
<1>1. slots' = slots /\ tail' = Plus(tail, 1)
  BY DEF consume
<1>2. size \in 0 .. Capacity /\ size > 0
  BY SizeBounds DEF RingInv, consume
<1>3. size' = size - 1
  BY <1>2 DEF consume, producer, RingInv, RingTypeOK, Positions, Distance, Plus, size
<1>5. /\ Pending \in Seq(Values) /\ Len(Pending) = size
      /\ \A n \in 1 .. size : Pending[n] = slots[Index(Plus(tail, n - 1))]
  BY PendingIsQueue
<1>6. Pending' = [n \in 1 .. size - 1 |-> slots[Index(Plus(Plus(tail, 1), n - 1))]]
  BY <1>1, <1>3 DEF Pending, Index
<1>7. ASSUME NEW n \in 1 .. size - 1
      PROVE  slots[Index(Plus(Plus(tail, 1), n - 1))] = Pending[n + 1]
  <2>1. n - 1 \in 0 .. Capacity - 1 /\ n + 1 \in 1 .. size /\ (n - 1) + 1 = (n + 1) - 1
    BY <1>2
  <2>2. Plus(Plus(tail, 1), n - 1) = Plus(tail, (n - 1) + 1)
    BY <2>1, PlusOnePlus DEF RingInv, RingTypeOK
  <2> QED
    BY <2>1, <2>2, <1>5
<1>8. Tail(Pending) = [n \in 1 .. size - 1 |-> Pending[n + 1]]
  <2>1. Pending # << >>
    BY <1>2, <1>5
  <2>2. /\ Tail(Pending) \in Seq(Values) /\ Len(Tail(Pending)) = size - 1
        /\ \A n \in 1 .. size - 1 : Tail(Pending)[n] = Pending[n + 1]
    BY <2>1, <1>2, <1>5
  <2>3. Tail(Pending) \in [1 .. size - 1 -> Values]
    BY <2>2, LenProperties
  <2> QED
    BY <2>2, <2>3
<1>9. Pending' = Tail(Pending)
  BY <1>6, <1>7, <1>8
<1> QED
  BY <1>2, <1>5, <1>9 DEF Queue!Take

\* Every other step leaves the pending messages as they are.
LEMMA OthersKeepPending ==
    ASSUME RingInv, [Produce \/ Consume]_ringVars, ~commit, ~consume
    PROVE  Pending' = Pending
<1> USE RingAssumption
<1>t. RingTypeOK /\ RingOrder
  BY DEF RingInv
<1>w. ASSUME NEW v, writer # "idle", head' = head, tail' = tail,
             slots' = [slots EXCEPT ![Index(head)] = v]
      PROVE  Pending' = Pending
  <2>1. size \in 0 .. Capacity
    BY <1>t, SizeBounds
  <2>2. ASSUME NEW n \in 1 .. size
        PROVE  slots'[Index(Plus(tail, n - 1))] = slots[Index(Plus(tail, n - 1))]
    <3>1. n - 1 \in 0 .. size - 1
      BY <2>1
    <3>2. Index(Plus(tail, n - 1)) # Index(head)
      BY <3>1, <1>t, <1>w, WrittenSlotFree
    <3>3. Plus(tail, n - 1) \in Positions
      BY <3>1, <2>1, <1>t DEF RingTypeOK, Positions, Plus
    <3>4. Index(Plus(tail, n - 1)) \in 0 .. Capacity - 1
      BY <3>3, IndexInRange
    <3> QED
      BY <3>2, <3>4, <1>t, <1>w DEF RingTypeOK
  <2>3. size' = size
    BY <1>w DEF size, Distance
  <2>4. Pending' = [n \in 1 .. size |-> slots'[Index(Plus(tail, n - 1))]]
    BY <1>w, <2>3 DEF Pending, Index, Plus
  <2> QED
    BY <2>2, <2>4 DEF Pending
<1>s. ASSUME head' = head, tail' = tail, slots' = slots
      PROVE  Pending' = Pending
  BY <1>s DEF Pending, size, Distance, Index, Plus
<1>1. ASSUME NEW t \in Positions, try_claim(t) \/ load_tail(t) PROVE Pending' = Pending
  BY <1>1, <1>s DEF try_claim, load_tail, consumer
<1>2. CASE begin_write
  BY <1>2, <1>w DEF begin_write, consumer
<1>3. ASSUME NEW v \in Values, end_write(v) PROVE Pending' = Pending
  BY <1>3, <1>w DEF end_write, consumer
<1>4. CASE abandon
  BY <1>4, <1>s DEF abandon, consumer
<1>5. ASSUME NEW h \in Positions, try_peek(h) \/ load_head(h) PROVE Pending' = Pending
  BY <1>5, <1>s DEF try_peek, load_head, producer
<1>6. CASE UNCHANGED ringVars
  BY <1>6, <1>s DEF ringVars
<1> QED
  BY <1>1, <1>2, <1>3, <1>4, <1>5, <1>6 DEF Produce, Consume

\* The ring is a bounded FIFO queue: commit() puts the message that was
\* written, consume() takes the oldest, and no other step of either thread
\* changes what is pending.
THEOREM RingImplementsQueue == RingSpec => ImplementsQueue
<1>1. RingInit => Queue!Init
  <2> SUFFICES ASSUME RingInit PROVE Pending = << >>
    BY DEF Queue!Init
  <2>1. size = 0
    BY RingAssumption DEF RingInit, size, Distance
  <2> QED
    BY <2>1 DEF Pending
<1>2. RingInv /\ RingInv' /\ [RingNext]_ringVars => [Queue!Next]_Pending
  BY CommitPuts, ConsumeTakes, OthersKeepPending DEF RingNext, Queue!Next
<1> QED
  BY <1>1, <1>2, RingInvariant, PTL DEF RingSpec, ImplementsQueue, Queue!Spec

-----------------------------------------------------------------------------
(***************************************************************************)
(* The pipeline.                                                           *)
(***************************************************************************)

\* Every step of the pipeline is a step of the ring or leaves it alone.
LEMMA PipelineStepsRing == RingTypeOK /\ [PipelineNext]_pipelineVars => [RingNext]_ringVars
<1> SUFFICES ASSUME RingTypeOK, [PipelineNext]_pipelineVars PROVE [RingNext]_ringVars
  OBVIOUS
<1>1. CASE Ingest
  <2>1. CASE ingest_turn \/ ingest_stop \/ poll_paced \/ should_drop
    BY <2>1 DEF ingest_turn, ingest_stop, poll_paced, should_drop
  <2>2. CASE poll_full \/ poll_room \/ poll_claim
    BY <2>2 DEF poll_full, poll_room, poll_claim, RingNext, Produce
  <2>3. CASE decode_itch \/ decode_failed \/ poll_commit
    BY <2>3 DEF decode_itch, decode_failed, poll_commit, RingNext, Produce
  <2> QED
    BY <1>1, <2>1, <2>2, <2>3 DEF Ingest
<1>2. CASE MainLoop
  <2>1. CASE loop_turn \/ loop_stop \/ feed_running \/ ticks_left \/ simulator_finished
    BY <2>1 DEF loop_turn, loop_stop, feed_running, ticks_left, simulator_finished
  <2>2. CASE peek_found \/ peek_none
    BY <2>2 DEF peek_found, peek_none, RingNext, Consume
  <2>3. CASE process_one
    BY <2>3 DEF process_one, RingNext, Consume
  <2>4. CASE feed_done
    BY <2>4 DEF feed_done, RingNext, Consume, RingTypeOK
  <2> QED
    BY <1>2, <2>1, <2>2, <2>3, <2>4 DEF MainLoop
<1>3. CASE request_shutdown
  BY <1>3 DEF request_shutdown
<1>4. CASE UNCHANGED pipelineVars
  BY <1>4 DEF pipelineVars
<1> QED
  BY <1>1, <1>2, <1>3, <1>4 DEF PipelineNext

\* The ring's invariant and queue hold in the pipeline.
THEOREM PipelineRing == PipelineSpec => []RingInv /\ RingSpec
<1>1. PipelineInit => RingInit
  BY DEF PipelineInit
<1>2. RingInv /\ [PipelineNext]_pipelineVars => RingInv'
  <2> SUFFICES ASSUME RingInv, [PipelineNext]_pipelineVars PROVE RingInv'
    OBVIOUS
  <2>1. [RingNext]_ringVars
    BY PipelineStepsRing DEF RingInv
  <2> QED
    BY <2>1, RingTypeStep, RingOrderStep, PendingStep, HeldStep DEF RingInv
<1>3. RingInv => RingTypeOK
  BY DEF RingInv
<1> QED
  BY <1>1, <1>2, <1>3, RingInitInv, PipelineStepsRing, PTL DEF PipelineSpec, RingSpec

-----------------------------------------------------------------------------
(***************************************************************************)
(* Where the two threads are, and what they know there.                    *)
(***************************************************************************)
ThreadsInv ==
    /\ ingest \in {"turn", "poll", "checked", "decode", "ended"}
    /\ ingest = "decode" <=> writer # "idle"
    /\ ingest = "checked" => Distance(head, seenTail) < Capacity
    /\ loop \in {"turn", "peek", "process", "empty", "drained", "stopped"}
    /\ loop = "process" <=> reader = "holding"
    /\ loop = "drained" => ingest = "ended"
    /\ StopsDrained

LEMMA ThreadsInit == PipelineInit => ThreadsInv
BY DEF PipelineInit, RingInit, ThreadsInv, StopsDrained

LEMMA IngestStep == RingInv /\ ThreadsInv /\ Ingest => ThreadsInv'
<1> SUFFICES ASSUME RingInv, ThreadsInv, Ingest PROVE ThreadsInv'
  OBVIOUS
<1> USE DEF ThreadsInv, StopsDrained, IngestGoes
<1>1. CASE ingest_turn \/ ingest_stop \/ poll_paced \/ should_drop
  BY <1>1 DEF ingest_turn, ingest_stop, poll_paced, should_drop, ringVars
<1>2. CASE poll_full
  BY <1>2 DEF poll_full, load_tail, consumer
<1>3. CASE poll_room
  <2> PICK t \in Positions : load_tail(t) /\ ~Full(t) /\ IngestGoes("poll", "checked")
    BY <1>3 DEF poll_room
  <2>1. Distance(head, t) < Capacity
    BY RingAssumption DEF Full, RingInv, RingTypeOK, Positions, Distance
  <2> QED
    BY <2>1 DEF load_tail, consumer, Distance
<1>4. CASE poll_claim
  BY <1>4 DEF poll_claim, try_claim, consumer
<1>5. CASE decode_itch
  BY <1>5 DEF decode_itch, begin_write, end_write, consumer
<1>6. CASE decode_failed
  BY <1>6 DEF decode_failed, abandon, consumer
<1>7. CASE poll_commit
  BY <1>7 DEF poll_commit, commit, consumer
<1> QED
  BY <1>1, <1>2, <1>3, <1>4, <1>5, <1>6, <1>7 DEF Ingest

LEMMA LoopStep == RingInv /\ ThreadsInv /\ MainLoop => ThreadsInv'
<1> SUFFICES ASSUME RingInv, ThreadsInv, MainLoop PROVE ThreadsInv'
  OBVIOUS
<1> USE DEF ThreadsInv, StopsDrained, LoopGoes
<1>1. CASE loop_turn \/ loop_stop \/ feed_running \/ ticks_left
  BY <1>1 DEF loop_turn, loop_stop, feed_running, ticks_left, ringVars, Distance
<1>2. CASE peek_found
  BY <1>2 DEF peek_found, try_peek, producer, Distance
<1>3. CASE process_one
  BY <1>3 DEF process_one, consume, producer, Distance
<1>4. CASE peek_none
  BY <1>4 DEF peek_none, load_head, producer, Distance
<1>5. CASE feed_done
  BY <1>5 DEF feed_done, load_head, producer, Distance
<1>6. CASE simulator_finished
  <2>1. head = tail
    BY <1>6, RingAssumption
       DEF simulator_finished, size, Distance, RingInv, RingTypeOK, Positions
  <2> QED
    BY <1>6, <2>1 DEF simulator_finished, ringVars, Distance
<1> QED
  BY <1>1, <1>2, <1>3, <1>4, <1>5, <1>6 DEF MainLoop

LEMMA ThreadsStep == RingInv /\ ThreadsInv /\ [PipelineNext]_pipelineVars => ThreadsInv'
<1> SUFFICES ASSUME RingInv, ThreadsInv, [PipelineNext]_pipelineVars PROVE ThreadsInv'
  OBVIOUS
<1>1. CASE request_shutdown
  BY <1>1 DEF ThreadsInv, StopsDrained, request_shutdown, ringVars, Distance
<1>2. CASE UNCHANGED pipelineVars
  BY <1>2 DEF ThreadsInv, StopsDrained, pipelineVars, ringVars, Distance
<1> QED
  BY <1>1, <1>2, IngestStep, LoopStep DEF PipelineNext

\* The main loop leaves without a shutdown only when the feed has ended and
\* the ring is empty: ingest_done followed by size() is enough.
THEOREM PipelineStopsDrained == PipelineSpec => []StopsDrained
<1>1. ThreadsInv => StopsDrained
  BY DEF ThreadsInv
<1> QED
  BY <1>1, ThreadsInit, ThreadsStep, PipelineRing, PTL DEF PipelineSpec

\* After size() has shown room the claim of the same poll succeeds, whichever
\* tail it loads.
THEOREM PipelineClaimSucceeds == PipelineSpec => []CheckedClaimSucceeds
<1>1. RingInv /\ ThreadsInv => CheckedClaimSucceeds
  <2> SUFFICES ASSUME RingInv, ThreadsInv, ingest = "checked", NEW t \in Loads(seenTail, tail)
               PROVE  ~Full(t)
    BY DEF CheckedClaimSucceeds
  <2> USE RingAssumption
  <2>1. RingTypeOK /\ RingOrder
    BY DEF RingInv
  <2>2. t \in Positions /\ Distance(t, seenTail) + Distance(tail, t) = Distance(tail, seenTail)
    BY <2>1, LoadBetween DEF RingTypeOK
  <2>3. Distance(head, seenTail) = Distance(tail, seenTail) + size /\ size \in 0 .. Capacity
    BY <2>1, SizeBounds
  <2>4. Distance(head, seenTail) < Capacity
    BY DEF ThreadsInv
  <2>5. Distance(head, t) < Capacity
    BY <2>1, <2>2, <2>3, <2>4 DEF RingTypeOK, Positions, Distance, size
  <2> QED
    BY <2>1, <2>2, <2>5 DEF Full, RingTypeOK, Positions, Distance
<1> QED
  BY <1>1, ThreadsInit, ThreadsStep, PipelineRing, PTL DEF PipelineSpec

-----------------------------------------------------------------------------
(***************************************************************************)
(* The execution gateway.                                                  *)
(***************************************************************************)
\* Replay keeps the shape of the recovered book.
LEMMA AppendedType ==
    ASSUME NEW log \in RecoveryLog, NEW id \in Ids, NEW qty \in Nat, NEW price \in Nat,
           NEW side \in Sides, NEW outcome, NEW type,
           type \in {"Add", "Fill", "TerminalFill", "Replace", "Cancel"}
    PROVE  Appended(log, Event(type, id, qty, price, side), outcome) \in RecoveryLog
<1> DEFINE ev == Event(type, id, qty, price, side)
<1>1. /\ ev.type = type /\ ev.id = id /\ ev.qty = qty /\ ev.price = price /\ ev.side = side
  BY DEF Event
<1>2. Unreadable \in RecoveryLog
  BY DEF Unreadable, EmptyLog, RecoveryLog, NoRecovered
<1>3. ASSUME Applicable(log.book, ev)
      PROVE  Applied(log.book, ev) \in [Ids -> [rem : Nat, price : Nat, side : {"buy", "sell"}]]
  <2>1. CASE type = "Add"
    BY <1>1, <2>1 DEF Applied, RecoveryLog, Sides
  <2>2. CASE type = "Fill" /\ qty < log.book[id].rem
    BY <1>1, <2>2 DEF Applied, RecoveryLog
  <2>3. CASE type = "Replace"
    BY <1>1, <2>3 DEF Applied, RecoveryLog
  <2>4. CASE type \in {"Cancel", "TerminalFill"} \/ (type = "Fill" /\ ~(qty < log.book[id].rem))
    BY <1>1, <2>4 DEF Applied, RecoveryLog, NoRecovered
  <2> QED BY <2>1, <2>2, <2>3, <2>4
<1> HIDE DEF ev
<1>4. Appended(log, ev, outcome) \in RecoveryLog
  BY <1>2, <1>3 DEF Appended, RecoveryLog
<1> QED BY <1>4 DEF ev

\* An append that fails leaves the log alone, breaks it, or leaves its writer
\* behind it.
LEMMA FailedAppend ==
    ASSUME NEW log \in RecoveryLog, NEW ev, NEW outcome \in AppendOutcomes \ {"ok"}
    PROVE  \/ Appended(log, ev, outcome) = log
           \/ ~Appended(log, ev, outcome).valid
           \/ Appended(log, ev, outcome).behind
<1>1. CASE outcome = "unwritten"
  BY <1>1 DEF Appended
<1>2. ~Unreadable.valid
  BY DEF Unreadable, EmptyLog
<1>3. CASE outcome = "torn"
  BY <1>2, <1>3 DEF Appended
<1>4. CASE outcome = "unsynced"
  <2>1. Appended(log, ev, outcome).behind \/ Appended(log, ev, outcome) = Unreadable
    BY <1>4 DEF Appended, RecoveryLog
  <2> QED BY <1>2, <2>1
<1> QED BY <1>1, <1>3, <1>4 DEF AppendOutcomes

\* What the risk-state updates do to a risk state.
LEMMA RiskUpdates ==
    ASSUME NEW r \in RiskState, NEW side \in Sides, NEW qty \in Nat, NEW price \in Nat
    PROVE  /\ signed_qty_delta(side, qty) \in Int
           /\ CountedReject(r) \in RiskState /\ CountedReject(r).count = r.count
           /\ Halted(r) \in RiskState /\ Halted(r).count = r.count
           /\ RejectedRisk(r) \in RiskState /\ RejectedRisk(r).count = r.count
           /\ Reserved(r, side, qty, price) \in RiskState
           /\ Reserved(r, side, qty, price).count = r.count
           /\ release_reservation(r, side, qty, price) \in RiskState
           /\ release_reservation(r, side, qty, price).count = r.count
<1> DEFINE delta == signed_qty_delta(side, qty)
           cost == price * qty
<1>1. delta \in Int /\ cost \in Int
  BY DEF signed_qty_delta
<1>2. CountedReject(r) \in RiskState /\ CountedReject(r).count = r.count
  BY DEF RiskState, CountedReject
<1>3. \A q \in RiskState : Halted(q) \in RiskState /\ Halted(q).count = q.count
  BY DEF RiskState, Halted
<1>4. RejectedRisk(r) \in RiskState /\ RejectedRisk(r).count = r.count
  BY <1>2, <1>3 DEF RejectedRisk
<1> DEFINE net1 == r.net + delta
           net2 == r.net - delta
           gross1 == r.gross + cost
           gross2 == r.gross - cost
<1> HIDE DEF delta, cost
<1>5. net1 \in Int /\ net2 \in Int /\ gross1 \in Int /\ gross2 \in Int
  BY <1>1 DEF RiskState
<1>6. Reserved(r, side, qty, price) = [r EXCEPT !.net = net1, !.gross = gross1]
  BY DEF Reserved, delta, cost
<1>7. release_reservation(r, side, qty, price) = [r EXCEPT !.net = net2, !.gross = gross2]
  BY DEF release_reservation, delta, cost
<1> HIDE DEF net1, net2, gross1, gross2
<1>8. /\ Reserved(r, side, qty, price) \in RiskState
      /\ Reserved(r, side, qty, price).count = r.count
  BY <1>5, <1>6 DEF RiskState
<1>9. /\ release_reservation(r, side, qty, price) \in RiskState
      /\ release_reservation(r, side, qty, price).count = r.count
  BY <1>5, <1>7 DEF RiskState
<1>10. signed_qty_delta(side, qty) \in Int
  BY <1>1 DEF delta
<1> QED BY <1>2, <1>3, <1>4, <1>8, <1>9, <1>10

\* What they do to the amounts.
LEMMA RiskAmounts ==
    ASSUME NEW r \in RiskState, NEW side \in Sides, NEW qty \in Nat, NEW price \in Nat
    PROVE  /\ CountedReject(r).net = r.net /\ CountedReject(r).gross = r.gross
           /\ Halted(r).net = r.net /\ Halted(r).gross = r.gross
           /\ Opened(r).net = r.net /\ Opened(r).gross = r.gross
           /\ Closed(r).net = r.net /\ Closed(r).gross = r.gross
           /\ RejectedRisk(r).net = r.net /\ RejectedRisk(r).gross = r.gross
           /\ Reserved(r, side, qty, price).net = r.net + signed_qty_delta(side, qty)
           /\ Reserved(r, side, qty, price).gross = r.gross + price * qty
           /\ release_reservation(r, side, qty, price).net = r.net - signed_qty_delta(side, qty)
           /\ release_reservation(r, side, qty, price).gross = r.gross - price * qty
<1>1. /\ CountedReject(r).net = r.net /\ CountedReject(r).gross = r.gross
      /\ CountedReject(r) \in RiskState
  BY DEF RiskState, CountedReject
<1>2. \A q \in RiskState : Halted(q).net = q.net /\ Halted(q).gross = q.gross
  BY DEF RiskState, Halted
<1>3. Opened(r).net = r.net /\ Opened(r).gross = r.gross
  BY DEF RiskState, Opened
<1>4. Closed(r).net = r.net /\ Closed(r).gross = r.gross
  BY DEF RiskState, Closed
<1>5. RejectedRisk(r).net = r.net /\ RejectedRisk(r).gross = r.gross
  BY <1>1, <1>2 DEF RejectedRisk
<1>6. /\ Reserved(r, side, qty, price).net = r.net + signed_qty_delta(side, qty)
      /\ Reserved(r, side, qty, price).gross = r.gross + price * qty
  BY DEF RiskState, Reserved
<1>7. /\ release_reservation(r, side, qty, price).net = r.net - signed_qty_delta(side, qty)
      /\ release_reservation(r, side, qty, price).gross = r.gross - price * qty
  BY DEF RiskState, release_reservation
<1> QED BY <1>1, <1>2, <1>3, <1>4, <1>5, <1>6, <1>7

\* What releasing a reservation takes off the two amounts.
LEMMA ReleaseAmounts ==
    ASSUME NEW r \in RiskState, NEW side \in Sides, NEW qty \in Nat, NEW price \in Nat
    PROVE  /\ release_reservation(r, side, qty, price).net = r.net - signed_qty_delta(side, qty)
           /\ release_reservation(r, side, qty, price).gross = r.gross - price * qty
BY RiskAmounts

LEMMA OneFewerType == \A n \in Nat : OneFewer(n) \in Nat
  BY DEF OneFewer

LEMMA CountUpdates ==
    ASSUME NEW r \in RiskState
    PROVE  /\ Opened(r) \in RiskState /\ Opened(r).count = r.count + 1
           /\ Closed(r) \in RiskState /\ Closed(r).count = OneFewer(r.count)
  BY OneFewerType DEF RiskState, Opened, Closed

\* A fill that fits the order leaves an order and a risk state.
LEMMA FillUpdates ==
    ASSUME NEW order \in Order, NEW r \in RiskState, NEW qty \in Nat, qty <= order.qty,
           NEW terminal \in BOOLEAN
    PROVE  /\ FilledOrder(order, qty, terminal) \in Order
           /\ FilledOrder(order, qty, terminal).id = order.id
           /\ FilledOrder(order, qty, terminal).qty = order.qty - qty
           /\ FilledOrder(order, qty, terminal).state =
                IF terminal \/ qty = order.qty THEN "done" ELSE "partial"
           /\ FilledRisk(r, order, qty, terminal) \in RiskState
           /\ FilledRisk(r, order, qty, terminal).count =
                IF terminal \/ qty = order.qty THEN OneFewer(r.count) ELSE r.count
<1>1. /\ FilledOrder(order, qty, terminal) \in Order
      /\ FilledOrder(order, qty, terminal).id = order.id
      /\ FilledOrder(order, qty, terminal).qty = order.qty - qty
      /\ FilledOrder(order, qty, terminal).state =
           IF terminal \/ qty = order.qty THEN "done" ELSE "partial"
  <2> DEFINE st == IF terminal \/ qty = order.qty THEN "done" ELSE "partial"
             fl == order.filled + qty
             lf == order.qty - qty
  <2>1. st \in SlotStates /\ fl \in Nat /\ lf \in Nat
    BY DEF SlotStates, Order
  <2>2. FilledOrder(order, qty, terminal) =
          [order EXCEPT !.filled = fl, !.qty = lf, !.state = st]
    BY DEF FilledOrder
  <2> HIDE DEF st, fl, lf
  <2>3. FilledOrder(order, qty, terminal) \in Order
    BY <2>1, <2>2 DEF Order
  <2>4. /\ FilledOrder(order, qty, terminal).id = order.id
        /\ FilledOrder(order, qty, terminal).qty = lf
        /\ FilledOrder(order, qty, terminal).state = st
    BY <2>2 DEF Order
  <2> QED BY <2>3, <2>4 DEF lf, st
<1> DEFINE left == order.qty - qty
           kept == IF terminal /\ left > 0
                   THEN release_reservation(r, order.side, left, order.price) ELSE r
           ends == terminal \/ left = 0
<1>2. left \in Nat /\ order.side \in Sides /\ order.price \in Nat
  BY DEF Order
<1>3. ends <=> (terminal \/ qty = order.qty)
  BY DEF Order
<1>4. FilledRisk(r, order, qty, terminal) =
        IF ends THEN Closed(kept) ELSE kept
  BY DEF FilledRisk
<1> HIDE DEF left
<1>5. kept \in RiskState /\ kept.count = r.count
  BY <1>2, RiskUpdates
<1> HIDE DEF kept, ends
<1>6. FilledRisk(r, order, qty, terminal) \in RiskState
  BY <1>4, <1>5, CountUpdates
<1>7. FilledRisk(r, order, qty, terminal).count = IF ends THEN OneFewer(r.count) ELSE r.count
  BY <1>4, <1>5, CountUpdates
<1> QED BY <1>1, <1>3, <1>6, <1>7

-----------------------------------------------------------------------------
(***************************************************************************)
(* The inductive invariant.  LedgerMatchesSlots and OpenSlotFoundFirst     *)
(* together say that a scan that stops at a slot whose id the ledger knows *)
(* has stopped at the open order of that id; without them a late report    *)
(* could close a terminal order a second time and break SlotAccounting.    *)
(***************************************************************************)

\* A slot is cleared, or holds an order submitted under its symbol and id.
SlotsRouted ==
    \A s \in Symbols, i \in Slots :
        \/ orders[s][i] = EmptyOrder
        \/ orders[s][i].state # "empty" /\ <<s, orders[s][i].id>> \in IdPairs

SlotInv == SlotsRouted /\ LedgerMatchesSlots /\ OpenSlotFoundFirst

\* The slots other than slot i of symbol s.
OthersKept(s, i) ==
    \A t \in Symbols, j \in Slots :
        (t # s \/ j # i) => orders'[t][j] = orders[t][j]

LEMMA OpenSlotsFinite ==
    /\ \A s \in Symbols : IsFiniteSet(OpenSlots(s)) /\ Cardinality(OpenSlots(s)) \in Nat
    /\ IsFiniteSet(AllOpenSlots) /\ Cardinality(AllOpenSlots) \in Nat
<1>1. IsFiniteSet(Slots)
  BY GatewayAssumption, FS_Interval DEF Slots
<1>2. IsFiniteSet(Symbols \X Slots)
  BY <1>1, GatewayAssumption, FS_Product
<1>3. \A s \in Symbols : OpenSlots(s) \in SUBSET Slots
  BY DEF OpenSlots
<1>4. AllOpenSlots \in SUBSET (Symbols \X Slots)
  BY DEF AllOpenSlots
<1> QED BY <1>1, <1>2, <1>3, <1>4, FS_Subset, FS_CardinalityType

\* A slot that opens adds one to the counts.
LEMMA CountsAfterOpening ==
    ASSUME NEW s \in Symbols, NEW i \in Slots, OthersKept(s, i),
           ~Open(orders[s][i]), Open(orders'[s][i])
    PROVE  /\ Cardinality(OpenSlots(s))' = Cardinality(OpenSlots(s)) + 1
           /\ \A t \in Symbols \ {s} : OpenSlots(t)' = OpenSlots(t)
           /\ Cardinality(AllOpenSlots)' = Cardinality(AllOpenSlots) + 1
<1>1. OpenSlots(s)' = OpenSlots(s) \cup {i} /\ i \notin OpenSlots(s)
  BY DEF OpenSlots, OthersKept
<1>2. \A t \in Symbols \ {s} : OpenSlots(t)' = OpenSlots(t)
  BY DEF OpenSlots, OthersKept
<1>3. AllOpenSlots' = AllOpenSlots \cup {<<s, i>>} /\ <<s, i>> \notin AllOpenSlots
  BY DEF AllOpenSlots, OthersKept
<1> QED BY <1>1, <1>2, <1>3, OpenSlotsFinite, FS_AddElement

\* A slot that closes takes one off the counts.
LEMMA CountsAfterClosing ==
    ASSUME NEW s \in Symbols, NEW i \in Slots, OthersKept(s, i),
           Open(orders[s][i]), ~Open(orders'[s][i])
    PROVE  /\ Cardinality(OpenSlots(s))' = Cardinality(OpenSlots(s)) - 1
           /\ \A t \in Symbols \ {s} : OpenSlots(t)' = OpenSlots(t)
           /\ Cardinality(AllOpenSlots)' = Cardinality(AllOpenSlots) - 1
<1>1. OpenSlots(s)' = OpenSlots(s) \ {i} /\ i \in OpenSlots(s)
  BY DEF OpenSlots, OthersKept
<1>2. \A t \in Symbols \ {s} : OpenSlots(t)' = OpenSlots(t)
  BY DEF OpenSlots, OthersKept
<1>3. AllOpenSlots' = AllOpenSlots \ {<<s, i>>} /\ <<s, i>> \in AllOpenSlots
  BY DEF AllOpenSlots, OthersKept
<1> QED BY <1>1, <1>2, <1>3, OpenSlotsFinite, FS_RemoveElement

\* A slot that stays open, or stays closed, leaves the counts.
LEMMA CountsKept ==
    ASSUME NEW s \in Symbols, NEW i \in Slots, OthersKept(s, i),
           Open(orders'[s][i]) <=> Open(orders[s][i])
    PROVE  /\ \A t \in Symbols : OpenSlots(t)' = OpenSlots(t)
           /\ AllOpenSlots' = AllOpenSlots
  BY DEF OpenSlots, AllOpenSlots, OthersKept

-----------------------------------------------------------------------------
(***************************************************************************)
(* Type correctness.                                                       *)
(***************************************************************************)

\* The same number of orders and the same amounts.
SameHoldings(q, r) == q.count = r.count /\ q.net = r.net /\ q.gross = r.gross

\* The calls that touch neither the slots nor the limiter nor the ledger:
\* refusals, mismatched or unlogged reports, and the operator controls.
Bookkeeping ==
    /\ UNCHANGED <<orders, pending, ledger, reports, settled>>
    /\ risk' \in [Symbols -> RiskState]
    /\ \A t \in Symbols : SameHoldings(risk'[t], risk[t])
    /\ breaker' \in {"closed", "open"}
    /\ wal' \in RecoveryLog
    /\ wal' = wal \/ ~wal'.valid \/ wal'.behind

LEMMA RiskEntry ==
    ASSUME TypeOK, NEW s \in Symbols, NEW r \in RiskState, r.count = risk[s].count,
           risk' = [risk EXCEPT ![s] = r]
    PROVE  /\ risk' \in [Symbols -> RiskState]
           /\ \A t \in Symbols : risk'[t].count = risk[t].count
  BY DEF TypeOK

\* An order found by a scan is stored under a known id.
LEMMA MatchedOrder ==
    ASSUME TypeOK, SlotsRouted, NEW s \in Symbols, NEW i \in Slots, NEW id \in Ids,
           FirstMatch(s, id, i) \/ FirstOpen(s, id, i)
    PROVE  /\ orders[s][i] \in Order
           /\ orders[s][i].id = id
           /\ <<s, id>> \in IdPairs
  BY GatewayAssumption DEF TypeOK, SlotsRouted, FirstMatch, FirstOpen, EmptyOrder, Open, Order

LEMMA SameHoldingsEntry ==
    ASSUME TypeOK, NEW s \in Symbols, NEW r \in RiskState, SameHoldings(r, risk[s]),
           risk' = [risk EXCEPT ![s] = r]
    PROVE  /\ risk' \in [Symbols -> RiskState]
           /\ \A t \in Symbols : SameHoldings(risk'[t], risk[t])
  BY DEF TypeOK, SameHoldings

LEMMA HaltAndTripIsBookkeeping ==
    ASSUME TypeOK, NEW s \in Symbols, HaltAndTrip(s), wal' \in RecoveryLog,
           wal' = wal \/ ~wal'.valid \/ wal'.behind
    PROVE  Bookkeeping
<1>1. risk[s] \in RiskState
  BY DEF TypeOK
<1>2. Halted(risk[s]) \in RiskState /\ SameHoldings(Halted(risk[s]), risk[s])
  BY <1>1, RiskUpdates, RiskAmounts, "buy" \in Sides, 0 \in Nat DEF Sides, SameHoldings
<1>3. risk' = [risk EXCEPT ![s] = Halted(risk[s])]
  BY DEF HaltAndTrip, TypeOK
<1> QED BY <1>2, <1>3, SameHoldingsEntry DEF Bookkeeping, HaltAndTrip

LEMMA CountingIsBookkeeping ==
    ASSUME TypeOK, NEW s \in Symbols,
           UNCHANGED <<orders, pending, ledger, wal, reports, settled>>,
           breaker' \in {"closed", "open"},
           \/ risk' = [risk EXCEPT ![s] = CountedReject(risk[s])]
           \/ risk' = [risk EXCEPT ![s] = Halted(CountedReject(risk[s]))]
           \/ risk' = [risk EXCEPT ![s] = RejectedRisk(risk[s])]
           \/ risk' = [risk EXCEPT ![s] = Halted(risk[s])]
    PROVE  Bookkeeping
<1>1. risk[s] \in RiskState /\ wal \in RecoveryLog
  BY DEF TypeOK
<1>2. \A r \in RiskState :
         /\ CountedReject(r) \in RiskState /\ SameHoldings(CountedReject(r), r)
         /\ Halted(r) \in RiskState /\ SameHoldings(Halted(r), r)
         /\ RejectedRisk(r) \in RiskState /\ SameHoldings(RejectedRisk(r), r)
  BY RiskUpdates, RiskAmounts, "buy" \in Sides, 0 \in Nat DEF Sides, SameHoldings
<1>3. PICK r \in RiskState : SameHoldings(r, risk[s]) /\ risk' = [risk EXCEPT ![s] = r]
  <2>1. \A q, r : SameHoldings(q, r) <=> q.count = r.count /\ q.net = r.net /\ q.gross = r.gross
    BY DEF SameHoldings
  <2> QED BY <1>1, <1>2, <2>1
<1> QED BY <1>1, <1>3, SameHoldingsEntry DEF Bookkeeping

\* The calls that change the slots.
Admission(s, i) ==
    \E id \in Ids, side \in Sides, qty \in Qtys, price \in Prices :
        /\ <<s, id>> \in IdPairs
        /\ \/ try_build(s, i, id, side, qty, price)
           \/ \E failure \in {"audit"} \cup (Outcomes \ {"ok"}) :
                 try_build_unlogged(s, i, id, side, qty, price, failure)

Report(s, i) ==
    \E id \in Ids :
        \/ \E qty \in Qtys \cup {0}, terminal, delivered \in BOOLEAN :
              apply_execution_report(s, i, id, qty, terminal, delivered)
        \/ apply_cancel_report(s, i, id)
        \/ \E qty \in Qtys, price \in Prices : apply_replace_report(s, i, id, qty, price)
        \/ apply_reject_report(s, i, id)

-----------------------------------------------------------------------------
(***************************************************************************)
(* How each kind of change to one slot preserves the invariant.            *)
(***************************************************************************)
SlotsTyped == orders \in [Symbols -> [Slots -> Order]]

LEMMA SlotIndexOrder == \A i, j \in Slots : i < j => i \in 1 .. j - 1
  BY GatewayAssumption DEF Slots

\* A scan that ends at a slot whose id the ledger knows ends at the open order.
LEMMA KnownMatchIsOpen ==
    ASSUME SingleSymbolIds, SlotsTyped, SlotInv,
           NEW s \in Symbols, NEW i \in Slots, NEW id \in Ids,
           FirstMatch(s, id, i), ledger[id] # 0
    PROVE  Open(orders[s][i])
<1>1. orders[s][i].id = id /\ orders[s][i].state # "empty"
  BY DEF FirstMatch
<1>2. PICK t \in Symbols, j \in Slots : Open(orders[t][j]) /\ orders[t][j].id = id
  BY DEF SlotInv, LedgerMatchesSlots
<1>3. orders[t][j].state # "empty"
  BY <1>2 DEF Open
<1>4. <<s, id>> \in IdPairs /\ <<t, id>> \in IdPairs
  BY <1>1, <1>2, <1>3 DEF SlotInv, SlotsRouted, EmptyOrder
<1>5. s = t
  BY <1>4 DEF SingleSymbolIds
<1>6. j <= i
  BY <1>1, <1>2, <1>5 DEF SlotInv, OpenSlotFoundFirst
<1>7. ~(j < i)
  BY <1>2, <1>3, <1>5, SlotIndexOrder DEF FirstMatch
<1>8. i \in Nat /\ j \in Nat
  BY DEF Slots
<1> QED BY <1>2, <1>5, <1>6, <1>7, <1>8

LEMMA OpenIdKnown ==
    ASSUME SlotsRouted, NEW s \in Symbols, NEW i \in Slots, Open(orders[s][i])
    PROVE  orders[s][i].id \in Ids
<1>1. orders[s][i].state # "empty"
  BY DEF Open
<1>2. <<s, orders[s][i].id>> \in IdPairs
  BY <1>1 DEF SlotsRouted, EmptyOrder
<1>3. <<s, orders[s][i].id>> \in Symbols \X Ids
  BY <1>2, GatewayAssumption
<1> QED BY <1>3

\* No two open slots share an id.
LEMMA OpenIdsUnique ==
    ASSUME SingleSymbolIds, SlotInv,
           NEW s \in Symbols, NEW i \in Slots, NEW t \in Symbols, NEW j \in Slots,
           Open(orders[s][i]), Open(orders[t][j]), orders[s][i].id = orders[t][j].id
    PROVE  s = t /\ i = j
<1>1. orders[s][i].state # "empty" /\ orders[t][j].state # "empty"
  BY DEF Open
<1>2. <<s, orders[s][i].id>> \in IdPairs /\ <<t, orders[s][i].id>> \in IdPairs
  BY <1>1 DEF SlotInv, SlotsRouted, EmptyOrder
<1>3. s = t
  BY <1>2 DEF SingleSymbolIds
<1>4. i <= j /\ j <= i
  BY <1>1, <1>3 DEF SlotInv, OpenSlotFoundFirst
<1>5. i \in Nat /\ j \in Nat
  BY DEF Slots
<1> QED BY <1>3, <1>4, <1>5

\* The order in an open slot ends: the slot is cleared or becomes terminal and
\* the ledger entry goes.
LEMMA ClosingKeepsSlotInv ==
    ASSUME SingleSymbolIds, SlotsTyped, SlotInv, ledger \in [Ids -> Nat],
           NEW s \in Symbols, NEW i \in Slots, NEW id \in Ids,
           orders[s][i].id = id, Open(orders[s][i]), OthersKept(s, i),
           \/ orders'[s][i] = EmptyOrder
           \/ orders'[s][i].state = "done" /\ orders'[s][i].id = id,
           ledger' = [ledger EXCEPT ![id] = 0]
    PROVE  SlotInv'
<1>1. ~Open(orders'[s][i])
  BY DEF Open, EmptyOrder
<1>2. \A t \in Symbols, j \in Slots :
         Open(orders'[t][j]) => /\ orders'[t][j] = orders[t][j]
                                /\ orders[t][j].id # id
  BY <1>1, OpenIdsUnique DEF OthersKept
<1>3. SlotsRouted'
  BY DEF SlotInv, SlotsRouted, OthersKept, Open, EmptyOrder
<1>4. \A t \in Symbols, j \in Slots :
         Open(orders[t][j]) => orders[t][j].id \in Ids
  BY OpenIdKnown DEF SlotInv
<1>5. LedgerMatchesSlots'
  <2>1. ASSUME NEW t \in Symbols, NEW j \in Slots, Open(orders'[t][j])
        PROVE  orders'[t][j].qty > 0 /\ ledger'[orders'[t][j].id] = orders'[t][j].qty
    BY <1>2, <1>4, <2>1 DEF SlotInv, LedgerMatchesSlots
  <2>2. ASSUME NEW k \in Ids, ledger'[k] # 0
        PROVE  \E t \in Symbols, j \in Slots : Open(orders'[t][j]) /\ orders'[t][j].id = k
    <3>1. k # id /\ ledger[k] # 0
      BY <2>2
    <3>2. PICK t \in Symbols, j \in Slots : Open(orders[t][j]) /\ orders[t][j].id = k
      BY <3>1 DEF SlotInv, LedgerMatchesSlots
    <3> QED BY <3>1, <3>2 DEF OthersKept
  <2> QED BY <2>1, <2>2 DEF LedgerMatchesSlots
<1>6. OpenSlotFoundFirst'
  <2> SUFFICES ASSUME NEW t \in Symbols, NEW j \in Slots, NEW k \in Slots,
                      Open(orders'[t][j]), orders'[t][k].state # "empty",
                      orders'[t][k].id = orders'[t][j].id
               PROVE  j <= k
    BY DEF OpenSlotFoundFirst
  <2>1. orders'[t][j] = orders[t][j] /\ orders[t][j].id # id
    BY <1>2
  <2>2. orders'[t][k] = orders[t][k]
    BY <2>1 DEF OthersKept, EmptyOrder
  <2> QED BY <2>1, <2>2 DEF SlotInv, OpenSlotFoundFirst
<1> QED BY <1>3, <1>5, <1>6 DEF SlotInv

\* An open order keeps its slot and id under a new remaining quantity.
LEMMA RetermingKeepsSlotInv ==
    ASSUME SingleSymbolIds, SlotsTyped, SlotInv, ledger \in [Ids -> Nat],
           NEW s \in Symbols, NEW i \in Slots, NEW id \in Ids, NEW qty \in Nat \ {0},
           orders[s][i].id = id, Open(orders[s][i]), OthersKept(s, i),
           Open(orders'[s][i]), orders'[s][i].id = id, orders'[s][i].qty = qty,
           ledger' = [ledger EXCEPT ![id] = qty]
    PROVE  SlotInv'
<1>1. \A t \in Symbols, j \in Slots :
         /\ Open(orders'[t][j]) <=> Open(orders[t][j])
         /\ orders'[t][j].id = orders[t][j].id
         /\ orders'[t][j].state = "empty" <=> orders[t][j].state = "empty"
  BY DEF OthersKept, Open
<1>2. \A t \in Symbols, j \in Slots :
         Open(orders[t][j]) /\ (t # s \/ j # i) => orders[t][j].id # id
  BY OpenIdsUnique
<1>3. SlotsRouted'
  <2>1. <<s, id>> \in IdPairs
    BY DEF SlotInv, SlotsRouted, Open, EmptyOrder
  <2>2. orders'[s][i].state # "empty"
    BY DEF Open
  <2> QED BY <2>1, <2>2 DEF SlotInv, SlotsRouted, OthersKept
<1>4. LedgerMatchesSlots'
  <2>1. ASSUME NEW t \in Symbols, NEW j \in Slots, Open(orders'[t][j])
        PROVE  orders'[t][j].qty > 0 /\ ledger'[orders'[t][j].id] = orders'[t][j].qty
    <3>1. CASE t = s /\ j = i
      BY <3>1
    <3>2. CASE t # s \/ j # i
      <4>1. orders'[t][j] = orders[t][j] /\ orders[t][j].id # id /\ orders[t][j].id \in Ids
        BY <1>1, <1>2, <2>1, <3>2, OpenIdKnown DEF OthersKept, SlotInv
      <4> QED BY <2>1, <4>1 DEF SlotInv, LedgerMatchesSlots
    <3> QED BY <3>1, <3>2
  <2>2. ASSUME NEW k \in Ids, ledger'[k] # 0
        PROVE  \E t \in Symbols, j \in Slots : Open(orders'[t][j]) /\ orders'[t][j].id = k
    <3>1. CASE k = id
      BY <3>1
    <3>2. CASE k # id
      <4>1. ledger[k] # 0
        BY <2>2, <3>2
      <4>2. PICK t \in Symbols, j \in Slots : Open(orders[t][j]) /\ orders[t][j].id = k
        BY <4>1 DEF SlotInv, LedgerMatchesSlots
      <4> QED BY <1>1, <4>2
    <3> QED BY <3>1, <3>2
  <2> QED BY <2>1, <2>2 DEF LedgerMatchesSlots
<1>5. OpenSlotFoundFirst'
  BY <1>1 DEF SlotInv, OpenSlotFoundFirst
<1> QED BY <1>3, <1>4, <1>5 DEF SlotInv

\* A new order takes the first free slot under an id the ledger does not know.
LEMMA OpeningKeepsSlotInv ==
    ASSUME SingleSymbolIds, SlotsTyped, SlotInv, ledger \in [Ids -> Nat],
           NEW s \in Symbols, NEW i \in Slots, NEW id \in Ids, NEW qty \in Nat \ {0},
           <<s, id>> \in IdPairs, ledger[id] = 0, FirstFree(s, i), OthersKept(s, i),
           Open(orders'[s][i]), orders'[s][i].id = id, orders'[s][i].qty = qty,
           ledger' = [ledger EXCEPT ![id] = qty]
    PROVE  SlotInv'
<1>1. \A t \in Symbols, j \in Slots :
         Open(orders[t][j]) => orders[t][j].id # id /\ orders[t][j].id \in Ids
  <2> SUFFICES ASSUME NEW t \in Symbols, NEW j \in Slots, Open(orders[t][j])
               PROVE  orders[t][j].id # id /\ orders[t][j].id \in Ids
    OBVIOUS
  <2>1. orders[t][j].qty > 0 /\ ledger[orders[t][j].id] = orders[t][j].qty
    BY DEF SlotInv, LedgerMatchesSlots
  <2>2. orders[t][j] \in Order
    BY DEF SlotsTyped
  <2> QED BY <2>1, <2>2, OpenIdKnown DEF SlotInv, Order
<1>2. ~Open(orders[s][i]) /\ orders'[s][i].state # "empty"
  BY DEF FirstFree, Open
<1>3. SlotsRouted'
  BY <1>2 DEF SlotInv, SlotsRouted, OthersKept
<1>4. LedgerMatchesSlots'
  <2>1. ASSUME NEW t \in Symbols, NEW j \in Slots, Open(orders'[t][j])
        PROVE  orders'[t][j].qty > 0 /\ ledger'[orders'[t][j].id] = orders'[t][j].qty
    <3>1. CASE t = s /\ j = i
      BY <3>1
    <3>2. CASE t # s \/ j # i
      <4>1. orders'[t][j] = orders[t][j] /\ Open(orders[t][j])
        BY <2>1, <3>2 DEF OthersKept
      <4> QED BY <1>1, <4>1 DEF SlotInv, LedgerMatchesSlots
    <3> QED BY <3>1, <3>2
  <2>2. ASSUME NEW k \in Ids, ledger'[k] # 0
        PROVE  \E t \in Symbols, j \in Slots : Open(orders'[t][j]) /\ orders'[t][j].id = k
    <3>1. CASE k = id
      BY <3>1
    <3>2. CASE k # id
      <4>1. ledger[k] # 0
        BY <2>2, <3>2
      <4>2. PICK t \in Symbols, j \in Slots : Open(orders[t][j]) /\ orders[t][j].id = k
        BY <4>1 DEF SlotInv, LedgerMatchesSlots
      <4> QED BY <1>2, <4>2 DEF OthersKept
    <3> QED BY <3>1, <3>2
  <2> QED BY <2>1, <2>2 DEF LedgerMatchesSlots
<1>5. OpenSlotFoundFirst'
  <2> SUFFICES ASSUME NEW t \in Symbols, NEW j \in Slots, NEW k \in Slots,
                      Open(orders'[t][j]), orders'[t][k].state # "empty",
                      orders'[t][k].id = orders'[t][j].id
               PROVE  j <= k
    BY DEF OpenSlotFoundFirst
  <2>0. j \in Nat /\ k \in Nat /\ i \in Nat
    BY DEF Slots
  <2>1. CASE t = s /\ j = i
    <3>1. CASE k < i
      <4>1. Open(orders[s][k]) /\ orders'[s][k] = orders[s][k]
        BY <2>0, <3>1, SlotIndexOrder DEF FirstFree, OthersKept
      <4> QED BY <1>1, <2>1, <4>1
    <3> QED BY <2>0, <2>1, <3>1
  <2>2. CASE t # s \/ j # i
    <3>1. orders'[t][j] = orders[t][j] /\ Open(orders[t][j]) /\ orders[t][j].id # id
      BY <1>1, <2>2 DEF OthersKept
    <3>2. orders'[t][k] = orders[t][k]
      BY <3>1 DEF OthersKept
    <3> QED BY <3>1, <3>2 DEF SlotInv, OpenSlotFoundFirst
  <2> QED BY <2>1, <2>2
<1> QED BY <1>3, <1>4, <1>5 DEF SlotInv

\* A slot without an open order is cleared.
LEMMA ClearingKeepsSlotInv ==
    ASSUME SlotInv, NEW s \in Symbols, NEW i \in Slots, ~Open(orders[s][i]),
           OthersKept(s, i), orders'[s][i] = EmptyOrder, ledger' = ledger
    PROVE  SlotInv'
<1>1. \A t \in Symbols, j \in Slots :
         /\ Open(orders'[t][j]) <=> Open(orders[t][j])
         /\ Open(orders[t][j]) => orders'[t][j] = orders[t][j]
         /\ orders'[t][j] = orders[t][j] \/ orders'[t][j] = EmptyOrder
  BY DEF OthersKept, Open, EmptyOrder
<1>2. SlotsRouted'
  BY <1>1 DEF SlotInv, SlotsRouted
<1>3. LedgerMatchesSlots'
  BY <1>1 DEF SlotInv, LedgerMatchesSlots
<1>4. OpenSlotFoundFirst'
  BY <1>1 DEF SlotInv, OpenSlotFoundFirst, EmptyOrder
<1> QED BY <1>2, <1>3, <1>4 DEF SlotInv

-----------------------------------------------------------------------------
(***************************************************************************)
(* One lemma per kind of step.                                             *)
(***************************************************************************)
LEMMA StepKinds ==
    ASSUME SingleSymbolIds, TypeOK, SlotInv, Next
    PROVE  Bookkeeping \/ \E s \in Symbols, i \in Slots : Admission(s, i) \/ Report(s, i)
<1> USE DEF TypeOK
<1>0. SlotsRouted /\ SlotsTyped
  BY DEF SlotInv, SlotsTyped
<1>1. CASE reset_breaker
  BY <1>1 DEF reset_breaker, Bookkeeping, SameHoldings
<1>2. CASE \E id \in Ids : cancel_order(id)
  BY <1>2 DEF cancel_order, Report
<1>3. ASSUME NEW s \in Symbols,
             halt_symbol(s) \/ try_build_blocked(s) \/ try_replace_blocked(s)
      PROVE  Bookkeeping
  BY <1>3, CountingIsBookkeeping
     DEF halt_symbol, try_build_blocked, try_replace_blocked
<1>4. ASSUME NEW s \in Symbols, resume_symbol(s) PROVE Bookkeeping
  <2> DEFINE r == [risk[s] EXCEPT !.halted = FALSE]
  <2>1. risk[s] \in RiskState
    OBVIOUS
  <2>2. r \in RiskState /\ SameHoldings(r, risk[s])
    BY <2>1 DEF RiskState, SameHoldings
  <2>3. risk' = [risk EXCEPT ![s] = r]
    BY <1>4 DEF resume_symbol
  <2> HIDE DEF r
  <2>4. /\ risk' \in [Symbols -> RiskState]
        /\ \A t \in Symbols : SameHoldings(risk'[t], risk[t])
    BY <2>2, <2>3, SameHoldingsEntry
  <2> QED BY <1>4, <2>4 DEF resume_symbol, Bookkeeping
<1>5. ASSUME NEW pair \in IdPairs, Submission(pair[1], pair[2])
      PROVE  Bookkeeping \/ \E s \in Symbols, i \in Slots : Admission(s, i)
  <2> DEFINE s == pair[1]
             id == pair[2]
  <2>1. s \in Symbols /\ id \in Ids /\ pair = <<s, id>>
    BY GatewayAssumption
  <2> HIDE DEF s, id
  <2>2. PICK side \in Sides, qty \in Qtys :
          \/ \E sound \in BOOLEAN : try_build_refused(s, side, qty, sound)
          \/ try_build_full(s, side, qty)
          \/ try_build_duplicate(s, id, side, qty)
          \/ \E i \in Slots, price \in Prices :
                \/ try_build(s, i, id, side, qty, price)
                \/ \E failure \in {"audit"} \cup (Outcomes \ {"ok"}) :
                      try_build_unlogged(s, i, id, side, qty, price, failure)
    BY <1>5 DEF Submission, s, id
  <2>3. ASSUME NEW sound \in BOOLEAN, try_build_refused(s, side, qty, sound) PROVE Bookkeeping
    BY <2>1, <2>3, CountingIsBookkeeping DEF try_build_refused
  <2>4. CASE try_build_full(s, side, qty)
    BY <2>1, <2>4, CountingIsBookkeeping DEF try_build_full
  <2>5. CASE try_build_duplicate(s, id, side, qty)
    BY <2>1, <2>5, CountingIsBookkeeping DEF try_build_duplicate
  <2> QED BY <2>1, <2>2, <2>3, <2>4, <2>5 DEF Admission
<1>6. ASSUME NEW s \in Symbols, NEW id \in Ids, Replacement(s, id) PROVE Bookkeeping
  BY <1>6, CountingIsBookkeeping DEF Replacement, try_replace_unaudited, try_replace_refused
<1>7. ASSUME NEW s \in Symbols, NEW id \in Ids, report_unknown(s, id) \/ replace_unknown(s, id)
      PROVE  Bookkeeping
  BY <1>7, HaltAndTripIsBookkeeping DEF report_unknown, replace_unknown
<1>8. ASSUME NEW s \in Symbols, NEW id \in Ids, NEW i \in Slots, NEW qty \in Qtys \cup {0},
             fill_mismatched(s, i, id, qty)
      PROVE  Bookkeeping
  BY <1>8, HaltAndTripIsBookkeeping DEF fill_mismatched
<1>9. ASSUME NEW s \in Symbols, NEW id \in Ids, NEW i \in Slots, NEW qty \in Qtys \cup {0},
             NEW terminal \in BOOLEAN, NEW outcome \in Outcomes,
             fill_unlogged(s, i, id, qty, terminal, outcome)
      PROVE  Bookkeeping
  <2>1. orders[s][i] \in Order /\ orders[s][i].id = id
    BY <1>0, <1>9, MatchedOrder DEF fill_unlogged
  <2>2. wal' \in RecoveryLog
    BY <1>9, <2>1, AppendedType, GatewayAssumption DEF fill_unlogged, FillEvent, Order
  <2>3. outcome # "ok"
    <3>1. qty <= orders[s][i].qty /\ ledger[id] # 0 /\ FirstMatch(s, id, i)
      BY <1>9 DEF fill_unlogged
    <3>2. Open(orders[s][i])
      BY <1>0, <3>1, KnownMatchIsOpen
    <3>3. ledger[id] = orders[s][i].qty /\ ledger[id] \in Nat /\ qty \in Nat
      BY <2>1, <3>2, GatewayAssumption DEF SlotInv, LedgerMatchesSlots
    <3> QED BY <1>9, <3>1, <3>3 DEF fill_unlogged
  <2>4. wal' = wal \/ ~wal'.valid \/ wal'.behind
    BY <1>9, <2>3, FailedAppend, GatewayAssumption DEF fill_unlogged
  <2> QED BY <1>9, <2>2, <2>4, HaltAndTripIsBookkeeping DEF fill_unlogged
<1>10. ASSUME NEW s \in Symbols, NEW id \in Ids, NEW i \in Slots, NEW outcome \in Outcomes,
              cancel_unlogged(s, i, id, outcome)
       PROVE  Bookkeeping
  <2>1. orders[s][i] \in Order /\ orders[s][i].id = id
    BY <1>0, <1>10, MatchedOrder DEF cancel_unlogged
  <2>2. wal' \in RecoveryLog
    BY <1>10, <2>1, AppendedType DEF cancel_unlogged, Order
  <2>3. wal' = wal \/ ~wal'.valid \/ wal'.behind
    BY <1>10, FailedAppend, GatewayAssumption DEF cancel_unlogged
  <2> QED BY <1>10, <2>2, <2>3, HaltAndTripIsBookkeeping DEF cancel_unlogged
<1>11. ASSUME NEW s \in Symbols, NEW id \in Ids, NEW i \in Slots, NEW outcome \in Outcomes,
              NEW qty \in Qtys \cup {0}, NEW price \in Prices,
              replace_unlogged(s, i, id, qty, price, outcome)
       PROVE  Bookkeeping
  <2>1. orders[s][i] \in Order /\ orders[s][i].id = id
    BY <1>0, <1>11, MatchedOrder DEF replace_unlogged
  <2>2. wal' \in RecoveryLog
    BY <1>11, <2>1, AppendedType, GatewayAssumption DEF replace_unlogged, ReplaceEvent, Order
  <2>3. wal' = wal \/ ~wal'.valid \/ wal'.behind
    BY <1>11, FailedAppend, GatewayAssumption DEF replace_unlogged
  <2> QED BY <1>11, <2>2, <2>3, HaltAndTripIsBookkeeping DEF replace_unlogged
<1>12. ASSUME NEW s \in Symbols, NEW id \in Ids, reject_unknown(s, id) PROVE Bookkeeping
  BY <1>12, CountingIsBookkeeping DEF reject_unknown
<1>13. ASSUME NEW s \in Symbols, NEW id \in Ids, FillReport(s, id)
       PROVE  Bookkeeping \/ \E i \in Slots : Report(s, i)
  BY <1>8, <1>9, <1>13 DEF FillReport, Report
<1>14. ASSUME NEW s \in Symbols, NEW id \in Ids, CancelReport(s, id)
       PROVE  Bookkeeping \/ \E i \in Slots : Report(s, i)
  BY <1>10, <1>14 DEF CancelReport, Report
<1>15. ASSUME NEW s \in Symbols, NEW id \in Ids, ReplaceReport(s, id)
       PROVE  Bookkeeping \/ \E i \in Slots : Report(s, i)
  BY <1>7, <1>11, <1>15 DEF ReplaceReport, Report
<1>16. ASSUME NEW s \in Symbols, NEW id \in Ids, RejectReport(s, id)
       PROVE  Bookkeeping \/ \E i \in Slots : Report(s, i)
  BY <1>12, <1>16 DEF RejectReport, Report
<1> QED
  BY <1>1, <1>2, <1>3, <1>4, <1>5, <1>6, <1>7, <1>13, <1>14, <1>15, <1>16 DEF Next

GatewayInv == TypeOK /\ SlotInv /\ SlotAccounting

LEMMA BookkeepingStep ==
    ASSUME GatewayInv, Bookkeeping PROVE GatewayInv'
<1>1. TypeOK'
  BY DEF GatewayInv, Bookkeeping, TypeOK
<1>2. SlotInv'
  BY DEF GatewayInv, Bookkeeping, SlotInv, SlotsRouted, LedgerMatchesSlots, OpenSlotFoundFirst
<1>3. SlotAccounting'
  BY DEF GatewayInv, Bookkeeping, SlotAccounting, OpenSlots, AllOpenSlots, SameHoldings
<1> QED BY <1>1, <1>2, <1>3 DEF GatewayInv

\* One order more: count and token are taken.
LEMMA AccountingAfterOpening ==
    ASSUME SlotAccounting, NEW s \in Symbols, NEW i \in Slots, OthersKept(s, i),
           ~Open(orders[s][i]), Open(orders'[s][i]),
           risk'[s].count = risk[s].count + 1,
           \A t \in Symbols \ {s} : risk'[t] = risk[t],
           pending' = pending + 1
    PROVE  SlotAccounting'
<1>1. \A t \in Symbols : risk'[t].count = Cardinality(OpenSlots(t))'
  BY CountsAfterOpening DEF SlotAccounting
<1>2. pending' = Cardinality(AllOpenSlots)'
  BY CountsAfterOpening DEF SlotAccounting
<1> QED BY <1>1, <1>2 DEF SlotAccounting

\* One order fewer: neither saturating decrement is at zero.
LEMMA AccountingAfterClosing ==
    ASSUME SlotAccounting, NEW s \in Symbols, NEW i \in Slots, OthersKept(s, i),
           Open(orders[s][i]), ~Open(orders'[s][i]),
           risk'[s].count = OneFewer(risk[s].count),
           \A t \in Symbols \ {s} : risk'[t] = risk[t],
           pending' = OneFewer(pending)
    PROVE  SlotAccounting'
<1>1. /\ Cardinality(OpenSlots(s))' = Cardinality(OpenSlots(s)) - 1
      /\ \A t \in Symbols \ {s} : OpenSlots(t)' = OpenSlots(t)
      /\ Cardinality(AllOpenSlots)' = Cardinality(AllOpenSlots) - 1
  BY CountsAfterClosing
<1>2. i \in OpenSlots(s) /\ <<s, i>> \in AllOpenSlots
  BY DEF OpenSlots, AllOpenSlots
<1>3. Cardinality(OpenSlots(s)) \in Nat \ {0} /\ Cardinality(AllOpenSlots) \in Nat \ {0}
  BY <1>2, OpenSlotsFinite, FS_EmptySet
<1>4. \A t \in Symbols : risk'[t].count = Cardinality(OpenSlots(t))'
  BY <1>1, <1>3 DEF SlotAccounting, OneFewer
<1>5. pending' = Cardinality(AllOpenSlots)'
  BY <1>1, <1>3 DEF SlotAccounting, OneFewer
<1> QED BY <1>4, <1>5 DEF SlotAccounting

LEMMA AccountingKept ==
    ASSUME SlotAccounting, NEW s \in Symbols, NEW i \in Slots, OthersKept(s, i),
           Open(orders'[s][i]) <=> Open(orders[s][i]),
           \A t \in Symbols : risk'[t].count = risk[t].count,
           pending' = pending
    PROVE  SlotAccounting'
  BY CountsKept DEF SlotAccounting

LEMMA TryBuildStep ==
    ASSUME SingleSymbolIds, GatewayInv, NEW s \in Symbols, NEW i \in Slots, NEW id \in Ids,
           NEW side \in Sides, NEW qty \in Qtys, NEW price \in Prices, <<s, id>> \in IdPairs,
           try_build(s, i, id, side, qty, price)
    PROVE  GatewayInv'
<1> DEFINE order == [id |-> id, price |-> price, qty |-> qty, filled |-> 0,
                     side |-> side, state |-> "live"]
<1>1. qty \in Nat \ {0} /\ price \in Nat
  BY GatewayAssumption
<1>2. TypeOK /\ SlotInv /\ SlotAccounting /\ SlotsTyped /\ risk[s] \in RiskState
  BY DEF GatewayInv, TypeOK, SlotsTyped
<1>3. order \in Order /\ Open(order) /\ order.id = id /\ order.qty = qty
  BY <1>1 DEF Order, SlotStates, Open
<1>4. orders' = [orders EXCEPT ![s] = [orders[s] EXCEPT ![i] = order]]
  BY DEF try_build, ReservedSlots
<1> HIDE DEF order
<1>5. /\ orders' \in [Symbols -> [Slots -> Order]]
      /\ orders'[s][i] = order
      /\ OthersKept(s, i)
  BY <1>2, <1>3, <1>4 DEF TypeOK, OthersKept
<1>6. FirstFree(s, i) /\ ledger[id] = 0 /\ ~Open(orders[s][i])
  BY DEF try_build, Reservable, FirstFree
<1>7. SlotInv'
  <2>1. ledger' = [ledger EXCEPT ![id] = qty] /\ ledger \in [Ids -> Nat]
    BY <1>2 DEF try_build, TypeOK
  <2> QED BY <1>1, <1>2, <1>3, <1>5, <1>6, <2>1, OpeningKeepsSlotInv
<1> DEFINE r == Reserved(risk[s], side, qty, price)
<1>8. r \in RiskState /\ r.count = risk[s].count
  BY <1>1, <1>2, RiskUpdates
<1>9. risk' = [risk EXCEPT ![s] = Opened(r)]
  BY DEF try_build
<1> HIDE DEF r
<1>10. /\ risk' \in [Symbols -> RiskState]
       /\ risk'[s].count = risk[s].count + 1
       /\ \A t \in Symbols \ {s} : risk'[t] = risk[t]
  BY <1>2, <1>8, <1>9, CountUpdates DEF TypeOK
<1>11. pending' = pending + 1
  BY DEF try_build
<1>12. SlotAccounting'
  BY <1>2, <1>3, <1>5, <1>6, <1>10, <1>11, AccountingAfterOpening
<1>13. wal' \in RecoveryLog
  BY <1>1, <1>2, AppendedType DEF try_build, TypeOK
<1>14. TypeOK'
  BY <1>1, <1>2, <1>5, <1>10, <1>11, <1>13 DEF TypeOK, try_build
<1> QED BY <1>7, <1>12, <1>14 DEF GatewayInv

\* A failed admission clears the slot it had taken: no earlier slot has the id,
\* since the slots before the first free one are open and the id is not.
LEMMA UnloggedClears ==
    ASSUME SingleSymbolIds, GatewayInv, NEW s \in Symbols, NEW i \in Slots, NEW id \in Ids,
           NEW side \in Sides, NEW qty \in Qtys, NEW price \in Prices, <<s, id>> \in IdPairs,
           NEW failure \in {"audit"} \cup (Outcomes \ {"ok"}),
           try_build_unlogged(s, i, id, side, qty, price, failure)
    PROVE  /\ orders' \in [Symbols -> [Slots -> Order]]
           /\ orders'[s][i] = EmptyOrder
           /\ OthersKept(s, i)
           /\ ~Open(orders[s][i])
<1> DEFINE entered == ReservedSlots(s, i, id, side, qty, price)
<1>1. qty \in Nat \ {0} /\ price \in Nat
  BY GatewayAssumption
<1>2. TypeOK /\ SlotInv /\ SlotAccounting /\ SlotsTyped /\ risk[s] \in RiskState
  BY DEF GatewayInv, TypeOK, SlotsTyped
<1>3. FirstFree(s, i) /\ ledger[id] = 0 /\ ~Open(orders[s][i])
  BY DEF try_build_unlogged, Reservable, FirstFree
<1>4. entered[i].id = id /\ \A j \in Slots : j # i => entered[j] = orders[s][j]
  BY <1>2 DEF ReservedSlots, TypeOK
<1>5. \A j \in 1 .. i - 1 : j \in Slots /\ j # i
  BY GatewayAssumption DEF Slots
<1>6. ASSUME NEW j \in 1 .. i - 1 PROVE entered[j].id # id
  <2>1. j \in Slots /\ entered[j] = orders[s][j] /\ Open(orders[s][j])
    BY <1>3, <1>4, <1>5 DEF FirstFree
  <2>2. orders[s][j].qty > 0 /\ ledger[orders[s][j].id] = orders[s][j].qty
    BY <1>2, <2>1 DEF SlotInv, LedgerMatchesSlots
  <2>3. orders[s][j] \in Order
    BY <1>2, <2>1 DEF SlotsTyped
  <2> QED BY <1>3, <2>1, <2>2, <2>3 DEF Order
<1>7. /\ release_order_slot(entered, id)[i] = EmptyOrder
      /\ \A j \in Slots : j # i => release_order_slot(entered, id)[j] = orders[s][j]
  <2>1. release_order_slot(entered, id)[i] = EmptyOrder
    BY <1>4, <1>6 DEF release_order_slot
  <2>2. ASSUME NEW j \in Slots, j # i PROVE release_order_slot(entered, id)[j] = orders[s][j]
    <3>1. CASE j < i
      <4>1. entered[j].id # id
        BY <1>6, <3>1, SlotIndexOrder
      <4> QED BY <1>4, <2>2, <4>1 DEF release_order_slot
    <3>2. CASE i < j
      <4>1. i \in 1 .. j - 1
        BY <3>2, SlotIndexOrder
      <4> QED BY <1>4, <2>2, <4>1 DEF release_order_slot
    <3> QED BY <2>2, <3>1, <3>2 DEF Slots
  <2> QED BY <2>1, <2>2
<1> DEFINE cleared == release_order_slot(entered, id)
<1>8. orders' = [orders EXCEPT ![s] = cleared] /\ cleared \in [Slots -> Order]
  <2>1. orders' = [orders EXCEPT ![s] = cleared]
    BY DEF try_build_unlogged
  <2>2. EmptyOrder \in Order
    BY DEF EmptyOrder, Order, Sides, SlotStates
  <2>3. \A j \in Slots : cleared[j] \in Order
    BY <1>2, <1>7, <2>2 DEF SlotsTyped
  <2> QED BY <2>1, <2>3 DEF release_order_slot
<1> HIDE DEF cleared, entered
<1>9. /\ orders' \in [Symbols -> [Slots -> Order]]
      /\ orders'[s][i] = EmptyOrder
      /\ OthersKept(s, i)
  <2>1. cleared[i] = EmptyOrder /\ \A j \in Slots : j # i => cleared[j] = orders[s][j]
    BY <1>7 DEF cleared, entered
  <2> QED BY <1>2, <1>8, <2>1 DEF TypeOK, OthersKept
<1> QED BY <1>3, <1>9

LEMMA UnloggedStep ==
    ASSUME SingleSymbolIds, GatewayInv, NEW s \in Symbols, NEW i \in Slots, NEW id \in Ids,
           NEW side \in Sides, NEW qty \in Qtys, NEW price \in Prices, <<s, id>> \in IdPairs,
           NEW failure \in {"audit"} \cup (Outcomes \ {"ok"}),
           try_build_unlogged(s, i, id, side, qty, price, failure)
    PROVE  GatewayInv'
<1>1. qty \in Nat \ {0} /\ price \in Nat
  BY GatewayAssumption
<1>2. TypeOK /\ SlotInv /\ SlotAccounting /\ SlotsTyped /\ risk[s] \in RiskState
  BY DEF GatewayInv, TypeOK, SlotsTyped
<1>3. /\ orders' \in [Symbols -> [Slots -> Order]]
      /\ orders'[s][i] = EmptyOrder
      /\ OthersKept(s, i)
      /\ ~Open(orders[s][i])
  BY UnloggedClears
<1>4. SlotInv'
  <2>1. ledger' = ledger
    BY DEF try_build_unlogged
  <2> QED BY <1>2, <1>3, <2>1, ClearingKeepsSlotInv
<1>5. /\ risk' \in [Symbols -> RiskState]
       /\ \A t \in Symbols : risk'[t].count = risk[t].count
  <2>1. risk' = [risk EXCEPT ![s] = CountedReject(risk[s])]
    BY <1>2 DEF try_build_unlogged, TypeOK
  <2>2. CountedReject(risk[s]) \in RiskState /\ CountedReject(risk[s]).count = risk[s].count
    BY <1>1, <1>2, RiskUpdates
  <2> QED BY <1>2, <2>1, <2>2, RiskEntry
<1>6. SlotAccounting'
  <2>1. ~Open(orders'[s][i])
    BY <1>3 DEF Open, EmptyOrder
  <2>2. pending' = pending
    BY DEF try_build_unlogged
  <2> QED BY <1>2, <1>3, <1>5, <2>1, <2>2, AccountingKept
<1>7. wal' \in RecoveryLog
  BY <1>1, <1>2, AppendedType DEF try_build_unlogged, TypeOK
<1>8. TypeOK'
  BY <1>2, <1>3, <1>5, <1>7 DEF TypeOK, try_build_unlogged
<1> QED BY <1>4, <1>6, <1>8 DEF GatewayInv

\* A fill closes the order or leaves it open with less to fill.
LEMMA FillStep ==
    ASSUME SingleSymbolIds, GatewayInv, NEW s \in Symbols, NEW i \in Slots, NEW id \in Ids,
           NEW qty \in Qtys \cup {0}, NEW terminal \in BOOLEAN, NEW delivered \in BOOLEAN,
           apply_execution_report(s, i, id, qty, terminal, delivered)
    PROVE  GatewayInv'
<1> DEFINE order == orders[s][i]
           filled == FilledOrder(order, qty, terminal)
           r == FilledRisk(risk[s], order, qty, terminal)
           ends == terminal \/ qty = order.qty
<1>1. TypeOK /\ SlotInv /\ SlotAccounting /\ SlotsTyped /\ risk[s] \in RiskState
  BY DEF GatewayInv, TypeOK, SlotsTyped
<1>2. /\ FirstMatch(s, id, i) /\ ledger[id] # 0 /\ qty > 0 /\ qty <= order.qty
      /\ orders' = [orders EXCEPT ![s][i] = filled]
      /\ risk' = [risk EXCEPT ![s] = r]
      /\ pending' = IF ends THEN OneFewer(pending) ELSE pending
      /\ ledger' = [ledger EXCEPT ![id] = IF terminal THEN 0 ELSE ledger[id] - qty]
  BY DEF apply_execution_report, Reconciled
<1>3. qty \in Nat /\ Open(order) /\ order \in Order /\ order.id = id /\ order.qty \in Nat
  <2>1. qty \in Nat
    BY GatewayAssumption
  <2>2. Open(order)
    BY <1>1, <1>2, KnownMatchIsOpen
  <2>3. order \in Order /\ order.id = id
    BY <1>1, <1>2, MatchedOrder DEF SlotInv
  <2>4. order.qty \in Nat
    BY <2>3 DEF Order
  <2> QED BY <2>1, <2>2, <2>3, <2>4
<1>4. ledger[id] = order.qty /\ ledger \in [Ids -> Nat]
  BY <1>1, <1>3 DEF SlotInv, LedgerMatchesSlots, TypeOK
<1>5. /\ filled \in Order /\ filled.id = id /\ filled.qty = order.qty - qty
      /\ filled.state = IF ends THEN "done" ELSE "partial"
      /\ r \in RiskState
      /\ r.count = IF ends THEN OneFewer(risk[s].count) ELSE risk[s].count
  BY <1>1, <1>2, <1>3, FillUpdates
<1>6. ends \in BOOLEAN
  OBVIOUS
<1> HIDE DEF filled, r
<1>7. /\ orders' \in [Symbols -> [Slots -> Order]]
      /\ orders'[s][i] = filled
      /\ OthersKept(s, i)
  BY <1>1, <1>2, <1>5 DEF TypeOK, OthersKept
<1>8. /\ risk' \in [Symbols -> RiskState]
      /\ risk'[s].count = IF ends THEN OneFewer(risk[s].count) ELSE risk[s].count
      /\ \A t \in Symbols \ {s} : risk'[t] = risk[t]
  BY <1>1, <1>2, <1>5 DEF TypeOK
<1>9. SlotInv' /\ SlotAccounting'
  <2>1. CASE ends
    <3>1. filled.state = "done" /\ ~Open(filled)
      BY <1>5, <2>1 DEF Open
    <3>2. ledger' = [ledger EXCEPT ![id] = 0]
      <4>1. (IF terminal THEN 0 ELSE ledger[id] - qty) = 0
        BY <1>3, <1>4, <2>1
      <4> QED BY <1>2, <4>1
    <3>3. SlotInv'
      BY <1>1, <1>3, <1>4, <1>5, <1>7, <3>1, <3>2, ClosingKeepsSlotInv
    <3>4. SlotAccounting'
      BY <1>1, <1>2, <1>3, <1>7, <1>8, <2>1, <3>1, AccountingAfterClosing
    <3> QED BY <3>3, <3>4
  <2>2. CASE ~ends
    <3>1. filled.state = "partial" /\ Open(filled)
      BY <1>5, <2>2 DEF Open
    <3> DEFINE left == order.qty - qty
    <3>2. left \in Nat \ {0}
      BY <1>2, <1>3, <2>2
    <3>3. ledger' = [ledger EXCEPT ![id] = left] /\ filled.qty = left
      BY <1>2, <1>4, <1>5, <2>2
    <3> HIDE DEF left
    <3>4. SlotInv'
      BY <1>1, <1>3, <1>4, <1>5, <1>7, <3>1, <3>2, <3>3, RetermingKeepsSlotInv
    <3>5. SlotAccounting'
      BY <1>1, <1>2, <1>3, <1>7, <1>8, <2>2, <3>1, AccountingKept
    <3> QED BY <3>4, <3>5
  <2> QED BY <2>1, <2>2
<1>10. wal' \in RecoveryLog
  BY <1>1, <1>3, AppendedType DEF apply_execution_report, FillEvent, TypeOK, Order
<1>11. ledger' \in [Ids -> Nat] /\ pending' \in Nat
  BY <1>1, <1>2, <1>3, <1>4, OneFewerType DEF TypeOK
<1>12. reports' \in [applied : Nat, dropped : Nat]
  BY <1>1 DEF apply_execution_report, TypeOK
<1>13. settled' \in [Symbols -> [qty : Int, cost : Int]]
  <2> DEFINE q == settled[s].qty + signed_qty_delta(order.side, qty)
             c == settled[s].cost + order.price * qty
  <2>1. q \in Int /\ c \in Int
    BY <1>1, <1>3 DEF TypeOK, signed_qty_delta, Order
  <2>2. settled' = [settled EXCEPT ![s].qty = q, ![s].cost = c]
    BY DEF apply_execution_report
  <2> HIDE DEF q, c
  <2> QED BY <1>1, <2>1, <2>2 DEF TypeOK
<1>14. TypeOK'
  <2>1. breaker' = breaker
    BY DEF apply_execution_report
  <2> QED BY <1>1, <1>7, <1>8, <1>10, <1>11, <1>12, <1>13, <2>1 DEF TypeOK
<1> QED BY <1>9, <1>14 DEF GatewayInv

\* A cancelled or rejected open order leaves an empty slot.
LEMMA RemovalStep ==
    ASSUME SingleSymbolIds, GatewayInv, NEW s \in Symbols, NEW i \in Slots, NEW id \in Ids,
           NEW r0 \in RiskState, r0.count = risk[s].count,
           FirstMatch(s, id, i), Open(orders[s][i]),
           orders' = [orders EXCEPT ![s][i] = EmptyOrder],
           risk' = [risk EXCEPT ![s] =
                      Closed(release_reservation(r0, orders[s][i].side, orders[s][i].qty,
                                                 orders[s][i].price))],
           pending' = OneFewer(pending),
           ledger' = [ledger EXCEPT ![id] = 0]
    PROVE  /\ SlotInv' /\ SlotAccounting'
           /\ orders' \in [Symbols -> [Slots -> Order]]
           /\ risk' \in [Symbols -> RiskState]
           /\ pending' \in Nat
           /\ ledger' \in [Ids -> Nat]
<1> DEFINE order == orders[s][i]
           r1 == release_reservation(r0, order.side, order.qty, order.price)
           r == Closed(r1)
<1>1. TypeOK /\ SlotInv /\ SlotAccounting /\ SlotsTyped /\ ledger \in [Ids -> Nat]
  BY DEF GatewayInv, TypeOK, SlotsTyped
<1>2. order \in Order /\ order.id = id
  BY <1>1, MatchedOrder DEF SlotInv
<1>3. order.side \in Sides /\ order.qty \in Nat /\ order.price \in Nat
  BY <1>2 DEF Order
<1>4. r1 \in RiskState /\ r1.count = risk[s].count
  BY <1>3, RiskUpdates
<1>5. r \in RiskState /\ r.count = OneFewer(risk[s].count)
  BY <1>4, CountUpdates
<1>6. risk' = [risk EXCEPT ![s] = r]
  OBVIOUS
<1> HIDE DEF r, r1
<1>7. EmptyOrder \in Order /\ ~Open(EmptyOrder)
  BY DEF EmptyOrder, Order, Sides, SlotStates, Open
<1>8. /\ orders' \in [Symbols -> [Slots -> Order]]
      /\ orders'[s][i] = EmptyOrder
      /\ OthersKept(s, i)
  BY <1>1, <1>7 DEF TypeOK, OthersKept
<1>9. /\ risk' \in [Symbols -> RiskState]
      /\ risk'[s].count = OneFewer(risk[s].count)
      /\ \A t \in Symbols \ {s} : risk'[t] = risk[t]
  BY <1>1, <1>5, <1>6 DEF TypeOK
<1>10. SlotInv'
  BY <1>1, <1>2, <1>8, ClosingKeepsSlotInv
<1>11. SlotAccounting'
  BY <1>1, <1>7, <1>8, <1>9, AccountingAfterClosing
<1>12. pending' \in Nat /\ ledger' \in [Ids -> Nat]
  BY <1>1, OneFewerType DEF TypeOK
<1> QED BY <1>8, <1>9, <1>10, <1>11, <1>12

LEMMA CancelStep ==
    ASSUME SingleSymbolIds, GatewayInv, NEW s \in Symbols, NEW i \in Slots, NEW id \in Ids,
           apply_cancel_report(s, i, id)
    PROVE  GatewayInv'
<1>1. TypeOK /\ SlotInv /\ risk[s] \in RiskState
  BY DEF GatewayInv, TypeOK
<1>2. FirstMatch(s, id, i) /\ Open(orders[s][i])
  BY DEF apply_cancel_report
<1>3. orders[s][i] \in Order
  BY <1>1, <1>2, MatchedOrder DEF SlotInv
<1>4. /\ SlotInv' /\ SlotAccounting'
      /\ orders' \in [Symbols -> [Slots -> Order]]
      /\ risk' \in [Symbols -> RiskState]
      /\ pending' \in Nat
      /\ ledger' \in [Ids -> Nat]
  BY <1>1, <1>2, RemovalStep DEF apply_cancel_report
<1>5. wal' \in RecoveryLog
  BY <1>1, <1>3, AppendedType DEF apply_cancel_report, TypeOK, Order
<1>6. TypeOK'
  BY <1>1, <1>4, <1>5 DEF TypeOK, apply_cancel_report
<1> QED BY <1>4, <1>6 DEF GatewayInv

LEMMA RejectStep ==
    ASSUME SingleSymbolIds, GatewayInv, NEW s \in Symbols, NEW i \in Slots, NEW id \in Ids,
           apply_reject_report(s, i, id)
    PROVE  GatewayInv'
<1> DEFINE r0 == RejectedRisk(risk[s])
<1>1. TypeOK /\ risk[s] \in RiskState
  BY DEF GatewayInv, TypeOK
<1>2. r0 \in RiskState /\ r0.count = risk[s].count
  BY <1>1, RiskUpdates, "buy" \in Sides, 0 \in Nat DEF Sides
<1>3. risk' = [risk EXCEPT ![s] =
                 Closed(release_reservation(r0, orders[s][i].side, orders[s][i].qty,
                                            orders[s][i].price))]
  BY DEF apply_reject_report
<1> HIDE DEF r0
<1>4. /\ SlotInv' /\ SlotAccounting'
      /\ orders' \in [Symbols -> [Slots -> Order]]
      /\ risk' \in [Symbols -> RiskState]
      /\ pending' \in Nat
      /\ ledger' \in [Ids -> Nat]
  BY <1>2, <1>3, RemovalStep DEF apply_reject_report
<1>5. TypeOK'
  BY <1>1, <1>4 DEF TypeOK, apply_reject_report
<1> QED BY <1>4, <1>5 DEF GatewayInv

LEMMA ReplaceStep ==
    ASSUME SingleSymbolIds, GatewayInv, NEW s \in Symbols, NEW i \in Slots, NEW id \in Ids,
           NEW qty \in Qtys, NEW price \in Prices, apply_replace_report(s, i, id, qty, price)
    PROVE  GatewayInv'
<1> DEFINE order == orders[s][i]
           freed == release_reservation(risk[s], order.side, order.qty, order.price)
           r == Reserved(freed, order.side, qty, price)
<1>1. /\ TypeOK /\ SlotInv /\ SlotAccounting /\ SlotsTyped /\ risk[s] \in RiskState
      /\ ledger \in [Ids -> Nat]
  BY DEF GatewayInv, TypeOK, SlotsTyped
<1>2. qty \in Nat \ {0} /\ price \in Nat
  BY GatewayAssumption
<1>3. FirstOpen(s, id, i) /\ Open(order)
  BY DEF apply_replace_report, FirstOpen
<1>4. order \in Order /\ order.id = id /\ <<s, id>> \in IdPairs
  BY <1>1, <1>3, MatchedOrder DEF SlotInv
<1>5. order.side \in Sides /\ order.qty \in Nat /\ order.price \in Nat
  BY <1>4 DEF Order
<1>6. freed \in RiskState /\ freed.count = risk[s].count
  BY <1>1, <1>5, RiskUpdates
<1>7. risk' = [risk EXCEPT ![s] = r]
  BY DEF apply_replace_report
<1> HIDE DEF freed
<1>8. r \in RiskState /\ r.count = risk[s].count
  BY <1>2, <1>5, <1>6, RiskUpdates
<1> HIDE DEF r
<1>9. /\ risk' \in [Symbols -> RiskState]
      /\ \A t \in Symbols : risk'[t].count = risk[t].count
  BY <1>1, <1>7, <1>8, RiskEntry
<1>10. orders' = [orders EXCEPT ![s][i] = [order EXCEPT !.qty = qty, !.price = price]]
  BY <1>1 DEF apply_replace_report, TypeOK
<1> DEFINE moved == [order EXCEPT !.qty = qty, !.price = price]
<1>11. /\ moved \in Order /\ moved.id = id /\ moved.qty = qty /\ moved.state = order.state
  BY <1>2, <1>4 DEF Order
<1>12. Open(moved)
  BY <1>3, <1>11 DEF Open
<1> HIDE DEF moved
<1>13. /\ orders' \in [Symbols -> [Slots -> Order]]
       /\ orders'[s][i] = moved
       /\ OthersKept(s, i)
  <2>1. orders' = [orders EXCEPT ![s][i] = moved]
    BY <1>10 DEF moved
  <2> QED BY <1>1, <1>11, <2>1 DEF TypeOK, OthersKept
<1>14. ledger' = [ledger EXCEPT ![id] = qty] /\ pending' = pending
  BY DEF apply_replace_report
<1>15. SlotInv'
  BY <1>1, <1>2, <1>3, <1>4, <1>11, <1>12, <1>13, <1>14, RetermingKeepsSlotInv
<1>16. SlotAccounting'
  BY <1>1, <1>3, <1>9, <1>12, <1>13, <1>14, AccountingKept
<1>17. wal' \in RecoveryLog
  BY <1>1, <1>2, <1>4, <1>5, AppendedType DEF apply_replace_report, ReplaceEvent, TypeOK
<1>18. TypeOK'
  <2>1. ledger' \in [Ids -> Nat]
    BY <1>1, <1>2, <1>14
  <2> QED BY <1>1, <1>9, <1>13, <1>14, <1>17, <2>1 DEF TypeOK, apply_replace_report
<1> QED BY <1>15, <1>16, <1>18 DEF GatewayInv

-----------------------------------------------------------------------------
(***************************************************************************)
(* The theorems.                                                           *)
(***************************************************************************)
LEMMA GatewayInit == Init => GatewayInv
<1> SUFFICES ASSUME Init PROVE GatewayInv
  OBVIOUS
<1>1. EmptyOrder \in Order /\ ~Open(EmptyOrder) /\ InitialRisk \in RiskState
      /\ InitialRisk.count = 0
  BY DEF EmptyOrder, InitialRisk, Order, RiskState, Sides, SlotStates, Open
<1>2. \A s \in Symbols, i \in Slots : orders[s][i] = EmptyOrder
  BY DEF Init
<1>3. TypeOK
  <2>1. EmptyLog \in RecoveryLog
    BY DEF EmptyLog, RecoveryLog, NoRecovered
  <2> QED BY <1>1, <2>1 DEF Init, TypeOK
<1>4. SlotInv
  BY <1>1, <1>2 DEF Init, SlotInv, SlotsRouted, LedgerMatchesSlots, OpenSlotFoundFirst
<1>5. SlotAccounting
  <2>1. AllOpenSlots = {} /\ \A s \in Symbols : OpenSlots(s) = {}
    BY <1>1, <1>2 DEF AllOpenSlots, OpenSlots
  <2> QED BY <1>1, <2>1, FS_EmptySet DEF Init, SlotAccounting
<1> QED BY <1>3, <1>4, <1>5 DEF GatewayInv

LEMMA GatewayStep ==
    ASSUME SingleSymbolIds, GatewayInv, [Next]_vars
    PROVE  GatewayInv'
<1>1. CASE UNCHANGED vars
  <2>1. Bookkeeping
    BY <1>1 DEF GatewayInv, TypeOK, Bookkeeping, SameHoldings, vars
  <2> QED BY <2>1, BookkeepingStep
<1>2. CASE Next
  <2>1. Bookkeeping \/ \E s \in Symbols, i \in Slots : Admission(s, i) \/ Report(s, i)
    BY <1>2, StepKinds DEF GatewayInv
  <2>2. ASSUME NEW s \in Symbols, NEW i \in Slots, Admission(s, i) PROVE GatewayInv'
    BY <2>2, TryBuildStep, UnloggedStep DEF Admission
  <2>3. ASSUME NEW s \in Symbols, NEW i \in Slots, Report(s, i) PROVE GatewayInv'
    BY <2>3, FillStep, CancelStep, ReplaceStep, RejectStep DEF Report
  <2> QED BY <2>1, <2>2, <2>3, BookkeepingStep
<1> QED BY <1>1, <1>2

\* The gateway's inductive invariant, for any symbols, slots, ids and limits and
\* whatever the logs do, as long as callers keep an id to one symbol.
THEOREM GatewayInvariant ==
    ASSUME SingleSymbolIds PROVE Spec => []GatewayInv
  BY GatewayInit, GatewayStep, PTL DEF Spec

\* The gateway's state keeps its types: in particular order_count and the
\* limiter's count never go below zero and a fill never leaves a negative
\* remaining quantity in a slot or in the ledger.
THEOREM TypeCorrect ==
    ASSUME SingleSymbolIds PROVE Spec => []TypeOK
<1>1. GatewayInv => TypeOK
  BY DEF GatewayInv
<1> QED BY <1>1, GatewayInvariant, PTL

\* No sequence of calls leaks or double-frees an order slot or a rate-limiter
\* token.
THEOREM SlotAccountingHolds ==
    ASSUME SingleSymbolIds PROVE Spec => []SlotAccounting
<1>1. GatewayInv => SlotAccounting
  BY DEF GatewayInv
<1> QED BY <1>1, GatewayInvariant, PTL

\* The reconciliation ledger holds the open orders with their remaining
\* quantities, and nothing else.
THEOREM LedgerAgreement ==
    ASSUME SingleSymbolIds PROVE Spec => []LedgerMatchesSlots
<1>1. GatewayInv => LedgerMatchesSlots
  BY DEF GatewayInv, SlotInv
<1> QED BY <1>1, GatewayInvariant, PTL

\* A report or a query that scans for an id meets the open order before any
\* terminal order that once had the id.
THEOREM OpenFoundFirst ==
    ASSUME SingleSymbolIds PROVE Spec => []OpenSlotFoundFirst
<1>1. GatewayInv => OpenSlotFoundFirst
  BY DEF GatewayInv, SlotInv
<1> QED BY <1>1, GatewayInvariant, PTL

\* A symbol whose order_count is below kMaxActiveOrders has a slot that
\* reserve_order_slot() can take: its second "return false" is never reached.
SlotAvailable == \A s \in Symbols : risk[s].count < MaxActive => \E i \in Slots : ~Open(orders[s][i])

THEOREM ReservationSucceeds ==
    ASSUME SingleSymbolIds PROVE Spec => []SlotAvailable
<1>1. GatewayInv => SlotAvailable
  <2> SUFFICES ASSUME GatewayInv, NEW s \in Symbols, risk[s].count < MaxActive,
                      \A i \in Slots : Open(orders[s][i])
               PROVE  FALSE
    BY DEF SlotAvailable
  <2>1. OpenSlots(s) = Slots
    BY DEF OpenSlots
  <2>2. Cardinality(1 .. MaxActive) = MaxActive
    <3>1. MaxActive \in Nat /\ 1 \in Int /\ MaxActive \in Int
      BY GatewayAssumption
    <3>2. Cardinality(1 .. MaxActive) = IF 1 > MaxActive THEN 0 ELSE MaxActive - 1 + 1
      BY ONLY <3>1, FS_Interval
    <3> QED BY ONLY <3>1, <3>2
  <2>3. risk[s].count = MaxActive
    BY <2>1, <2>2 DEF GatewayInv, SlotAccounting, Slots
  <2> QED BY <2>3, GatewayAssumption
<1> QED BY <1>1, GatewayInvariant, PTL

-----------------------------------------------------------------------------
(***************************************************************************)
(* What the recovery log holds.                                            *)
(***************************************************************************)

\* A log that is readable and in step after an append was so before it, took
\* the event, and kept the orders of the other ids.
LEMMA GoodAppend ==
    ASSUME NEW log \in RecoveryLog, NEW ev, NEW k \in Ids, ev.id \in Ids,
           Appended(log, ev, "ok").valid
    PROVE  /\ log.valid /\ ~log.behind
           /\ Appended(log, ev, "ok").book = Applied(log.book, ev)
           /\ k # ev.id => Applied(log.book, ev)[k] = log.book[k]
<1>1. ~Unreadable.valid
  BY DEF Unreadable, EmptyLog
<1>2. /\ log.valid /\ ~log.behind
      /\ Appended(log, ev, "ok") = [log EXCEPT !.book = Applied(log.book, ev),
                                              !.behind = FALSE]
  BY <1>1 DEF Appended
<1>3. Appended(log, ev, "ok").book = Applied(log.book, ev)
  BY <1>2 DEF RecoveryLog
<1>4. k # ev.id => Applied(log.book, ev)[k] = log.book[k]
  BY DEF Applied, RecoveryLog
<1> QED BY <1>2, <1>3, <1>4

\* Open orders that stay as they are survive as long as the log does.
LEMMA SurvivalKept ==
    ASSUME OpenOrdersSurviveCrash, wal' = wal \/ ~wal'.valid \/ wal'.behind,
           \A t \in Symbols, j \in Slots :
              Open(orders'[t][j]) => orders'[t][j] = orders[t][j]
    PROVE  OpenOrdersSurviveCrash'
  BY DEF OpenOrdersSurviveCrash

\* A logged change of one slot: the record has to leave the order the slot holds.
LEMMA SurvivalLogged ==
    ASSUME OpenOrdersSurviveCrash, SlotsRouted, wal \in RecoveryLog,
           NEW s \in Symbols, NEW i \in Slots, NEW id \in Ids, NEW ev,
           ev.id = id, OthersKept(s, i), wal' = Appended(wal, ev, "ok"),
           \A t \in Symbols, j \in Slots :
              Open(orders[t][j]) /\ (t # s \/ j # i) => orders[t][j].id # id,
           (Open(orders'[s][i]) /\ wal.valid /\ ~wal.behind) =>
              orders'[s][i].id = id /\ Applied(wal.book, ev)[id] = Recovered(orders'[s][i])
    PROVE  OpenOrdersSurviveCrash'
<1> SUFFICES ASSUME wal'.valid, NEW t \in Symbols, NEW j \in Slots, Open(orders'[t][j])
             PROVE  wal'.book[orders'[t][j].id] = Recovered(orders'[t][j])
  BY DEF OpenOrdersSurviveCrash, Recovered
<1>1. /\ wal.valid /\ ~wal.behind
      /\ wal'.book = Applied(wal.book, ev)
      /\ \A k \in Ids : k # id => Applied(wal.book, ev)[k] = wal.book[k]
  BY GoodAppend
<1>2. CASE t = s /\ j = i
  BY <1>1, <1>2
<1>3. CASE t # s \/ j # i
  <2>1. orders'[t][j] = orders[t][j] /\ Open(orders[t][j])
    BY <1>3 DEF OthersKept
  <2>2. orders[t][j].id # id /\ orders[t][j].id \in Ids
    BY <1>3, <2>1, OpenIdKnown
  <2>3. wal.book[orders[t][j].id] = Recovered(orders[t][j])
    BY <1>1, <2>1 DEF OpenOrdersSurviveCrash
  <2> QED BY <1>1, <2>1, <2>2, <2>3
<1> QED BY <1>2, <1>3

LEMMA SurvivalAdmission ==
    ASSUME SingleSymbolIds, GatewayInv, OpenOrdersSurviveCrash,
           NEW s \in Symbols, NEW i \in Slots, NEW id \in Ids,
           NEW side \in Sides, NEW qty \in Qtys, NEW price \in Prices,
           try_build(s, i, id, side, qty, price)
    PROVE  OpenOrdersSurviveCrash'
<1> DEFINE ev == Event("Add", id, qty, price, side)
           order == [id |-> id, price |-> price, qty |-> qty, filled |-> 0,
                     side |-> side, state |-> "live"]
<1>1. TypeOK /\ SlotInv /\ SlotsRouted /\ wal \in RecoveryLog
  BY DEF GatewayInv, TypeOK, SlotInv
<1>2. OthersKept(s, i) /\ orders'[s][i] = order
  BY <1>1 DEF try_build, ReservedSlots, TypeOK, OthersKept
<1>3. ledger[id] = 0 /\ wal' = Appended(wal, ev, "ok")
  BY DEF try_build, Reservable
<1>4. \A t \in Symbols, j \in Slots : Open(orders[t][j]) => orders[t][j].id # id
  <2> SUFFICES ASSUME NEW t \in Symbols, NEW j \in Slots, Open(orders[t][j])
               PROVE  orders[t][j].id # id
    OBVIOUS
  <2>1. orders[t][j].qty > 0 /\ ledger[orders[t][j].id] = orders[t][j].qty
    BY <1>1 DEF SlotInv, LedgerMatchesSlots
  <2>2. orders[t][j].qty \in Nat
    BY <1>1 DEF TypeOK, Order
  <2> QED BY <1>3, <2>1, <2>2
<1>5. ev.id = id /\ ev.type = "Add" /\ ev.qty = qty /\ ev.price = price /\ ev.side = side
  BY DEF Event
<1>6. order.id = id /\ Recovered(order) = [rem |-> qty, price |-> price, side |-> side]
  BY DEF Recovered
<1> HIDE DEF ev, order
<1>7. Applied(wal.book, ev)[id] = [rem |-> qty, price |-> price, side |-> side]
  BY <1>1, <1>5 DEF Applied, RecoveryLog
<1> QED BY <1>1, <1>2, <1>3, <1>4, <1>5, <1>6, <1>7, SurvivalLogged

LEMMA SurvivalFill ==
    ASSUME SingleSymbolIds, GatewayInv, OpenOrdersSurviveCrash,
           NEW s \in Symbols, NEW i \in Slots, NEW id \in Ids,
           NEW qty \in Qtys \cup {0}, NEW terminal \in BOOLEAN, NEW delivered \in BOOLEAN,
           apply_execution_report(s, i, id, qty, terminal, delivered)
    PROVE  OpenOrdersSurviveCrash'
<1> DEFINE order == orders[s][i]
           filled == FilledOrder(order, qty, terminal)
           ev == FillEvent(order, qty, terminal)
<1>1. /\ TypeOK /\ SlotInv /\ SlotsRouted /\ SlotsTyped /\ wal \in RecoveryLog
      /\ order \in Order /\ risk[s] \in RiskState
  BY DEF GatewayInv, TypeOK, SlotInv, SlotsTyped
<1>2. /\ FirstMatch(s, id, i) /\ ledger[id] # 0 /\ qty > 0 /\ qty <= order.qty
      /\ orders' = [orders EXCEPT ![s][i] = filled]
      /\ wal' = Appended(wal, ev, "ok")
  BY DEF apply_execution_report
<1>3. Open(order) /\ order.id = id /\ qty \in Nat /\ order.qty \in Nat
  <2>1. Open(order)
    BY <1>1, <1>2, KnownMatchIsOpen
  <2>2. order.id = id
    BY <1>2 DEF FirstMatch
  <2> QED BY <1>1, <2>1, <2>2, GatewayAssumption DEF Order
<1>4. \A t \in Symbols, j \in Slots :
         Open(orders[t][j]) /\ (t # s \/ j # i) => orders[t][j].id # id
  BY <1>1, <1>3, OpenIdsUnique
<1>5. OthersKept(s, i) /\ orders'[s][i] = filled
  BY <1>1, <1>2 DEF TypeOK, OthersKept
<1>6. ev.id = id
  BY <1>3 DEF FillEvent, Event
<1>7. ASSUME Open(filled), wal.valid, ~wal.behind
      PROVE  filled.id = id /\ Applied(wal.book, ev)[id] = Recovered(filled)
  <2>1. /\ filled.id = id /\ filled.qty = order.qty - qty
        /\ filled.price = order.price /\ filled.side = order.side
    BY <1>1, <1>3 DEF FilledOrder, Order
  <2>2. ~terminal /\ qty # order.qty
    <3>1. filled.state = IF terminal \/ qty = order.qty THEN "done" ELSE "partial"
      BY <1>1, <1>2, <1>3, FillUpdates
    <3> QED BY <1>7, <3>1 DEF Open
  <2>3. wal.book[id] = Recovered(order)
    BY <1>3, <1>7 DEF OpenOrdersSurviveCrash
  <2>4. ev.type = "Fill" /\ ev.qty = qty
    BY <2>2 DEF FillEvent, Event
  <2>5. Applied(wal.book, ev)[id] = [wal.book[id] EXCEPT !.rem = wal.book[id].rem - qty]
    <3>1. wal.book[id].rem = order.qty
      BY <2>3 DEF Recovered
    <3>2. qty < wal.book[id].rem
      BY <1>2, <1>3, <2>2, <3>1
    <3> HIDE DEF ev
    <3> QED BY <1>1, <1>6, <2>4, <3>2 DEF Applied, RecoveryLog
  <2>6. Recovered(filled) = [Recovered(order) EXCEPT !.rem = Recovered(order).rem - qty]
    BY <2>1 DEF Recovered
  <2> QED BY <2>1, <2>3, <2>5, <2>6
<1> QED BY <1>1, <1>2, <1>4, <1>5, <1>6, <1>7, SurvivalLogged

LEMMA SurvivalCancel ==
    ASSUME SingleSymbolIds, GatewayInv, OpenOrdersSurviveCrash,
           NEW s \in Symbols, NEW i \in Slots, NEW id \in Ids, apply_cancel_report(s, i, id)
    PROVE  OpenOrdersSurviveCrash'
<1> DEFINE ev == Event("Cancel", id, orders[s][i].qty, orders[s][i].price, orders[s][i].side)
<1>1. TypeOK /\ SlotInv /\ SlotsRouted /\ wal \in RecoveryLog
  BY DEF GatewayInv, TypeOK, SlotInv
<1>2. /\ Open(orders[s][i]) /\ orders[s][i].id = id
      /\ wal' = Appended(wal, ev, "ok") /\ ev.id = id
  BY DEF apply_cancel_report, FirstMatch, Event
<1>3. OthersKept(s, i) /\ ~Open(orders'[s][i])
  BY <1>1 DEF apply_cancel_report, TypeOK, OthersKept, EmptyOrder, Open
<1>4. \A t \in Symbols, j \in Slots :
         Open(orders[t][j]) /\ (t # s \/ j # i) => orders[t][j].id # id
  BY <1>1, <1>2, OpenIdsUnique
<1> HIDE DEF ev
<1> QED BY <1>1, <1>2, <1>3, <1>4, SurvivalLogged

LEMMA SurvivalReplace ==
    ASSUME SingleSymbolIds, GatewayInv, OpenOrdersSurviveCrash,
           NEW s \in Symbols, NEW i \in Slots, NEW id \in Ids,
           NEW qty \in Qtys, NEW price \in Prices, apply_replace_report(s, i, id, qty, price)
    PROVE  OpenOrdersSurviveCrash'
<1> DEFINE order == orders[s][i]
           moved == [order EXCEPT !.qty = qty, !.price = price]
           ev == ReplaceEvent(order, qty, price)
<1>1. TypeOK /\ SlotInv /\ SlotsRouted /\ wal \in RecoveryLog /\ order \in Order
  BY DEF GatewayInv, TypeOK, SlotInv
<1>2. Open(order) /\ order.id = id /\ wal' = Appended(wal, ev, "ok")
  BY DEF apply_replace_report, FirstOpen
<1>3. ev.id = id /\ ev.type = "Replace" /\ ev.qty = qty /\ ev.price = price
  BY <1>2 DEF ReplaceEvent, Event
<1>4. \A t \in Symbols, j \in Slots :
         Open(orders[t][j]) /\ (t # s \/ j # i) => orders[t][j].id # id
  BY <1>1, <1>2, OpenIdsUnique
<1>5. moved.id = id /\ moved.qty = qty /\ moved.price = price /\ moved.side = order.side
  BY <1>1, <1>2 DEF Order
<1>6. OthersKept(s, i) /\ orders'[s][i] = moved
  <2>1. orders' = [orders EXCEPT ![s][i] = moved]
    BY <1>1 DEF apply_replace_report, TypeOK
  <2> HIDE DEF moved
  <2> QED BY <1>1, <2>1 DEF TypeOK, OthersKept
<1>7. ASSUME wal.valid, ~wal.behind
      PROVE  Applied(wal.book, ev)[id] = Recovered(moved)
  <2>1. wal.book[id] = Recovered(order)
    BY <1>2, <1>7 DEF OpenOrdersSurviveCrash
  <2> HIDE DEF ev, moved
  <2>2. Recovered(moved) = [rem |-> qty, price |-> price, side |-> order.side]
    BY <1>5 DEF Recovered
  <2> DEFINE old == wal.book[id]
  <2>3. old.side = order.side /\ old \in [rem : Nat, price : Nat, side : {"buy", "sell"}]
    BY <1>1, <2>1 DEF Recovered, RecoveryLog
  <2>4. Applied(wal.book, ev)[id] = [rem |-> qty, price |-> price, side |-> old.side]
    BY <1>1, <1>3 DEF Applied, RecoveryLog
  <2> QED BY <2>2, <2>3, <2>4
<1> HIDE DEF ev, moved
<1> QED BY <1>1, <1>2, <1>3, <1>4, <1>5, <1>6, <1>7, SurvivalLogged

LEMMA SurvivalStep ==
    ASSUME SingleSymbolIds, GatewayInv, OpenOrdersSurviveCrash, [Next]_vars
    PROVE  OpenOrdersSurviveCrash'
<1>1. CASE UNCHANGED vars
  BY <1>1, SurvivalKept DEF vars
<1>2. CASE Bookkeeping
  BY <1>2, SurvivalKept DEF Bookkeeping
<1>3. ASSUME NEW s \in Symbols, NEW i \in Slots, Admission(s, i)
      PROVE  OpenOrdersSurviveCrash'
  <2>1. PICK id \in Ids, side \in Sides, qty \in Qtys, price \in Prices :
          /\ <<s, id>> \in IdPairs
          /\ \/ try_build(s, i, id, side, qty, price)
             \/ \E failure \in {"audit"} \cup (Outcomes \ {"ok"}) :
                   try_build_unlogged(s, i, id, side, qty, price, failure)
    BY <1>3 DEF Admission
  <2>2. CASE try_build(s, i, id, side, qty, price)
    BY <2>2, SurvivalAdmission
  <2>3. ASSUME NEW failure \in {"audit"} \cup (Outcomes \ {"ok"}),
               try_build_unlogged(s, i, id, side, qty, price, failure)
        PROVE  OpenOrdersSurviveCrash'
    <3>1. wal' = wal \/ ~wal'.valid \/ wal'.behind
      <4>1. wal \in RecoveryLog
        BY DEF GatewayInv, TypeOK
      <4> QED BY <2>3, <4>1, FailedAppend, GatewayAssumption DEF try_build_unlogged
    <3>2. OthersKept(s, i) /\ orders'[s][i] = EmptyOrder
      BY <2>1, <2>3, UnloggedClears
    <3>3. \A t \in Symbols, j \in Slots :
             Open(orders'[t][j]) => orders'[t][j] = orders[t][j]
      BY <3>2 DEF OthersKept, Open, EmptyOrder
    <3> QED BY <3>1, <3>3, SurvivalKept
  <2> QED BY <2>1, <2>2, <2>3
<1>4. ASSUME NEW s \in Symbols, NEW i \in Slots, NEW id \in Ids, apply_reject_report(s, i, id)
      PROVE  OpenOrdersSurviveCrash'
  <2>1. wal' = wal
    BY <1>4 DEF apply_reject_report
  <2>2. \A t \in Symbols, j \in Slots :
           Open(orders'[t][j]) => orders'[t][j] = orders[t][j]
    BY <1>4 DEF apply_reject_report, GatewayInv, TypeOK, EmptyOrder, Open
  <2> QED BY <2>1, <2>2, SurvivalKept
<1>5. ASSUME NEW s \in Symbols, NEW i \in Slots, Report(s, i)
      PROVE  OpenOrdersSurviveCrash'
  BY <1>4, <1>5, SurvivalFill, SurvivalCancel, SurvivalReplace DEF Report
<1> QED BY <1>1, <1>2, <1>3, <1>5, StepKinds DEF GatewayInv

\* A crash at any point loses no open order: as long as every append so far
\* either succeeded or wrote nothing, replay returns each open order with the
\* remaining quantity, price and side it has in its slot.
THEOREM OpenOrdersRecoverable ==
    ASSUME SingleSymbolIds PROVE Spec => []OpenOrdersSurviveCrash
<1>1. Init => OpenOrdersSurviveCrash
  BY DEF Init, OpenOrdersSurviveCrash, EmptyOrder, Open
<1> QED BY <1>1, SurvivalStep, GatewayInvariant, PTL DEF Spec

-----------------------------------------------------------------------------
(***************************************************************************)
(* What a step may never do.                                               *)
(***************************************************************************)

\* A report acts on an open slot and leaves the others alone.
LEMMA ReportTouchesOpenSlot ==
    ASSUME SingleSymbolIds, GatewayInv, NEW s \in Symbols, NEW i \in Slots, Report(s, i)
    PROVE  Open(orders[s][i]) /\ OthersKept(s, i)
<1>1. TypeOK /\ SlotInv /\ SlotsTyped
  BY DEF GatewayInv, TypeOK, SlotsTyped
<1>2. ASSUME NEW id \in Ids, NEW qty \in Qtys \cup {0}, NEW terminal \in BOOLEAN,
             NEW delivered \in BOOLEAN,
             apply_execution_report(s, i, id, qty, terminal, delivered)
      PROVE  Open(orders[s][i]) /\ OthersKept(s, i)
  <2>1. Open(orders[s][i])
    BY <1>1, <1>2, KnownMatchIsOpen DEF apply_execution_report
  <2>2. OthersKept(s, i)
    BY <1>1, <1>2 DEF apply_execution_report, OthersKept, TypeOK
  <2> QED BY <2>1, <2>2
<1>3. ASSUME NEW id \in Ids, apply_cancel_report(s, i, id) \/ apply_reject_report(s, i, id)
      PROVE  Open(orders[s][i]) /\ OthersKept(s, i)
  BY <1>1, <1>3 DEF apply_cancel_report, apply_reject_report, OthersKept, TypeOK
<1>4. ASSUME NEW id \in Ids, NEW qty \in Qtys, NEW price \in Prices,
             apply_replace_report(s, i, id, qty, price)
      PROVE  Open(orders[s][i]) /\ OthersKept(s, i)
  BY <1>1, <1>4 DEF apply_replace_report, FirstOpen, OthersKept, TypeOK
<1> QED BY <1>2, <1>3, <1>4 DEF Report

\* An admission acts on the first free slot of a symbol that may trade.
LEMMA AdmissionTakesFreeSlot ==
    ASSUME SingleSymbolIds, GatewayInv, NEW s \in Symbols, NEW i \in Slots, Admission(s, i)
    PROVE  /\ OthersKept(s, i) /\ FirstFree(s, i)
           /\ breaker = "closed" /\ ~risk[s].halted
           /\ orders'[s][i].state \in {"live", "empty"}
<1>1. PICK id \in Ids, side \in Sides, qty \in Qtys, price \in Prices :
        /\ <<s, id>> \in IdPairs
        /\ \/ try_build(s, i, id, side, qty, price)
           \/ \E failure \in {"audit"} \cup (Outcomes \ {"ok"}) :
                 try_build_unlogged(s, i, id, side, qty, price, failure)
  BY DEF Admission
<1>2. Reservable(s, i, id, side, qty)
  BY <1>1 DEF try_build, try_build_unlogged
<1>3. FirstFree(s, i) /\ breaker = "closed" /\ ~risk[s].halted
  BY <1>2 DEF Reservable, Admits, evaluate
<1>4. CASE try_build(s, i, id, side, qty, price)
  BY <1>3, <1>4 DEF try_build, ReservedSlots, OthersKept, GatewayInv, TypeOK
<1>5. ASSUME NEW failure \in {"audit"} \cup (Outcomes \ {"ok"}),
             try_build_unlogged(s, i, id, side, qty, price, failure)
      PROVE  OthersKept(s, i) /\ orders'[s][i].state = "empty"
  BY <1>1, <1>5, UnloggedClears DEF EmptyOrder
<1> QED BY <1>1, <1>3, <1>4, <1>5

\* No late or repeated report changes a terminal order: its slot changes only
\* when an order is admitted on a symbol that may trade and takes it.
THEOREM TerminalOrdersImmutable ==
    ASSUME SingleSymbolIds PROVE Spec => TerminalImmutable
<1> DEFINE Kept == \A s \in Symbols, i \in Slots :
                      (orders[s][i].state = "done" /\ orders'[s][i] # orders[s][i]) =>
                          /\ orders'[s][i].state \in {"live", "empty"}
                          /\ FirstFree(s, i)
                          /\ breaker = "closed" /\ ~risk[s].halted
<1>1. ASSUME GatewayInv, [Next]_vars PROVE [Kept]_vars
  <2> SUFFICES ASSUME Next, NEW s \in Symbols, NEW i \in Slots,
                      orders[s][i].state = "done", orders'[s][i] # orders[s][i]
               PROVE  /\ orders'[s][i].state \in {"live", "empty"}
                      /\ FirstFree(s, i)
                      /\ breaker = "closed" /\ ~risk[s].halted
    BY <1>1
  <2>1. Bookkeeping \/ \E t \in Symbols, j \in Slots : Admission(t, j) \/ Report(t, j)
    BY <1>1, StepKinds DEF GatewayInv
  <2>2. ~Bookkeeping
    BY DEF Bookkeeping
  <2>3. PICK t \in Symbols, j \in Slots : Admission(t, j) \/ Report(t, j)
    BY <2>1, <2>2
  <2>4. OthersKept(t, j)
    BY <1>1, <2>3, ReportTouchesOpenSlot, AdmissionTakesFreeSlot
  <2>5. s = t /\ i = j
    BY <2>4 DEF OthersKept
  <2>6. ~Report(t, j)
    BY <1>1, <2>5, ReportTouchesOpenSlot DEF Open
  <2> QED BY <1>1, <2>3, <2>5, <2>6, AdmissionTakesFreeSlot
<1>2. (Spec => [][Kept]_vars)
  BY <1>1, GatewayInvariant, PTL DEF Spec
<1> QED BY <1>2 DEF TerminalImmutable

\* A rejected order adds one to the symbol's reject count.
LEMMA RejectCounted ==
    ASSUME NEW r \in RiskState, NEW side, NEW qty, NEW price
    PROVE  Closed(release_reservation(RejectedRisk(r), side, qty, price)).rejects
             = r.rejects + 1
<1>1. CountedReject(r).rejects = r.rejects + 1 /\ CountedReject(r) \in RiskState
  BY DEF RiskState, CountedReject
<1>2. \A q \in RiskState : Halted(q).rejects = q.rejects /\ Halted(q) \in RiskState
  BY DEF RiskState, Halted
<1> DEFINE q == RejectedRisk(r)
<1>3. q \in RiskState /\ q.rejects = r.rejects + 1
  BY <1>1, <1>2 DEF RejectedRisk
<1> HIDE DEF q
<1> DEFINE net == q.net - signed_qty_delta(side, qty)
           gross == q.gross - price * qty
<1>4. release_reservation(q, side, qty, price) = [q EXCEPT !.net = net, !.gross = gross]
  BY DEF release_reservation
<1> HIDE DEF net, gross
<1>5. Closed(release_reservation(q, side, qty, price)).rejects = q.rejects
  BY <1>3, <1>4 DEF Closed, RiskState
<1> QED BY <1>3, <1>5 DEF q

\* The step that opens the breaker takes no open order away, except the one the
\* venue has just rejected.
THEOREM FailingClosedKeepsOrders ==
    ASSUME SingleSymbolIds PROVE Spec => FailClosedKeepsOrders
<1> DEFINE Untouched(s, i) ==
             orders'[s][i] = orders[s][i] /\ ledger'[orders[s][i].id] = orders[s][i].qty
           Rejected(s, i) ==
             orders'[s][i] = EmptyOrder /\ risk'[s].rejects > risk[s].rejects
           Kept == breaker = "closed" /\ breaker' = "open" =>
                     \A s \in Symbols, i \in Slots :
                        Open(orders[s][i]) =>
                            \/ orders'[s][i] = orders[s][i] /\ ledger'[orders[s][i].id] = orders[s][i].qty
                            \/ orders'[s][i] = EmptyOrder /\ risk'[s].rejects > risk[s].rejects
<1>1. ASSUME GatewayInv, [Next]_vars PROVE [Kept]_vars
  <2> SUFFICES ASSUME Next, breaker = "closed", breaker' = "open",
                      NEW s \in Symbols, NEW i \in Slots, Open(orders[s][i])
               PROVE  Untouched(s, i) \/ Rejected(s, i)
    BY <1>1
  <2>1. TypeOK /\ SlotInv /\ SlotsRouted /\ ledger[orders[s][i].id] = orders[s][i].qty
    BY <1>1 DEF GatewayInv, SlotInv, LedgerMatchesSlots
  <2>2. CASE Bookkeeping
    BY <2>1, <2>2 DEF Bookkeeping
  <2>3. ASSUME NEW t \in Symbols, NEW j \in Slots, Admission(t, j) PROVE Untouched(s, i)
    <3>1. OthersKept(t, j) /\ ~Open(orders[t][j])
      BY <1>1, <2>3, AdmissionTakesFreeSlot DEF FirstFree
    <3>2. orders'[s][i] = orders[s][i]
      BY <3>1 DEF OthersKept
    <3>3. ledger' = ledger
      BY <2>3 DEF Admission, try_build, try_build_unlogged
    <3> QED BY <2>1, <3>2, <3>3
  <2>4. ASSUME NEW t \in Symbols, NEW j \in Slots, Report(t, j)
        PROVE  Untouched(s, i) \/ Rejected(s, i)
    <3>1. PICK id \in Ids : apply_reject_report(t, j, id)
      BY <2>4 DEF Report, apply_execution_report, apply_cancel_report, apply_replace_report
    <3>2. Open(orders[t][j]) /\ orders[t][j].id = id /\ OthersKept(t, j)
      BY <1>1, <2>4, <3>1, ReportTouchesOpenSlot DEF apply_reject_report, FirstMatch
    <3>3. CASE s = t /\ i = j
      <4> DEFINE r == Closed(release_reservation(RejectedRisk(risk[s]), orders[s][i].side,
                                                 orders[s][i].qty, orders[s][i].price))
      <4>1. risk[s] \in RiskState
        BY <2>1 DEF TypeOK
      <4>2. r.rejects = risk[s].rejects + 1 /\ risk[s].rejects \in Nat
        BY <4>1, RejectCounted DEF RiskState
      <4>3. risk' = [risk EXCEPT ![s] = r] /\ orders' = [orders EXCEPT ![s][i] = EmptyOrder]
        BY <3>1, <3>3 DEF apply_reject_report
      <4> HIDE DEF r
      <4>4. risk'[s].rejects > risk[s].rejects
        BY <2>1, <4>2, <4>3 DEF TypeOK
      <4>5. orders'[s][i] = EmptyOrder
        BY <2>1, <4>3 DEF TypeOK
      <4> QED BY <4>4, <4>5
    <3>4. CASE s # t \/ i # j
      <4>1. orders'[s][i] = orders[s][i]
        BY <3>2, <3>4 DEF OthersKept
      <4>2. orders[s][i].id # id /\ orders[s][i].id \in Ids
        BY <2>1, <3>2, <3>4, OpenIdsUnique, OpenIdKnown
      <4>3. ledger'[orders[s][i].id] = ledger[orders[s][i].id]
        BY <2>1, <3>1, <4>2 DEF apply_reject_report, TypeOK
      <4> QED BY <2>1, <4>1, <4>3
    <3> QED BY <3>3, <3>4
  <2>5. Bookkeeping \/ \E t \in Symbols, j \in Slots : Admission(t, j) \/ Report(t, j)
    BY <1>1, StepKinds DEF GatewayInv
  <2> HIDE DEF Untouched, Rejected
  <2> QED BY <2>2, <2>3, <2>4, <2>5
<1>2. Spec => [][Kept]_vars
  BY <1>1, GatewayInvariant, PTL DEF Spec
<1> QED BY <1>2 DEF FailClosedKeepsOrders

-----------------------------------------------------------------------------
(***************************************************************************)
(* The amounts.  The sum over the slots is a recursive function, and what  *)
(* it comes to is the lemmas on sums of Induction.                         *)
(***************************************************************************)

\* SlotSum is the last of the partial sums.
LEMMA SlotSumDefined ==
    ASSUME NEW h \in [Slots -> Int]
    PROVE  \E f : PartialSums(h, f, MaxActive) /\ SlotSum(h) = f[MaxActive]
<1> DEFINE sum[n \in 0 .. MaxActive] == IF n = 0 THEN 0 ELSE sum[n - 1] + h[n]
<1>1. sum = CHOOSE g : g = [n \in 0 .. MaxActive |-> IF n = 0 THEN 0 ELSE g[n - 1] + h[n]]
  OBVIOUS
<1>2. SlotSum(h) = sum[MaxActive]
  BY Zenon DEF SlotSum
<1>3. MaxActive \in Nat /\ h \in [1 .. MaxActive -> Int]
  BY GatewayAssumption DEF Slots
<1> HIDE DEF sum
<1>4. PartialSums(h, sum, MaxActive)
  BY <1>1, <1>3, RecursiveSum
<1> QED BY <1>2, <1>4

\* Changing one place changes the sum by the difference.
LEMMA SlotSumChanged ==
    ASSUME NEW h \in [Slots -> Int], NEW k \in [Slots -> Int], NEW i \in Slots,
           \A j \in Slots : j # i => k[j] = h[j]
    PROVE  /\ SlotSum(h) \in Int
           /\ SlotSum(k) = SlotSum(h) - h[i] + k[i]
<1>1. PICK f : PartialSums(h, f, MaxActive) /\ SlotSum(h) = f[MaxActive]
  BY SlotSumDefined
<1>2. PICK g : PartialSums(k, g, MaxActive) /\ SlotSum(k) = g[MaxActive]
  BY SlotSumDefined
<1>3. Slots = 1 .. MaxActive /\ MaxActive \in Nat
  BY GatewayAssumption DEF Slots
<1>4. OneChanged(h, k, MaxActive, i)
  BY <1>3 DEF OneChanged
<1>5. f[MaxActive] \in Int /\ g[MaxActive] = f[MaxActive] - h[i] + k[i]
  BY <1>1, <1>2, <1>4, SumChanged
<1> QED BY <1>1, <1>2, <1>5

\* Nothing is reserved where no slot reserves anything.
LEMMA SlotSumZero ==
    ASSUME NEW h \in [Slots -> Int], \A i \in Slots : h[i] = 0
    PROVE  SlotSum(h) = 0
<1>1. PICK f : PartialSums(h, f, MaxActive) /\ SlotSum(h) = f[MaxActive]
  BY SlotSumDefined
<1>2. Slots = 1 .. MaxActive /\ MaxActive \in Nat
  BY GatewayAssumption DEF Slots
<1> QED BY <1>1, <1>2, SumZero

LEMMA ReservedType ==
    \A o \in Order : ReservedQty(o) \in Int /\ ReservedCost(o) \in Int
<1>1. \A o \in Order : ReservedQty(o) \in Int
  BY DEF Order, ReservedQty, signed_qty_delta
<1>2. \A o \in Order : ReservedCost(o) \in Int
  BY DEF Order, ReservedCost
<1> QED BY <1>1, <1>2

\* What a change of one slot does to the reserved amounts.
LEMMA ReservedAfterChange ==
    ASSUME SlotsTyped, SlotsTyped', NEW s \in Symbols, NEW i \in Slots, OthersKept(s, i)
    PROVE  /\ QtyReserved(s) \in Int /\ CostReserved(s) \in Int
           /\ QtyReserved(s)' = QtyReserved(s) - ReservedQty(orders[s][i])
                                               + ReservedQty(orders'[s][i])
           /\ CostReserved(s)' = CostReserved(s) - ReservedCost(orders[s][i])
                                                 + ReservedCost(orders'[s][i])
           /\ \A t \in Symbols \ {s} : /\ QtyReserved(t)' = QtyReserved(t)
                                       /\ CostReserved(t)' = CostReserved(t)
<1> DEFINE q == [j \in Slots |-> ReservedQty(orders[s][j])]
           c == [j \in Slots |-> ReservedCost(orders[s][j])]
           q1 == [j \in Slots |-> ReservedQty(orders'[s][j])]
           c1 == [j \in Slots |-> ReservedCost(orders'[s][j])]
<1>1. \A j \in Slots : orders[s][j] \in Order /\ orders'[s][j] \in Order
  BY DEF SlotsTyped
<1>2. /\ q \in [Slots -> Int] /\ q1 \in [Slots -> Int]
      /\ c \in [Slots -> Int] /\ c1 \in [Slots -> Int]
  BY <1>1, ReservedType
<1>3. \A j \in Slots : j # i => q1[j] = q[j] /\ c1[j] = c[j]
  BY DEF OthersKept
<1>4. /\ q[i] = ReservedQty(orders[s][i]) /\ q1[i] = ReservedQty(orders'[s][i])
      /\ c[i] = ReservedCost(orders[s][i]) /\ c1[i] = ReservedCost(orders'[s][i])
  OBVIOUS
<1>5. /\ QtyReserved(s) = SlotSum(q) /\ QtyReserved(s)' = SlotSum(q1)
      /\ CostReserved(s) = SlotSum(c) /\ CostReserved(s)' = SlotSum(c1)
  BY DEF QtyReserved, CostReserved
<1> HIDE DEF q, q1, c, c1
<1>6. /\ SlotSum(q) \in Int /\ SlotSum(q1) = SlotSum(q) - q[i] + q1[i]
      /\ SlotSum(c) \in Int /\ SlotSum(c1) = SlotSum(c) - c[i] + c1[i]
  BY <1>2, <1>3, SlotSumChanged
<1>7. ASSUME NEW t \in Symbols \ {s}
      PROVE  QtyReserved(t)' = QtyReserved(t) /\ CostReserved(t)' = CostReserved(t)
  <2>1. \A j \in Slots : orders'[t][j] = orders[t][j]
    BY DEF OthersKept
  <2>2. /\ [j \in Slots |-> ReservedQty(orders'[t][j])] = [j \in Slots |-> ReservedQty(orders[t][j])]
        /\ [j \in Slots |-> ReservedCost(orders'[t][j])] = [j \in Slots |-> ReservedCost(orders[t][j])]
    BY <2>1
  <2> QED BY <2>2 DEF QtyReserved, CostReserved
<1> QED BY <1>4, <1>5, <1>6, <1>7

\* A call reconciles if the risk state moves by what is settled and by what
\* the slot it changes comes to reserve.
LEMMA AmountsMoved ==
    ASSUME TypeOK, SlotsTyped', RiskReconciles, NEW s \in Symbols, NEW i \in Slots,
           OthersKept(s, i),
           \A t \in Symbols \ {s} : risk'[t] = risk[t] /\ settled'[t] = settled[t],
           NEW dq \in Int, NEW dc \in Int,
           settled'[s].qty = settled[s].qty + dq,
           settled'[s].cost = settled[s].cost + dc,
           risk'[s].net = risk[s].net + dq - ReservedQty(orders[s][i]) + ReservedQty(orders'[s][i]),
           risk'[s].gross = risk[s].gross + dc - ReservedCost(orders[s][i])
                                               + ReservedCost(orders'[s][i])
    PROVE  RiskReconciles'
<1>1. SlotsTyped
  BY DEF TypeOK, SlotsTyped
<1>2. /\ QtyReserved(s) \in Int /\ CostReserved(s) \in Int
      /\ QtyReserved(s)' = QtyReserved(s) - ReservedQty(orders[s][i]) + ReservedQty(orders'[s][i])
      /\ CostReserved(s)' = CostReserved(s) - ReservedCost(orders[s][i])
                                            + ReservedCost(orders'[s][i])
      /\ \A t \in Symbols \ {s} : /\ QtyReserved(t)' = QtyReserved(t)
                                  /\ CostReserved(t)' = CostReserved(t)
  BY <1>1, ReservedAfterChange
<1>3. /\ ReservedQty(orders[s][i]) \in Int /\ ReservedQty(orders'[s][i]) \in Int
      /\ ReservedCost(orders[s][i]) \in Int /\ ReservedCost(orders'[s][i]) \in Int
  BY <1>1, ReservedType DEF SlotsTyped
<1>4. settled[s].qty \in Int /\ settled[s].cost \in Int
  BY DEF TypeOK
<1>5. ASSUME NEW t \in Symbols
      PROVE  /\ risk'[t].net = settled'[t].qty + QtyReserved(t)'
             /\ risk'[t].gross = settled'[t].cost + CostReserved(t)'
  <2>1. CASE t = s
    <3>1. risk[s].net = settled[s].qty + QtyReserved(s)
      BY DEF RiskReconciles
    <3>2. risk[s].gross = settled[s].cost + CostReserved(s)
      BY DEF RiskReconciles
    <3>3. risk'[s].net = settled'[s].qty + QtyReserved(s)'
      BY <1>2, <1>3, <1>4, <3>1
    <3>4. risk'[s].gross = settled'[s].cost + CostReserved(s)'
      BY <1>2, <1>3, <1>4, <3>2
    <3> QED BY <2>1, <3>3, <3>4
  <2>2. CASE t # s
    <3>1. risk[t].net = settled[t].qty + QtyReserved(t)
      BY DEF RiskReconciles
    <3>2. risk[t].gross = settled[t].cost + CostReserved(t)
      BY DEF RiskReconciles
    <3> QED BY <1>2, <2>2, <3>1, <3>2
  <2> QED BY <2>1, <2>2
<1> QED BY <1>5 DEF RiskReconciles

LEMMA AmountsBookkeeping ==
    ASSUME RiskReconciles, Bookkeeping PROVE RiskReconciles'
<1>1. orders' = orders /\ settled' = settled
  BY DEF Bookkeeping
<1>2. \A t \in Symbols : QtyReserved(t)' = QtyReserved(t) /\ CostReserved(t)' = CostReserved(t)
  BY <1>1 DEF QtyReserved, CostReserved
<1>3. \A t \in Symbols : risk'[t].net = risk[t].net /\ risk'[t].gross = risk[t].gross
  BY DEF Bookkeeping, SameHoldings
<1> QED BY <1>1, <1>2, <1>3 DEF RiskReconciles

\* An admitted order reserves what it asks for, in a slot that reserved nothing.
LEMMA AmountsAdmitted ==
    ASSUME GatewayInv, GatewayInv', RiskReconciles, NEW s \in Symbols, NEW i \in Slots,
           NEW id \in Ids, NEW side \in Sides, NEW qty \in Qtys, NEW price \in Prices,
           try_build(s, i, id, side, qty, price)
    PROVE  RiskReconciles'
<1> DEFINE order == [id |-> id, price |-> price, qty |-> qty, filled |-> 0,
                     side |-> side, state |-> "live"]
           r == Reserved(risk[s], side, qty, price)
<1>1. qty \in Nat /\ price \in Nat
  BY GatewayAssumption
<1>2. TypeOK /\ SlotsTyped /\ SlotsTyped' /\ risk[s] \in RiskState
  BY DEF GatewayInv, TypeOK, SlotsTyped
<1>3. /\ ReservedQty(order) = signed_qty_delta(side, qty)
      /\ ReservedCost(order) = price * qty
  BY DEF ReservedQty, ReservedCost, Open
<1>4. orders' = [orders EXCEPT ![s] = [orders[s] EXCEPT ![i] = order]]
  BY DEF try_build, ReservedSlots
<1> HIDE DEF order
<1>5. orders'[s][i] = order /\ OthersKept(s, i)
  BY <1>2, <1>4 DEF TypeOK, OthersKept
<1>6. ReservedQty(orders[s][i]) = 0 /\ ReservedCost(orders[s][i]) = 0
  BY DEF try_build, Reservable, FirstFree, ReservedQty, ReservedCost
<1>7. risk' = [risk EXCEPT ![s] = Opened(r)] /\ settled' = settled
  BY DEF try_build
<1>8. /\ r \in RiskState /\ signed_qty_delta(side, qty) \in Int
      /\ r.net = risk[s].net + signed_qty_delta(side, qty)
      /\ r.gross = risk[s].gross + price * qty
  <2> DEFINE k == risk[s]
  <2>1. k \in RiskState
    BY <1>2
  <2> HIDE DEF k
  <2>2. Reserved(k, side, qty, price) \in RiskState /\ signed_qty_delta(side, qty) \in Int
    BY ONLY <1>1, <2>1, side \in Sides, RiskUpdates
  <2>3. /\ Reserved(k, side, qty, price).net = k.net + signed_qty_delta(side, qty)
        /\ Reserved(k, side, qty, price).gross = k.gross + price * qty
    BY ONLY <1>1, <2>1, side \in Sides, RiskAmounts
  <2> QED BY <2>2, <2>3 DEF k
<1> HIDE DEF r
<1>9. Opened(r).net = r.net /\ Opened(r).gross = r.gross
  BY <1>1, <1>8, RiskAmounts
<1>10. /\ risk'[s].net = risk[s].net + signed_qty_delta(side, qty)
       /\ risk'[s].gross = risk[s].gross + price * qty
       /\ \A t \in Symbols \ {s} : risk'[t] = risk[t] /\ settled'[t] = settled[t]
  BY <1>2, <1>7, <1>8, <1>9 DEF TypeOK
<1>11. risk[s].net \in Int /\ risk[s].gross \in Int /\ price * qty \in Int
       /\ settled[s].qty \in Int /\ settled[s].cost \in Int
  BY <1>1, <1>2 DEF RiskState, TypeOK
<1> DEFINE delta == signed_qty_delta(side, qty)
           cost == price * qty
<1>12. /\ risk'[s].net = risk[s].net + 0 - ReservedQty(orders[s][i]) + ReservedQty(orders'[s][i])
       /\ risk'[s].gross = risk[s].gross + 0 - ReservedCost(orders[s][i])
                                              + ReservedCost(orders'[s][i])
  <2>1. ReservedQty(orders'[s][i]) = delta /\ ReservedCost(orders'[s][i]) = cost
    BY <1>3, <1>5
  <2>2. delta \in Int /\ cost \in Int
    BY <1>8, <1>11
  <2>3. risk'[s].net = risk[s].net + delta /\ risk'[s].gross = risk[s].gross + cost
    BY <1>10
  <2> HIDE DEF delta, cost
  <2> QED BY <1>6, <1>11, <2>1, <2>2, <2>3
<1>13. settled'[s].qty = settled[s].qty + 0 /\ settled'[s].cost = settled[s].cost + 0
  BY <1>7, <1>11
<1> QED BY <1>2, <1>5, <1>10, <1>12, <1>13, AmountsMoved

\* A failed admission leaves the amounts, and clears a slot that reserved
\* nothing.
LEMMA AmountsUnlogged ==
    ASSUME SingleSymbolIds, GatewayInv, GatewayInv', RiskReconciles, NEW s \in Symbols,
           NEW i \in Slots, NEW id \in Ids, NEW side \in Sides, NEW qty \in Qtys,
           NEW price \in Prices, <<s, id>> \in IdPairs,
           NEW failure \in {"audit"} \cup (Outcomes \ {"ok"}),
           try_build_unlogged(s, i, id, side, qty, price, failure)
    PROVE  RiskReconciles'
<1>1. qty \in Nat /\ price \in Nat
  BY GatewayAssumption
<1>2. TypeOK /\ SlotsTyped' /\ risk[s] \in RiskState
  BY DEF GatewayInv, TypeOK, SlotsTyped
<1>3. orders'[s][i] = EmptyOrder /\ OthersKept(s, i) /\ ~Open(orders[s][i])
  BY UnloggedClears
<1>4. /\ ReservedQty(orders[s][i]) = 0 /\ ReservedCost(orders[s][i]) = 0
      /\ ReservedQty(orders'[s][i]) = 0 /\ ReservedCost(orders'[s][i]) = 0
  BY <1>3 DEF ReservedQty, ReservedCost, EmptyOrder, Open
<1>5. risk' = [risk EXCEPT ![s] = CountedReject(risk[s])] /\ settled' = settled
  BY DEF try_build_unlogged
<1>6. CountedReject(risk[s]).net = risk[s].net /\ CountedReject(risk[s]).gross = risk[s].gross
  BY <1>1, <1>2, RiskAmounts
<1>7. /\ risk'[s].net = risk[s].net /\ risk'[s].gross = risk[s].gross
      /\ \A t \in Symbols \ {s} : risk'[t] = risk[t] /\ settled'[t] = settled[t]
  BY <1>2, <1>5, <1>6 DEF TypeOK
<1>8. risk[s].net \in Int /\ risk[s].gross \in Int
      /\ settled[s].qty \in Int /\ settled[s].cost \in Int
  BY <1>2 DEF RiskState, TypeOK
<1>9. /\ risk'[s].net = risk[s].net + 0 - ReservedQty(orders[s][i]) + ReservedQty(orders'[s][i])
      /\ risk'[s].gross = risk[s].gross + 0 - ReservedCost(orders[s][i])
                                             + ReservedCost(orders'[s][i])
      /\ settled'[s].qty = settled[s].qty + 0 /\ settled'[s].cost = settled[s].cost + 0
  BY <1>4, <1>5, <1>7, <1>8
<1> QED BY <1>2, <1>3, <1>7, <1>9, AmountsMoved

\* An amount is what is filled and what is left.
LEMMA AmountsSplit ==
    ASSUME NEW side \in Sides, NEW price \in Nat, NEW whole \in Nat, NEW part \in Nat,
           part <= whole
    PROVE  /\ signed_qty_delta(side, whole) =
                signed_qty_delta(side, part) + signed_qty_delta(side, whole - part)
           /\ price * whole = price * part + price * (whole - part)
           /\ signed_qty_delta(side, 0) = 0 /\ price * 0 = 0
<1>1. signed_qty_delta(side, whole) =
        signed_qty_delta(side, part) + signed_qty_delta(side, whole - part)
  BY DEF signed_qty_delta
<1>2. PICK rest \in Nat : rest = whole - part /\ whole = part + rest
  OBVIOUS
<1>3. price * (part + rest) = price * part + price * rest
  OBVIOUS
<1>4. signed_qty_delta(side, 0) = 0
  <2>1. \A n \in Nat : /\ signed_qty_delta(side, n) \in Int /\ signed_qty_delta(side, n - n) \in Int
                       /\ signed_qty_delta(side, n) =
                            signed_qty_delta(side, n) + signed_qty_delta(side, n - n)
    BY DEF signed_qty_delta
  <2>2. 1 \in Nat /\ 1 - 1 = 0
    OBVIOUS
  <2> QED BY <2>1, <2>2
<1>5. price * 0 = 0
  OBVIOUS
<1> QED BY <1>1, <1>2, <1>3, <1>4, <1>5

\* A fill moves what it fills from reserved to settled and, if it ends the
\* order, releases the rest.
LEMMA AmountsFilled ==
    ASSUME GatewayInv, GatewayInv', RiskReconciles, NEW s \in Symbols, NEW i \in Slots,
           NEW id \in Ids, NEW qty \in Qtys \cup {0}, NEW terminal \in BOOLEAN,
           NEW delivered \in BOOLEAN, SingleSymbolIds,
           apply_execution_report(s, i, id, qty, terminal, delivered)
    PROVE  RiskReconciles'
<1> DEFINE order == orders[s][i]
           filled == FilledOrder(order, qty, terminal)
           left == order.qty - qty
           ends == terminal \/ left = 0
           kept == IF terminal /\ left > 0
                   THEN release_reservation(risk[s], order.side, left, order.price) ELSE risk[s]
           r == FilledRisk(risk[s], order, qty, terminal)
           dq == signed_qty_delta(order.side, qty)
           dc == order.price * qty
           lq == signed_qty_delta(order.side, left)
           lc == order.price * left
<1>1. TypeOK /\ SlotInv /\ SlotsTyped /\ SlotsTyped' /\ risk[s] \in RiskState
  BY DEF GatewayInv, TypeOK, SlotsTyped
<1>2. /\ FirstMatch(s, id, i) /\ ledger[id] # 0 /\ qty > 0 /\ qty <= order.qty
      /\ orders' = [orders EXCEPT ![s][i] = filled]
      /\ risk' = [risk EXCEPT ![s] = r]
      /\ settled' = [settled EXCEPT ![s].qty = @ + dq, ![s].cost = @ + dc]
  BY DEF apply_execution_report
<1>3. /\ qty \in Nat /\ Open(order) /\ order \in Order
      /\ order.qty \in Nat /\ order.price \in Nat /\ order.side \in Sides
  <2>1. qty \in Nat
    BY GatewayAssumption
  <2>2. Open(order)
    BY <1>1, <1>2, KnownMatchIsOpen
  <2>3. order \in Order
    BY <1>1 DEF SlotsTyped
  <2> QED BY <2>1, <2>2, <2>3 DEF Order
<1>4. left \in Nat
  BY <1>2, <1>3
<1>5. dq \in Int /\ dc \in Int /\ lq \in Int /\ lc \in Int
  BY <1>3, <1>4 DEF signed_qty_delta
<1>6. ReservedQty(order) = dq + lq /\ ReservedCost(order) = dc + lc
  BY <1>2, <1>3, AmountsSplit DEF ReservedQty, ReservedCost
<1>7. left = 0 => lq = 0 /\ lc = 0
  BY <1>2, <1>3, AmountsSplit
<1>8. /\ ReservedQty(filled) = IF ends THEN 0 ELSE lq
      /\ ReservedCost(filled) = IF ends THEN 0 ELSE lc
  <2>1. /\ filled.qty = left /\ filled.price = order.price /\ filled.side = order.side
        /\ filled.state = IF ends THEN "done" ELSE "partial"
    BY <1>2, <1>3, <1>4 DEF FilledOrder, Order
  <2>2. Open(filled) <=> ~ends
    BY <2>1 DEF Open
  <2> QED BY <2>1, <2>2 DEF ReservedQty, ReservedCost
<1>9. /\ r.net = IF ends THEN risk[s].net - lq ELSE risk[s].net
      /\ r.gross = IF ends THEN risk[s].gross - lc ELSE risk[s].gross
  <2>1. r = IF ends THEN Closed(kept) ELSE kept
    BY DEF FilledRisk
  <2>2. risk[s].net \in Int /\ risk[s].gross \in Int
    BY <1>1 DEF RiskState
  <2>3. /\ kept \in RiskState
        /\ kept.net = IF ends THEN risk[s].net - lq ELSE risk[s].net
        /\ kept.gross = IF ends THEN risk[s].gross - lc ELSE risk[s].gross
    <3>1. CASE terminal /\ left > 0
      <4>1. kept = release_reservation(risk[s], order.side, left, order.price) /\ ends
        BY <3>1
      <4> HIDE DEF left, kept, order
      <4>2. kept \in RiskState
        BY <1>1, <1>3, <1>4, <4>1, RiskUpdates
      <4>3. /\ kept.net = risk[s].net - signed_qty_delta(order.side, left)
            /\ kept.gross = risk[s].gross - order.price * left
        <5>1. risk[s] \in RiskState /\ order.side \in Sides /\ order.price \in Nat
          BY <1>1, <1>3
        <5>2. kept = release_reservation(risk[s], order.side, left, order.price)
          BY <4>1
        <5> HIDE DEF ends
        <5> QED BY <1>4, <5>1, <5>2, RiskAmounts
      <4> QED BY <4>1, <4>2, <4>3
    <3>2. CASE ~(terminal /\ left > 0)
      <4>1. kept = risk[s]
        BY <3>2
      <4>2. ends => left = 0
        BY <1>4, <3>2
      <4> HIDE DEF lq, lc
      <4> QED BY <1>1, <1>7, <2>2, <4>1, <4>2
    <3> QED BY <3>1, <3>2
  <2> HIDE DEF kept, r
  <2>4. Closed(kept).net = kept.net /\ Closed(kept).gross = kept.gross
    BY <1>3, <2>3, RiskAmounts
  <2> QED BY <2>1, <2>3, <2>4
<1> HIDE DEF filled, r, dq, dc, lq, lc
<1>10. orders'[s][i] = filled /\ OthersKept(s, i)
  BY <1>1, <1>2 DEF TypeOK, OthersKept
<1>11. /\ risk'[s] = r
       /\ settled'[s].qty = settled[s].qty + dq /\ settled'[s].cost = settled[s].cost + dc
       /\ \A t \in Symbols \ {s} : risk'[t] = risk[t] /\ settled'[t] = settled[t]
  BY <1>1, <1>2 DEF TypeOK
<1>12. risk[s].net \in Int /\ risk[s].gross \in Int
  BY <1>1 DEF RiskState
<1>13. /\ risk'[s].net = risk[s].net + dq - ReservedQty(order) + ReservedQty(orders'[s][i])
       /\ risk'[s].gross = risk[s].gross + dc - ReservedCost(order) + ReservedCost(orders'[s][i])
  BY <1>5, <1>6, <1>7, <1>8, <1>9, <1>10, <1>11, <1>12
<1> QED BY <1>1, <1>5, <1>10, <1>11, <1>13, AmountsMoved

\* A cancelled or rejected order gives back all it reserved.
LEMMA AmountsRemoved ==
    ASSUME GatewayInv, GatewayInv', RiskReconciles, NEW s \in Symbols, NEW i \in Slots,
           NEW id \in Ids, NEW r0 \in RiskState, r0.net = risk[s].net, r0.gross = risk[s].gross,
           Open(orders[s][i]), orders'[s][i] = EmptyOrder, OthersKept(s, i),
           risk'[s] = Closed(release_reservation(r0, orders[s][i].side, orders[s][i].qty,
                                                 orders[s][i].price)),
           \A t \in Symbols \ {s} : risk'[t] = risk[t],
           \A t \in Symbols : settled'[t] = settled[t]
    PROVE  RiskReconciles'
<1> DEFINE order == orders[s][i]
           r1 == release_reservation(r0, order.side, order.qty, order.price)
           q == signed_qty_delta(order.side, order.qty)
           c == order.price * order.qty
<1>1. TypeOK /\ SlotsTyped' /\ risk[s] \in RiskState /\ order \in Order
  BY DEF GatewayInv, TypeOK, SlotsTyped
<1>2. order.side \in Sides /\ order.qty \in Nat /\ order.price \in Nat
  BY <1>1 DEF Order
<1>3. q \in Int /\ c \in Int
  BY <1>2 DEF signed_qty_delta
<1>4. /\ ReservedQty(order) = q /\ ReservedCost(order) = c
      /\ ReservedQty(EmptyOrder) = 0 /\ ReservedCost(EmptyOrder) = 0
  BY DEF ReservedQty, ReservedCost, EmptyOrder, Open
<1>6. r1 \in RiskState /\ r1.net = risk[s].net - q /\ r1.gross = risk[s].gross - c
  <2>1. r1 \in RiskState
    BY <1>2, RiskUpdates
  <2>2. /\ r1.net = r0.net - signed_qty_delta(order.side, order.qty)
        /\ r1.gross = r0.gross - order.price * order.qty
    <3>1. r0 \in RiskState
      OBVIOUS
    <3> HIDE DEF order
    <3> QED BY ONLY <1>2, <3>1, ReleaseAmounts
  <2> QED BY <2>1, <2>2
<1> HIDE DEF q, c
<1>7. risk'[s] = Closed(r1)
  OBVIOUS
<1> HIDE DEF r1
<1>8. Closed(r1).net = r1.net /\ Closed(r1).gross = r1.gross
  BY <1>2, <1>6, RiskAmounts
<1>9. risk'[s].net = risk[s].net - q /\ risk'[s].gross = risk[s].gross - c
  BY <1>6, <1>7, <1>8
<1>10. risk[s].net \in Int /\ risk[s].gross \in Int
       /\ settled[s].qty \in Int /\ settled[s].cost \in Int
  BY <1>1 DEF RiskState, TypeOK
<1>11. /\ risk'[s].net = risk[s].net + 0 - ReservedQty(order) + ReservedQty(orders'[s][i])
       /\ risk'[s].gross = risk[s].gross + 0 - ReservedCost(order) + ReservedCost(orders'[s][i])
  BY <1>3, <1>4, <1>9, <1>10
<1>12. settled'[s].qty = settled[s].qty + 0 /\ settled'[s].cost = settled[s].cost + 0
  BY <1>10
<1>13. \A t \in Symbols \ {s} : risk'[t] = risk[t] /\ settled'[t] = settled[t]
  OBVIOUS
<1> QED BY <1>1, <1>11, <1>12, <1>13, AmountsMoved

\* An accepted replace moves the reservation from the old to the new terms.
LEMMA AmountsReplaced ==
    ASSUME GatewayInv, GatewayInv', RiskReconciles, NEW s \in Symbols, NEW i \in Slots,
           NEW id \in Ids, NEW qty \in Qtys, NEW price \in Prices,
           apply_replace_report(s, i, id, qty, price)
    PROVE  RiskReconciles'
<1> DEFINE order == orders[s][i]
           moved == [order EXCEPT !.qty = qty, !.price = price]
           freed == release_reservation(risk[s], order.side, order.qty, order.price)
           r == Reserved(freed, order.side, qty, price)
           q == signed_qty_delta(order.side, order.qty)
           c == order.price * order.qty
           q1 == signed_qty_delta(order.side, qty)
           c1 == price * qty
<1>1. TypeOK /\ SlotsTyped' /\ risk[s] \in RiskState /\ order \in Order
  BY DEF GatewayInv, TypeOK, SlotsTyped
<1>2. qty \in Nat /\ price \in Nat
  BY GatewayAssumption
<1>3. order.side \in Sides /\ order.qty \in Nat /\ order.price \in Nat /\ Open(order)
  BY <1>1 DEF Order, apply_replace_report, FirstOpen
<1>4. q \in Int /\ c \in Int /\ q1 \in Int /\ c1 \in Int
  BY <1>2, <1>3 DEF signed_qty_delta
<1>5. ReservedQty(order) = q /\ ReservedCost(order) = c
  BY <1>3 DEF ReservedQty, ReservedCost
<1>6. ReservedQty(moved) = q1 /\ ReservedCost(moved) = c1
  <2>1. /\ moved.qty = qty /\ moved.price = price /\ moved.side = order.side
        /\ moved.state = order.state
    BY <1>1 DEF Order
  <2> HIDE DEF moved
  <2> QED BY <1>3, <2>1 DEF ReservedQty, ReservedCost, Open
<1>7. orders' = [orders EXCEPT ![s][i] = moved]
  BY <1>1 DEF apply_replace_report, TypeOK
<1> HIDE DEF moved
<1>8. orders'[s][i] = moved /\ OthersKept(s, i)
  BY <1>1, <1>7 DEF TypeOK, OthersKept
<1>9. freed \in RiskState /\ freed.net = risk[s].net - q /\ freed.gross = risk[s].gross - c
  <2>1. freed \in RiskState
    BY <1>1, <1>3, RiskUpdates
  <2>2. /\ freed.net = risk[s].net - signed_qty_delta(order.side, order.qty)
        /\ freed.gross = risk[s].gross - order.price * order.qty
    <3> HIDE DEF order
    <3> QED BY ONLY <1>1, <1>3, ReleaseAmounts
  <2> QED BY <2>1, <2>2
<1>10. risk' = [risk EXCEPT ![s] = r] /\ settled' = settled
  BY DEF apply_replace_report
<1> HIDE DEF freed
<1> HIDE DEF q, c
<1>11. r.net = freed.net + q1 /\ r.gross = freed.gross + c1
  <2>1. freed \in RiskState
    BY <1>9
  <2>2. /\ r.net = freed.net + signed_qty_delta(order.side, qty)
        /\ r.gross = freed.gross + price * qty
    <3> DEFINE side == order.side
    <3>1. side \in Sides /\ qty \in Nat /\ price \in Nat
      BY <1>2, <1>3
    <3> HIDE DEF side
    <3>2. /\ Reserved(freed, side, qty, price).net = freed.net + signed_qty_delta(side, qty)
          /\ Reserved(freed, side, qty, price).gross = freed.gross + price * qty
      BY ONLY <2>1, <3>1, RiskAmounts
    <3> QED BY <3>2 DEF side
  <2> QED BY <2>2
<1> HIDE DEF r, q1, c1
<1>12. /\ risk'[s] = r
       /\ \A t \in Symbols \ {s} : risk'[t] = risk[t] /\ settled'[t] = settled[t]
  BY <1>1, <1>10 DEF TypeOK
<1>13. risk[s].net \in Int /\ risk[s].gross \in Int
       /\ settled[s].qty \in Int /\ settled[s].cost \in Int
  BY <1>1 DEF RiskState, TypeOK
<1>14. /\ risk'[s].net = risk[s].net + 0 - ReservedQty(order) + ReservedQty(orders'[s][i])
       /\ risk'[s].gross = risk[s].gross + 0 - ReservedCost(order) + ReservedCost(orders'[s][i])
       /\ settled'[s].qty = settled[s].qty + 0 /\ settled'[s].cost = settled[s].cost + 0
  BY <1>4, <1>5, <1>6, <1>8, <1>9, <1>10, <1>11, <1>12, <1>13
<1> QED BY <1>1, <1>8, <1>12, <1>14, AmountsMoved

LEMMA AmountsInit == Init => RiskReconciles
<1> SUFFICES ASSUME Init, NEW s \in Symbols
             PROVE  /\ risk[s].net = settled[s].qty + QtyReserved(s)
                    /\ risk[s].gross = settled[s].cost + CostReserved(s)
  BY DEF RiskReconciles
<1>1. /\ risk[s].net = 0 /\ risk[s].gross = 0 /\ settled[s].qty = 0 /\ settled[s].cost = 0
      /\ \A i \in Slots : orders[s][i] = EmptyOrder
  BY DEF Init, InitialRisk
<1>2. ReservedQty(EmptyOrder) = 0 /\ ReservedCost(EmptyOrder) = 0
  BY DEF ReservedQty, ReservedCost, EmptyOrder, Open
<1> DEFINE q == [i \in Slots |-> ReservedQty(orders[s][i])]
           c == [i \in Slots |-> ReservedCost(orders[s][i])]
<1>3. q \in [Slots -> Int] /\ c \in [Slots -> Int] /\ \A i \in Slots : q[i] = 0 /\ c[i] = 0
  BY <1>1, <1>2
<1>4. QtyReserved(s) = SlotSum(q) /\ CostReserved(s) = SlotSum(c)
  BY DEF QtyReserved, CostReserved
<1> HIDE DEF q, c
<1> QED BY <1>1, <1>3, <1>4, SlotSumZero

LEMMA AmountsStep ==
    ASSUME SingleSymbolIds, GatewayInv, GatewayInv', RiskReconciles, [Next]_vars
    PROVE  RiskReconciles'
<1>1. CASE UNCHANGED vars
  <2>1. Bookkeeping
    BY <1>1 DEF GatewayInv, TypeOK, Bookkeeping, SameHoldings, vars
  <2> QED BY <2>1, AmountsBookkeeping
<1>2. CASE Next
  <2>1. Bookkeeping \/ \E s \in Symbols, i \in Slots : Admission(s, i) \/ Report(s, i)
    BY <1>2, StepKinds DEF GatewayInv
  <2>2. ASSUME NEW s \in Symbols, NEW i \in Slots, Admission(s, i) PROVE RiskReconciles'
    BY <2>2, AmountsAdmitted, AmountsUnlogged DEF Admission
  <2>3. ASSUME NEW s \in Symbols, NEW i \in Slots, Report(s, i) PROVE RiskReconciles'
    <3>0. orders \in [Symbols -> [Slots -> Order]] /\ risk \in [Symbols -> RiskState]
      BY DEF GatewayInv, TypeOK
    <3>1. risk[s] \in RiskState
      BY <3>0
    <3>2. ASSUME NEW id \in Ids, apply_cancel_report(s, i, id) PROVE RiskReconciles'
      <4>1. /\ Open(orders[s][i]) /\ settled' = settled
            /\ orders'[s][i] = EmptyOrder /\ OthersKept(s, i)
            /\ risk'[s] = Closed(release_reservation(risk[s], orders[s][i].side, orders[s][i].qty,
                                                     orders[s][i].price))
            /\ \A t \in Symbols \ {s} : risk'[t] = risk[t]
        BY <3>0, <3>2 DEF apply_cancel_report, OthersKept
      <4> QED BY <3>1, <4>1, AmountsRemoved
    <3>3. ASSUME NEW id \in Ids, apply_reject_report(s, i, id) PROVE RiskReconciles'
      <4> DEFINE r0 == RejectedRisk(risk[s])
      <4>1. r0 \in RiskState /\ r0.net = risk[s].net /\ r0.gross = risk[s].gross
        BY <3>1, RiskUpdates, RiskAmounts, "buy" \in Sides, 0 \in Nat DEF Sides
      <4>2. /\ Open(orders[s][i]) /\ settled' = settled
            /\ orders'[s][i] = EmptyOrder /\ OthersKept(s, i)
            /\ risk'[s] = Closed(release_reservation(r0, orders[s][i].side, orders[s][i].qty,
                                                     orders[s][i].price))
            /\ \A t \in Symbols \ {s} : risk'[t] = risk[t]
        BY <3>0, <3>3 DEF apply_reject_report, OthersKept
      <4> HIDE DEF r0
      <4> QED BY <3>3, <4>1, <4>2, AmountsRemoved
    <3> QED BY <2>3, <3>2, <3>3, AmountsFilled, AmountsReplaced DEF Report
  <2> QED BY <2>1, <2>2, <2>3, AmountsBookkeeping
<1> QED BY <1>1, <1>2

\* For any number of symbols and slots, any quantities and prices and any
\* sequence of calls and reports, net_position and gross_exposure are the
\* executed amounts plus what the open orders reserve.
THEOREM RiskAlwaysReconciles ==
    ASSUME SingleSymbolIds PROVE Spec => []RiskReconciles
<1>1. Spec => []GatewayInv
  BY GatewayInvariant
<1> QED BY <1>1, AmountsInit, AmountsStep, PTL DEF Spec
=============================================================================
