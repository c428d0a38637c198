------------------------------ MODULE SPSCRing ------------------------------
(***************************************************************************)
(* The ring between two threads: template SPSCRing of luv_arena.hpp, with  *)
(* StaticSpscQueue of luv_consumer.hpp and sharding::SpscRingBuffer, whose *)
(* push and pop do a claim, a write and a commit, or a peek, a read and a  *)
(* consume, in one call.                                                   *)
(*                                                                         *)
(* Every atomic access and every access to a slot is a step.  A thread     *)
(* reads its own position exactly; of the other's it may get any value not *)
(* older than the last one it got, which is what an acquire or a relaxed   *)
(* load guarantees.  Each position is published by a release store after   *)
(* the accesses to the slot it covers, so a thread that has got it sees    *)
(* those accesses.  A slot is written in place: from the first store until *)
(* the last its content is Torn.  Positions are unsigned words that wrap.  *)
(***************************************************************************)
EXTENDS Integers, Sequences

CONSTANTS
    Values,     \* complete messages
    Torn,       \* the content of a slot that is not a complete message
    Capacity,   \* number of slots
    Words       \* 2^64, the number of values of a position

ASSUME RingAssumption ==
    /\ Torn \notin Values
    /\ Capacity \in Nat \ {0}
    /\ Words \in Nat
    /\ Capacity < Words
    /\ \E k \in 1 .. Words : Words = k * Capacity

VARIABLES
    head,       \* next position to write
    tail,       \* next position to read
    slots,
    writer,     \* where the producer is
    seenTail,   \* the tail the producer got last
    reader,     \* where the consumer is
    seenHead,   \* the head the consumer got last
    held        \* what the slot held when the consumer got its address

producer == <<head, writer, seenTail>>
consumer == <<tail, reader, seenHead, held>>
ringVars == <<head, tail, slots, writer, seenTail, reader, seenHead, held>>

Positions == 0 .. Words - 1

\* The slot of a position: position & kMask.
Index(p) == p % Capacity

\* The difference of two unsigned words.
Distance(p, q) == IF p >= q THEN p - q ELSE p - q + Words

\* Mutant: the position runs on.
PlusUnwrapped(p, n) == p + n

\* The position n places on.
Plus(p, n) == IF p + n >= Words THEN p + n - Words ELSE p + n

\* What a load of a position that is now p may return to a thread that got
\* "seen" before.
Loads(seen, p) == {q \in Positions : Distance(q, seen) <= Distance(p, seen)}

\* size()
size == Distance(head, tail)

RingInit ==
    /\ head = 0 /\ tail = 0
    /\ slots = [i \in 0 .. Capacity - 1 |-> Torn]
    /\ writer = "idle" /\ seenTail = 0
    /\ reader = "idle" /\ seenHead = 0 /\ held = Torn

-----------------------------------------------------------------------------
(***************************************************************************)
(* The producer.                                                           *)
(***************************************************************************)

\* Mutant: the ring takes one message too many.
FullBeyond(t) == Distance(head, t) > Capacity

Full(t) == Distance(head, t) >= Capacity

try_claim(t) ==
    /\ writer = "idle"
    /\ t \in Loads(seenTail, tail) /\ ~Full(t)
    /\ writer' = "claimed" /\ seenTail' = t
    /\ UNCHANGED <<head, slots, consumer>>

\* A load of tail that leaves the producer where it is: size(), or a
\* try_claim() that finds the ring full.
load_tail(t) ==
    /\ writer = "idle"
    /\ t \in Loads(seenTail, tail)
    /\ seenTail' = t
    /\ UNCHANGED <<head, writer, slots, consumer>>

\* The caller of try_claim() fills the slot in place.
begin_write ==
    /\ writer = "claimed"
    /\ writer' = "writing" /\ slots' = [slots EXCEPT ![Index(head)] = Torn]
    /\ UNCHANGED <<head, seenTail, consumer>>

end_write(v) ==
    /\ writer = "writing"
    /\ writer' = "written" /\ slots' = [slots EXCEPT ![Index(head)] = v]
    /\ UNCHANGED <<head, seenTail, consumer>>

\* A claim that is not committed: the slot is claimed again later.
abandon ==
    /\ writer \in {"claimed", "writing"}
    /\ writer' = "idle"
    /\ UNCHANGED <<head, seenTail, slots, consumer>>

\* Mutant: the position is published ahead of the message.
commit_early ==
    /\ writer = "claimed"
    /\ writer' = "idle" /\ head' = Plus(head, 1)
    /\ UNCHANGED <<seenTail, slots, consumer>>

commit ==
    /\ writer = "written"
    /\ writer' = "idle" /\ head' = Plus(head, 1)
    /\ UNCHANGED <<seenTail, slots, consumer>>

-----------------------------------------------------------------------------
(***************************************************************************)
(* The consumer.  It reads the slot in place until it calls consume().     *)
(***************************************************************************)
try_peek(h) ==
    /\ reader = "idle"
    /\ h \in Loads(seenHead, head) /\ h # tail
    /\ reader' = "holding" /\ seenHead' = h /\ held' = slots[Index(tail)]
    /\ UNCHANGED <<tail, slots, producer>>

\* A load of head that leaves the consumer where it is: size(), or a
\* try_peek() that finds the ring empty.
load_head(h) ==
    /\ reader = "idle"
    /\ h \in Loads(seenHead, head)
    /\ seenHead' = h
    /\ UNCHANGED <<tail, reader, held, slots, producer>>

\* Mutant: a message with nothing to do for it is left in the ring.
consume_nothing ==
    /\ reader = "holding"
    /\ reader' = "idle"
    /\ UNCHANGED <<tail, seenHead, held, slots, producer>>

consume ==
    /\ reader = "holding"
    /\ reader' = "idle" /\ tail' = Plus(tail, 1)
    /\ UNCHANGED <<seenHead, held, slots, producer>>

-----------------------------------------------------------------------------
Produce ==
    \/ \E t \in Positions : try_claim(t) \/ load_tail(t)
    \/ begin_write
    \/ \E v \in Values : end_write(v)
    \/ abandon
    \/ commit

Consume ==
    \/ \E h \in Positions : try_peek(h) \/ load_head(h)
    \/ consume

RingNext == Produce \/ Consume

RingSpec == RingInit /\ [][RingNext]_ringVars

-----------------------------------------------------------------------------
RingTypeOK ==
    /\ head \in Positions /\ tail \in Positions
    /\ seenTail \in Positions /\ seenHead \in Positions
    /\ slots \in [0 .. Capacity - 1 -> Values \cup {Torn}]
    /\ writer \in {"idle", "claimed", "writing", "written"}
    /\ reader \in {"idle", "holding"}
    /\ held \in Values \cup {Torn}

\* Whatever the two threads have seen of each other, the slot the consumer is
\* reading in place holds a complete message and is not written to.
HeldIntact ==
    reader = "holding" => held \in Values /\ slots[Index(tail)] = held

\* The order of the positions around the ring, each of the threads' old views
\* included: seenTail, tail, seenHead, head, and seenTail again a lap later.
RingOrder ==
    /\ Distance(tail, seenTail) + Distance(seenHead, tail) + Distance(head, seenHead)
          <= Capacity
    /\ writer # "idle" => Distance(head, seenTail) < Capacity
    /\ reader = "holding" => seenHead # tail

\* The positions between tail and head, and head when it has been written,
\* hold complete messages.
PendingComplete ==
    /\ \A n \in 0 .. size - 1 : slots[Index(Plus(tail, n))] \in Values
    /\ writer = "written" => slots[Index(head)] \in Values

RingInv == RingTypeOK /\ RingOrder /\ PendingComplete /\ HeldIntact

-----------------------------------------------------------------------------
(***************************************************************************)
(* The ring implements the queue.                                          *)
(***************************************************************************)
Pending == [n \in 1 .. size |-> slots[Index(Plus(tail, n - 1))]]

Queue == INSTANCE BoundedQueue WITH queue <- Pending

\* The messages between tail and head are a FIFO queue that a commit extends
\* and a consume shortens; no other step of either thread disturbs it.
ImplementsQueue == Queue!Spec

=============================================================================
