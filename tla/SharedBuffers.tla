---------------------------- MODULE SharedBuffers ----------------------------
(***************************************************************************)
(* The lock-free containers between cores:                                 *)
(*                                                                         *)
(*  - LockFreeFixedBlockPool of luv_mempool.hpp, a free list of block      *)
(*    indices whose head carries a tag; several threads allocate and       *)
(*    deallocate, each load, link and compare-exchange a step of its own;  *)
(*  - ZeroCopyPacketRing of luv_net_ring.hpp, one producer and one         *)
(*    consumer that move bursts of descriptors;                            *)
(*  - SymbolShardedDispatcher of luv_sharding.hpp, one such ring for each  *)
(*    shard, filled one order at a time by one dispatcher.                 *)
(*                                                                         *)
(* Each side of a ring loads the other's index once, works on that view    *)
(* and publishes its own index in a later step.                            *)
(***************************************************************************)
EXTENDS Integers, Sequences, FiniteSets, SequencesExt

CONSTANTS
    PoolThreads,    \* threads that share the pool
    PoolCapacity,   \* Capacity of the pool; also stands for kInvalidIndex
    MaxSwaps,       \* bound on the successful exchanges, below the tag's wrap
    RingSize,       \* RingSize, and Capacity of a shard's ring
    Bursts,         \* batch sizes asked for
    NumShards,      \* NumShards, a power of two
    ShardSymbols,   \* symbol indices of the orders dispatched
    MaxMoved        \* bound on the items a ring is offered

ASSUME BuffersAssumption ==
    /\ {PoolCapacity, RingSize, NumShards} \subseteq Nat \ {0}
    /\ ShardSymbols \subseteq Nat /\ Bursts \subseteq Nat \ {0}

VARIABLES
    pool,       \* head_ (index and tag) and freelist_
    caller,     \* each thread's place in allocate or deallocate, and its locals
    owned,      \* the blocks each thread was given and has not returned
    rings,      \* head_, tail_ and ring_ of each ring
    tx,         \* each ring's producer: its place, its view of tail_, its items
    rx,         \* each ring's consumer: its place, its view of head_, how many
    accepted,   \* history: the items each ring took, in order
    received    \* history: the items each consumer got, in order

poolVars == <<pool, caller, owned>>
ringVars == <<rings, tx, rx, accepted, received>>
bufferVars == <<poolVars, ringVars>>

Blocks == 0 .. PoolCapacity - 1
kInvalidIndex == PoolCapacity

\* get_shard_index: the low bits of the symbol.
get_shard_index(symbol) == symbol % NumShards

NetRing == NumShards
Rings == 0 .. NumShards

EmptyRing == [head |-> 0, tail |-> 0, slots |-> [i \in 0 .. RingSize - 1 |-> 0]]

PoolInit ==
    /\ pool = [head |-> [index |-> 0, tag |-> 0], freelist |-> [i \in Blocks |-> i + 1]]
    /\ caller = [t \in PoolThreads |->
                    [at |-> "idle", old |-> [index |-> 0, tag |-> 0], next |-> 0, idx |-> 0]]
    /\ owned = [t \in PoolThreads |-> {}]

RingsInit ==
    /\ rings = [r \in Rings |-> EmptyRing]
    /\ tx = [r \in Rings |-> [at |-> "idle", tail |-> 0, items |-> <<>>]]
    /\ rx = [r \in Rings |-> [at |-> "idle", head |-> 0, want |-> 0]]
    /\ accepted = [r \in Rings |-> <<>>]
    /\ received = [r \in Rings |-> <<>>]

BuffersInit == PoolInit /\ RingsInit

-----------------------------------------------------------------------------
Load(t, at) == caller' = [caller EXCEPT ![t].at = at, ![t].old = pool.head]

Leave(t) == caller' = [caller EXCEPT ![t].at = "idle"]

allocate(t) == caller[t].at = "idle" /\ Load(t, "pop") /\ UNCHANGED <<pool, owned>>

\* An empty list returns nullptr; else the successor is read, perhaps after
\* another thread has taken the block and relinked it.
read_next(t) ==
    /\ caller[t].at = "pop"
    /\ IF caller[t].old.index = kInvalidIndex THEN Leave(t)
       ELSE caller' = [caller EXCEPT ![t].at = "pop_swap",
                                     ![t].next = pool.freelist[caller[t].old.index]]
    /\ UNCHANGED <<pool, owned>>

\* Mutant: the tag is not advanced.
SameTag(old, index) == [index |-> index, tag |-> old.tag]

NewHead(old, index) == [index |-> index, tag |-> old.tag + 1]

\* compare_exchange_weak: on success the head moves on.
Swapped(t, index) ==
    /\ pool.head = caller[t].old
    /\ pool.head.tag < MaxSwaps
    /\ pool' = [pool EXCEPT !.head = NewHead(caller[t].old, index)]
    /\ Leave(t)

\* It may fail without a cause; the head is loaded again.
NotSwapped(t, at) == Load(t, at) /\ UNCHANGED <<pool, owned>>

pop_swap(t) ==
    /\ caller[t].at = "pop_swap"
    /\ \/ Swapped(t, caller[t].next) /\ owned' = [owned EXCEPT ![t] = @ \cup {caller[t].old.index}]
       \/ NotSwapped(t, "pop")

deallocate(t, block) ==
    /\ caller[t].at = "idle"
    /\ owned' = [owned EXCEPT ![t] = @ \ {block}]
    /\ caller' = [caller EXCEPT ![t].at = "push", ![t].old = pool.head, ![t].idx = block]
    /\ UNCHANGED pool

link_block(t) ==
    /\ caller[t].at = "push"
    /\ pool' = [pool EXCEPT !.freelist[caller[t].idx] = caller[t].old.index]
    /\ caller' = [caller EXCEPT ![t].at = "push_swap"]
    /\ UNCHANGED owned

push_swap(t) ==
    /\ caller[t].at = "push_swap"
    /\ \/ Swapped(t, caller[t].idx) /\ UNCHANGED owned
       \/ NotSwapped(t, "push")

PoolNext ==
    \E t \in PoolThreads :
        \/ allocate(t) \/ read_next(t) \/ pop_swap(t) \/ link_block(t) \/ push_swap(t)
        \/ \E block \in owned[t] : deallocate(t, block)

-----------------------------------------------------------------------------
\* Mutant: one slot more than there is.
FreeSlotsOver(head, tail) == RingSize - (head - tail) + 1

FreeSlots(head, tail) == RingSize - (head - tail)

Begin(r, items) ==
    /\ tx[r].at = "idle"
    /\ tx' = [tx EXCEPT ![r] = [at |-> "write", tail |-> rings[r].tail, items |-> items]]
    /\ UNCHANGED <<rings, rx, accepted, received>>

\* The first to_write items that fit; the rest stays with the caller.
Fitting(r) ==
    LET free == FreeSlots(rings[r].head, tx[r].tail)
    IN  SubSeq(tx[r].items, 1, IF Len(tx[r].items) < free THEN Len(tx[r].items) ELSE free)

write_slots(r) ==
    LET items == Fitting(r)
        head == rings[r].head
    IN  /\ tx[r].at = "write"
        /\ rings' = [rings EXCEPT ![r].slots = [i \in DOMAIN @ |->
                IF \E k \in DOMAIN items : (head + k - 1) % RingSize = i
                THEN items[CHOOSE k \in DOMAIN items : (head + k - 1) % RingSize = i] ELSE @[i]]]
        /\ tx' = [tx EXCEPT ![r].at = "publish", ![r].items = items]
        /\ UNCHANGED <<rx, accepted, received>>

publish_head(r) ==
    /\ tx[r].at = "publish"
    /\ rings' = [rings EXCEPT ![r].head = @ + Len(tx[r].items)]
    /\ accepted' = [accepted EXCEPT ![r] = @ \o tx[r].items]
    /\ tx' = [tx EXCEPT ![r].at = "idle", ![r].items = <<>>]
    /\ UNCHANGED <<rx, received>>

\* burst_enqueue: descriptors are numbered as they are accepted.
burst_enqueue(count) ==
    /\ Len(accepted[NetRing]) + count <= MaxMoved
    /\ Begin(NetRing, [i \in 1 .. count |-> Len(accepted[NetRing]) + i])

\* push answers false when the view shows a full ring; the dispatcher is one thread.
dispatch(symbol) ==
    LET r == get_shard_index(symbol)
    IN  /\ \A other \in Rings : tx[other].at = "idle"
        /\ Len(accepted[r]) < MaxMoved
        /\ FreeSlots(rings[r].head, rings[r].tail) > 0
        /\ Begin(r, <<symbol>>)

BeginRead(r, want) ==
    /\ rx[r].at = "idle"
    /\ rings[r].head > rings[r].tail
    /\ rx' = [rx EXCEPT ![r] = [at |-> "read", head |-> rings[r].head, want |-> want]]
    /\ UNCHANGED <<rings, tx, accepted, received>>

read_slots(r) ==
    LET tail == rings[r].tail
        available == rx[r].head - tail
        count == IF rx[r].want < available THEN rx[r].want ELSE available
    IN  /\ rx[r].at = "read"
        /\ received' = [received EXCEPT ![r] =
                @ \o [i \in 1 .. count |-> rings[r].slots[(tail + i - 1) % RingSize]]]
        /\ rx' = [rx EXCEPT ![r].at = "publish", ![r].want = count]
        /\ UNCHANGED <<rings, tx, accepted>>

publish_tail(r) ==
    /\ rx[r].at = "publish"
    /\ rings' = [rings EXCEPT ![r].tail = @ + rx[r].want]
    /\ rx' = [rx EXCEPT ![r].at = "idle", ![r].head = 0, ![r].want = 0]
    /\ UNCHANGED <<tx, accepted, received>>

burst_dequeue(max_count) == BeginRead(NetRing, max_count)

poll_shard(r) == r < NumShards /\ BeginRead(r, 1)

Moves(r) == write_slots(r) \/ publish_head(r) \/ read_slots(r) \/ publish_tail(r)

BurstNext ==
    \/ Moves(NetRing)
    \/ \E count \in Bursts : burst_enqueue(count) \/ burst_dequeue(count)

ShardNext ==
    \/ \E symbol \in ShardSymbols : dispatch(symbol)
    \/ \E r \in Rings \ {NetRing} : Moves(r) \/ poll_shard(r)

-----------------------------------------------------------------------------
(***************************************************************************)
(* Properties.                                                             *)
(***************************************************************************)

\* The n-th block of the free list.
NthFree[n \in 0 .. PoolCapacity] ==
    IF n = 0 THEN pool.head.index
    ELSE IF NthFree[n - 1] = kInvalidIndex THEN kInvalidIndex ELSE pool.freelist[NthFree[n - 1]]

Returning(t) == IF caller[t].at \in {"push", "push_swap"} THEN {caller[t].idx} ELSE {}

\* LockFreeFixedBlockPool::allocate and deallocate: however their loads and
\* exchanges interleave, every block is in the free list, with one thread, or on
\* its way back, and never in two places: a block popped and pushed again between
\* a thread's load and its exchange does not make the stale successor the head.
BlocksOwnedOnce ==
    LET free == {NthFree[n] : n \in 0 .. PoolCapacity} \ {kInvalidIndex}
        held == [t \in PoolThreads |-> owned[t] \cup Returning(t)]
    IN  /\ NthFree[PoolCapacity] = kInvalidIndex
        /\ free \cup UNION {held[t] : t \in PoolThreads} = Blocks
        /\ \A t \in PoolThreads :
            /\ held[t] \cap free = {} /\ Returning(t) \cap owned[t] = {}
            /\ \A u \in PoolThreads \ {t} : held[t] \cap held[u] = {}

\* ZeroCopyPacketRing and SpscRingBuffer: with views that lag behind, every
\* consumer gets what its ring accepted, in that order, none lost, overwritten or
\* twice, and a shard only the orders of its own symbols.
RingsInOrder ==
    \A r \in Rings :
        /\ IsPrefix(received[r], accepted[r])
        /\ r # NetRing =>
            \A i \in DOMAIN received[r] : get_shard_index(received[r][i]) = r

\* No block and no item of the lock-free containers is lost or handed out twice.
BuffersSound == BlocksOwnedOnce /\ RingsInOrder
=============================================================================
