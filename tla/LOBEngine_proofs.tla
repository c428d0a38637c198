-------------------------- MODULE LOBEngine_proofs --------------------------
(***************************************************************************)
(* Proofs about the order book engine, for every number of books, levels,  *)
(* slots, references and prices: after every message the slab, its lists,  *)
(* its totals and the index agree, and the engine implements the abstract  *)
(* book: read along the lists, its levels are queues in time priority.     *)
(*                                                                         *)
(* A handler works on one side, so the argument is about sides: what the   *)
(* binary search finds on rows that are in order, what a shift of rows     *)
(* does to the index, what a slot that is linked or unlinked does to the   *)
(* list of its level.                                                      *)
(*                                                                         *)
(* A level's list is a tour of its active places.  What happens to one     *)
(* slot does one thing to the tour, and so to the queue; inserting and     *)
(* removing an empty level does nothing to any queue.                      *)
(***************************************************************************)
EXTENDS LOBEngine, Induction, FiniteSetTheorems, SequenceTheorems

\* A level's counters are those of its active slots, the other slots are clear.
Counted(level) ==
    /\ level.count = Cardinality(Active(level))
    /\ level.total = TotalQty(level)
    /\ \A i \in Active(level) : level.orders[i].qty > 0
    /\ \A i \in Places : i \notin Active(level) => level.orders[i] = EmptySlot

\* The links of a level, both ways.
Linked(level) ==
    /\ level.head = None <=> Active(level) = {}
    /\ level.head # None => level.head \in Active(level) /\ level.orders[level.head].prev = None
    /\ \A i \in Active(level) :
          /\ level.orders[i].next # None => level.orders[level.orders[i].next].prev = i
          /\ level.orders[i].prev # None => level.orders[level.orders[i].prev].next = i
          /\ level.orders[i].prev = None => level.head = i

\* The links never lead back: places can be numbered so that they ascend.
Ascends(level, rank) ==
    /\ rank \in [Places -> Nat]
    /\ \A i \in Active(level) :
          level.orders[i].next # None => rank[i] < rank[level.orders[i].next]

LevelOK(level) ==
    /\ level \in Level
    /\ Counted(level)
    /\ Linked(level)
    /\ \E rank : Ascends(level, rank)

-----------------------------------------------------------------------------
(***************************************************************************)
(* Totals.                                                                 *)
(***************************************************************************)
LEMMA PlaceType ==
    /\ MaxOrders \in Nat /\ Places \subseteq Nat /\ IsFiniteSet(Places)
    /\ Cardinality(Places) = MaxOrders /\ 0 \in Places
    /\ None \notin Places
<1>1. MaxOrders \in Nat /\ MaxOrders > 0
  BY LOBAssumption
<1>2. IsFiniteSet(Places) /\ Cardinality(Places) = MaxOrders
  BY <1>1, FS_Interval DEF Places
<1> QED BY <1>1, <1>2 DEF Places, None

LEMMA QuantitiesType ==
    ASSUME NEW level \in Level
    PROVE  Quantities(level) \in [1 .. MaxOrders -> Int]
BY PlaceType DEF Quantities, Level, Slot, Active

\* TotalQty is the last of the partial sums.
LEMMA TotalDefined ==
    ASSUME NEW level \in Level
    PROVE  \E f : PartialSums(Quantities(level), f, MaxOrders) /\ TotalQty(level) = f[MaxOrders]
<1> DEFINE sum[n \in 0 .. MaxOrders] == IF n = 0 THEN 0 ELSE sum[n - 1] + Quantities(level)[n]
<1>1. sum = CHOOSE g : g = [n \in 0 .. MaxOrders |->
                                IF n = 0 THEN 0 ELSE g[n - 1] + Quantities(level)[n]]
  OBVIOUS
<1>2. TotalQty(level) = sum[MaxOrders]
  BY Zenon DEF TotalQty
<1> HIDE DEF sum
<1>3. PartialSums(Quantities(level), sum, MaxOrders)
  BY <1>1, PlaceType, QuantitiesType, RecursiveSum
<1> QED BY <1>2, <1>3

\* What an active slot adds to the total.
Share(level, i) == IF i \in Active(level) THEN level.orders[i].qty ELSE 0

\* Two levels that differ in one slot at most.
SlotChanged(old, new, i) ==
    /\ old \in Level /\ new \in Level /\ i \in Places
    /\ \A j \in Places : j # i => Share(new, j) = Share(old, j)

LEMMA TotalChanged ==
    ASSUME NEW old, NEW new, NEW i, SlotChanged(old, new, i)
    PROVE  /\ TotalQty(old) \in Int
           /\ TotalQty(new) = TotalQty(old) - Share(old, i) + Share(new, i)
<1>1. PICK f : PartialSums(Quantities(old), f, MaxOrders) /\ TotalQty(old) = f[MaxOrders]
  BY TotalDefined DEF SlotChanged
<1>2. PICK g : PartialSums(Quantities(new), g, MaxOrders) /\ TotalQty(new) = g[MaxOrders]
  BY TotalDefined DEF SlotChanged
<1>3. Quantities(old) \in [1 .. MaxOrders -> Int] /\ Quantities(new) \in [1 .. MaxOrders -> Int]
  BY QuantitiesType DEF SlotChanged
<1>4. \A n \in 1 .. MaxOrders : /\ Quantities(old)[n] = Share(old, n - 1)
                                /\ Quantities(new)[n] = Share(new, n - 1)
  BY DEF Quantities, Share
<1>5. i \in Nat /\ i + 1 \in 1 .. MaxOrders /\ (i + 1) - 1 = i
  BY PlaceType DEF SlotChanged, Places
<1>6. ASSUME NEW n \in 1 .. MaxOrders, n # i + 1
      PROVE  Quantities(new)[n] = Quantities(old)[n]
  <2>1. n - 1 \in Places /\ n - 1 # i
    BY <1>5, <1>6, PlaceType DEF Places
  <2> QED BY <1>4, <2>1 DEF SlotChanged
<1>7. OneChanged(Quantities(old), Quantities(new), MaxOrders, i + 1)
  BY <1>3, <1>5, <1>6, PlaceType DEF OneChanged
<1>8. /\ f[MaxOrders] \in Int
      /\ g[MaxOrders] = f[MaxOrders] - Quantities(old)[i + 1] + Quantities(new)[i + 1]
  BY <1>1, <1>2, <1>7, SumChanged
<1>9. Quantities(old)[i + 1] = Share(old, i) /\ Quantities(new)[i + 1] = Share(new, i)
  BY <1>4, <1>5
<1> QED BY <1>1, <1>2, <1>8, <1>9

\* Nothing is in an empty level.
LEMMA TotalEmpty ==
    ASSUME NEW level \in Level, Active(level) = {}
    PROVE  TotalQty(level) = 0
<1>1. PICK f : PartialSums(Quantities(level), f, MaxOrders) /\ TotalQty(level) = f[MaxOrders]
  BY TotalDefined
<1>2. Quantities(level) \in [1 .. MaxOrders -> Int]
  BY QuantitiesType
<1>3. \A n \in 1 .. MaxOrders : Quantities(level)[n] = 0
  BY DEF Quantities
<1>4. f[MaxOrders] = 0
  BY <1>1, <1>2, <1>3, PlaceType, SumZero
<1> QED BY <1>1, <1>4

LEMMA ActiveFinite ==
    ASSUME NEW level
    PROVE  /\ Active(level) \subseteq Places
           /\ IsFiniteSet(Active(level)) /\ Cardinality(Active(level)) \in 0 .. MaxOrders
<1>1. Active(level) \in SUBSET Places
  BY DEF Active
<1>2. IsFiniteSet(Active(level)) /\ Cardinality(Active(level)) <= Cardinality(Places)
  BY <1>1, PlaceType, FS_Subset
<1>3. Cardinality(Active(level)) \in Nat
  BY <1>2, FS_CardinalityType
<1> QED BY <1>1, <1>2, <1>3, PlaceType

-----------------------------------------------------------------------------
(***************************************************************************)
(* Lists.                                                                  *)
(***************************************************************************)
LEMMA ClearLevelOK ==
    ASSUME NEW level \in Level, level.total = 0, level.count = 0, level.head = None,
           level.orders = [i \in Places |-> EmptySlot]
    PROVE  LevelOK(level) /\ Active(level) = {}
<1>1. Active(level) = {}
  BY DEF Active, EmptySlot
<1>2. Counted(level)
  BY <1>1, TotalEmpty, FS_EmptySet DEF Counted
<1>3. Linked(level)
  BY <1>1 DEF Linked
<1>4. Ascends(level, [i \in Places |-> 0])
  BY <1>1 DEF Ascends
<1> QED BY <1>1, <1>2, <1>3, <1>4 DEF LevelOK

LEMMA EmptyLevelOK ==
    /\ LevelOK(EmptyLevel) /\ Active(EmptyLevel) = {}
    /\ \A p \in Prices : LET level == [EmptyLevel EXCEPT !.price = p]
                         IN  LevelOK(level) /\ Active(level) = {} /\ level.price = p
<1>1. EmptySlot \in Slot
  BY DEF EmptySlot, Slot
<1>2. EmptyLevel \in Level
  BY <1>1, PlaceType DEF EmptyLevel, Level
<1>3. LevelOK(EmptyLevel) /\ Active(EmptyLevel) = {}
  BY <1>2, ClearLevelOK DEF EmptyLevel
<1>4. ASSUME NEW p \in Prices
      PROVE  LET level == [EmptyLevel EXCEPT !.price = p]
             IN  LevelOK(level) /\ Active(level) = {} /\ level.price = p
  <2> DEFINE level == [EmptyLevel EXCEPT !.price = p]
  <2>1. level \in Level
    BY <1>2 DEF Level
  <2>2. /\ level.total = 0 /\ level.count = 0 /\ level.head = None /\ level.price = p
        /\ level.orders = [i \in Places |-> EmptySlot]
    BY DEF EmptyLevel
  <2> HIDE DEF level
  <2>3. LevelOK(level) /\ Active(level) = {}
    BY <2>1, <2>2, ClearLevelOK
  <2> QED BY <2>2, <2>3 DEF level
<1> QED BY <1>3, <1>4

\* The walk from the head stays in A and ascends.
Walkable(level, A, rank) ==
    /\ level.orders \in [Places -> Slot]
    /\ A \subseteq Places /\ level.head \in A
    /\ rank \in [Places -> Nat]
    /\ \A i \in A : level.orders[i].next # None =>
                        level.orders[i].next \in A /\ rank[i] < rank[level.orders[i].next]

LEMMA WalkSteps ==
    ASSUME NEW level, level.orders \in [Places -> Slot], level.head \in Places
    PROVE  /\ Walk(level) \in [0 .. MaxOrders -> Places] /\ Walk(level)[0] = level.head
           /\ \A n \in Nat : n + 1 <= MaxOrders =>
                 Walk(level)[n + 1] = IF level.orders[Walk(level)[n]].next = None
                                      THEN Walk(level)[n]
                                      ELSE level.orders[Walk(level)[n]].next
<1> DEFINE step == Follow(level)
           walk[k \in 0 .. MaxOrders] == IF k = 0 THEN level.head ELSE Follow(level)[walk[k - 1]]
<1>1. walk = CHOOSE g : g = [n \in 0 .. MaxOrders |-> IF n = 0 THEN level.head ELSE step[g[n - 1]]]
  OBVIOUS
<1>2. Walk(level) = walk
  BY Zenon DEF Walk
<1> HIDE DEF walk
<1>3. step \in [Places -> Places] /\ level.head \in Places
  BY DEF Follow, Slot
<1>4. \A i \in Places : step[i] = IF level.orders[i].next = None THEN i ELSE level.orders[i].next
  BY DEF Follow
<1> HIDE DEF step
<1> DEFINE head == level.head
<1>5. Iterates(walk, step, Places, head, MaxOrders)
  <2>1. walk = CHOOSE g : g = [n \in 0 .. MaxOrders |-> IF n = 0 THEN head ELSE step[g[n - 1]]]
    BY <1>1
  <2> HIDE DEF head
  <2>2. head \in Places
    BY DEF head
  <2>3. MaxOrders \in Nat /\ step \in [Places -> Places]
    BY <1>3, PlaceType
  <2> QED BY ONLY <2>1, <2>2, <2>3, RecursiveLoop
<1>6. ASSUME NEW n \in Nat, n + 1 <= MaxOrders
      PROVE  walk[n + 1] = IF level.orders[walk[n]].next = None THEN walk[n]
                           ELSE level.orders[walk[n]].next
  <2>1. n + 1 \in 1 .. MaxOrders /\ (n + 1) - 1 = n /\ n \in 0 .. MaxOrders
    BY <1>6, PlaceType
  <2> QED BY <1>4, <1>5, <2>1 DEF Iterates
<1>7. walk \in [0 .. MaxOrders -> Places] /\ walk[0] = level.head
  BY <1>5 DEF Iterates
<1> QED BY <1>2, <1>6, <1>7

\* The walk has come to its end after n turns; it has ascended all the way.
Ended(level, n) == level.orders[Walk(level)[n]].next = None
Rising(level, rank, n) ==
    \A m, l \in 0 .. n : m < l => rank[Walk(level)[m]] < rank[Walk(level)[l]]

LEMMA WalkRises ==
    ASSUME NEW level, NEW A, NEW rank, Walkable(level, A, rank)
    PROVE  /\ \A n \in 0 .. MaxOrders : Walk(level)[n] \in A /\ rank[Walk(level)[n]] \in Nat
           /\ \A n \in Nat : n + 1 <= MaxOrders =>
                 Walk(level)[n + 1] = IF Ended(level, n) THEN Walk(level)[n]
                                      ELSE level.orders[Walk(level)[n]].next
           /\ Walk(level)[0] = level.head
           /\ \A n \in 0 .. MaxOrders :
                 (\A m \in 0 .. n : m < n => ~Ended(level, m)) => Rising(level, rank, n)
<1> DEFINE walk == Walk(level)
<1>1. /\ walk \in [0 .. MaxOrders -> Places] /\ walk[0] = level.head
      /\ \A n \in Nat : n + 1 <= MaxOrders =>
            walk[n + 1] = IF Ended(level, n) THEN walk[n] ELSE level.orders[walk[n]].next
  BY WalkSteps DEF Walkable, Ended
<1>2. \A n \in 0 .. MaxOrders : rank[walk[n]] \in Nat
  BY <1>1 DEF Walkable
<1> DEFINE Going(n) == \A m \in 0 .. n : m < n => ~Ended(level, m)
           S == {n \in Nat : n <= MaxOrders =>
                    walk[n] \in A /\ (Going(n) => Rising(level, rank, n))}
<1>3. 0 \in S
  <2>1. walk[0] \in A
    BY <1>1 DEF Walkable
  <2>2. Rising(level, rank, 0)
    BY DEF Rising
  <2> QED BY <2>1, <2>2
<1>4. \A n \in Nat : n \in S => n + 1 \in S
  <2> SUFFICES ASSUME NEW n \in Nat, n \in S, n + 1 <= MaxOrders
               PROVE  walk[n + 1] \in A /\ (Going(n + 1) => Rising(level, rank, n + 1))
    OBVIOUS
  <2>1. walk[n] \in A /\ (Going(n) => Rising(level, rank, n))
    BY PlaceType
  <2>2. walk[n + 1] \in A /\ (~Ended(level, n) => rank[walk[n]] < rank[walk[n + 1]])
    BY <1>1, <2>1 DEF Walkable, Ended
  <2>3. ASSUME Going(n + 1) PROVE Rising(level, rank, n + 1)
    <3>1. ~Ended(level, n) /\ Going(n)
      BY <2>3
    <3>2. rank[walk[n]] < rank[walk[n + 1]] /\ Rising(level, rank, n)
      BY <2>1, <2>2, <3>1
    <3>3. ASSUME NEW m \in 0 .. n + 1, NEW l \in 0 .. n + 1, m < l
          PROVE  rank[walk[m]] < rank[walk[l]]
      <4>1. m \in 0 .. n /\ m \in 0 .. MaxOrders /\ n \in 0 .. MaxOrders /\ n + 1 \in 0 .. MaxOrders
        BY <3>3, PlaceType
      <4>2. rank[walk[m]] \in Nat /\ rank[walk[n]] \in Nat /\ rank[walk[n + 1]] \in Nat
        BY <1>2, <4>1
      <4>3. CASE l # n + 1
        <5>1. l \in 0 .. n
          BY <4>3
        <5> QED BY <3>2, <3>3, <4>1, <5>1 DEF Rising
      <4>4. CASE l = n + 1 /\ m = n
        BY <3>2, <4>4
      <4>5. CASE l = n + 1 /\ m # n
        <5>1. n \in 0 .. n /\ m < n
          BY <4>1, <4>5
        <5>2. rank[walk[m]] < rank[walk[n]]
          BY <3>2, <4>1, <5>1 DEF Rising
        <5> QED BY <3>2, <4>2, <4>5, <5>2
      <4> QED BY <4>3, <4>4, <4>5
    <3> QED BY <3>3 DEF Rising
  <2> QED BY <2>2, <2>3
<1>5. \A n \in Nat : n \in S
  <2> HIDE DEF S
  <2> QED BY <1>3, <1>4, NatSetInduction
<1>6. \A n \in 0 .. MaxOrders : walk[n] \in A /\ (Going(n) => Rising(level, rank, n))
  BY <1>5
<1> QED BY <1>1, <1>2, <1>6

\* It comes to its end: a walk that ascends meets no place twice, and there
\* are not more places than turns.
LEMMA WalkEnds ==
    ASSUME NEW level, NEW A, NEW rank, Walkable(level, A, rank)
    PROVE  \E n \in 0 .. MaxOrders - 1 : /\ Ended(level, n)
                                         /\ \A m \in 0 .. n : m < n => ~Ended(level, m)
<1> DEFINE walk == Walk(level)
           T == {n \in Nat : n < MaxOrders /\ Ended(level, n)}
<1>1. T # {}
  <2> SUFFICES ASSUME T = {} PROVE FALSE
    OBVIOUS
  <2>1. \A m \in 0 .. MaxOrders : m < MaxOrders => ~Ended(level, m)
    BY PlaceType
  <2>2. MaxOrders \in 0 .. MaxOrders
    BY PlaceType
  <2>3. Rising(level, rank, MaxOrders)
    BY <2>1, <2>2, WalkRises
  <2>4. walk \in [0 .. MaxOrders -> Places]
    BY WalkSteps DEF Walkable
  <2>5. IsFiniteSet(0 .. MaxOrders) /\ Cardinality(0 .. MaxOrders) = MaxOrders + 1
    BY PlaceType, FS_Interval
  <2>6. PICK m \in 0 .. MaxOrders, l \in 0 .. MaxOrders : m # l /\ walk[m] = walk[l]
    <3>1. Cardinality(Places) < Cardinality(0 .. MaxOrders)
      BY <2>5, PlaceType
    <3> QED BY <2>4, <2>5, <3>1, PlaceType, FS_PigeonHole
  <2>7. m < l \/ l < m
    BY <2>6, PlaceType
  <2>8. rank[walk[m]] \in Nat /\ rank[walk[l]] = rank[walk[m]]
    BY <2>6, WalkRises
  <2> QED BY <2>3, <2>7, <2>8 DEF Rising
<1>2. PICK n \in T : \A m \in T : n <= m
  <2>1. T \subseteq Nat
    OBVIOUS
  <2> HIDE DEF T
  <2> QED BY <1>1, <2>1, LeastNumber
<1>3. n \in 0 .. MaxOrders - 1 /\ Ended(level, n)
  BY PlaceType
<1>4. \A m \in 0 .. n : m < n => ~Ended(level, m)
  BY <1>2, <1>3, PlaceType
<1> QED BY <1>3, <1>4

\* From its end on, the walk stays.
LEMMA WalkStays ==
    ASSUME NEW level, NEW A, NEW rank, Walkable(level, A, rank),
           NEW n \in 0 .. MaxOrders, Ended(level, n)
    PROVE  \A m \in n .. MaxOrders : Walk(level)[m] = Walk(level)[n]
<1> DEFINE S == {j \in Nat : n + j <= MaxOrders => Walk(level)[n + j] = Walk(level)[n]}
<1>1. 0 \in S
  OBVIOUS
<1>2. \A j \in Nat : j \in S => j + 1 \in S
  <2> SUFFICES ASSUME NEW j \in Nat, j \in S, n + (j + 1) <= MaxOrders
               PROVE  Walk(level)[n + (j + 1)] = Walk(level)[n]
    OBVIOUS
  <2>1. Walk(level)[n + j] = Walk(level)[n] /\ n + j \in Nat /\ n + (j + 1) = (n + j) + 1
    BY PlaceType
  <2>2. Ended(level, n + j)
    BY <2>1 DEF Ended
  <2>3. Walk(level)[(n + j) + 1] = Walk(level)[n + j]
    BY <2>1, <2>2, WalkRises
  <2> QED BY <2>1, <2>3
<1>3. \A j \in Nat : j \in S
  <2> HIDE DEF S
  <2> QED BY <1>1, <1>2, NatSetInduction
<1>4. ASSUME NEW m \in n .. MaxOrders PROVE Walk(level)[m] = Walk(level)[n]
  <2>1. m - n \in Nat /\ n + (m - n) = m /\ m <= MaxOrders
    BY PlaceType
  <2>2. m - n \in S
    BY <1>3, <2>1
  <2> QED BY <2>1, <2>2
<1> QED BY <1>4

LEMMA TailFound ==
    ASSUME NEW level, NEW A, NEW rank, Walkable(level, A, rank)
    PROVE  TailOf(level) \in A /\ level.orders[TailOf(level)].next = None
<1>1. PICK n \in 0 .. MaxOrders - 1 : Ended(level, n)
  BY WalkEnds
<1>2. n \in 0 .. MaxOrders /\ MaxOrders \in n .. MaxOrders /\ MaxOrders \in 0 .. MaxOrders
  BY PlaceType
<1>3. TailOf(level) = Walk(level)[n]
  BY <1>1, <1>2, WalkStays DEF TailOf
<1> QED BY <1>1, <1>2, <1>3, WalkRises DEF Ended

-----------------------------------------------------------------------------
(***************************************************************************)
(* A slot that enters a level, shrinks in it or leaves it.                 *)
(***************************************************************************)

\* The neighbours of an active slot are active, and no slot is its own
\* neighbour or has one neighbour on both sides.
LEMMA Neighbours ==
    ASSUME NEW level, LevelOK(level), NEW i \in Active(level)
    PROVE  LET p == level.orders[i].prev
               n == level.orders[i].next
           IN  /\ p # None => p \in Active(level) /\ p # i
               /\ n # None => n \in Active(level) /\ n # i
               /\ p # None => p # n
<1>1. PICK rank : Ascends(level, rank)
  BY DEF LevelOK
<1> DEFINE p == level.orders[i].prev
           n == level.orders[i].next
<1>2. i \in Places /\ level.orders \in [Places -> Slot]
  BY DEF LevelOK, Level, Active
<1>2a. p \in Places \cup {None} /\ n \in Places \cup {None}
  BY <1>2 DEF Slot
<1>3. /\ p # None => level.orders[p].next = i
      /\ n # None => level.orders[n].prev = i
  BY DEF LevelOK, Linked
<1>4. i # None
  BY <1>2, PlaceType
<1>5. \A j \in Places : j \notin Active(level) =>
          level.orders[j].next = None /\ level.orders[j].prev = None
  BY DEF LevelOK, Counted, EmptySlot
<1>6. /\ p # None => p \in Active(level)
      /\ n # None => n \in Active(level)
  BY <1>2a, <1>3, <1>4, <1>5
<1>7. /\ p # None => rank[p] < rank[i]
      /\ n # None => rank[i] < rank[n]
  BY <1>1, <1>3, <1>4, <1>6 DEF Ascends
<1>8. /\ rank[i] \in Nat
      /\ p # None => rank[p] \in Nat
      /\ n # None => rank[n] \in Nat
  BY <1>1, <1>2, <1>2a DEF Ascends
<1> HIDE DEF p, n
<1>9. /\ p # None => p # i
      /\ n # None => n # i
      /\ p # None => p # n
  BY <1>7, <1>8
<1> QED BY <1>6, <1>9 DEF p, n

\* Slot j of new is slot j of old.
SameSlot(old, new, j) == new.orders[j] = old.orders[j]

\* new is old with an order in place i, at the end of the list.
Entered(old, new, i, r, q) ==
    /\ new \in Level /\ i \in Places /\ i \notin Active(old)
    /\ r \in Refs /\ q \in Qtys
    /\ new.total = old.total + q /\ new.count = old.count + 1
    /\ new.orders[i].ref = r /\ new.orders[i].qty = q /\ new.orders[i].next = None
    /\ \/ /\ old.head = None /\ new.head = i /\ new.orders[i].prev = None
          /\ \A j \in Places : j # i => SameSlot(old, new, j)
       \/ \E t \in Active(old) :
             /\ old.orders[t].next = None
             /\ old.head # None /\ new.head = old.head /\ new.orders[i].prev = t
             /\ new.orders[t].ref = old.orders[t].ref /\ new.orders[t].qty = old.orders[t].qty
             /\ new.orders[t].prev = old.orders[t].prev /\ new.orders[t].next = i
             /\ \A j \in Places : j # i /\ j # t => SameSlot(old, new, j)

LEMMA EnteredKeeps ==
    ASSUME NEW old, NEW new, NEW i, NEW r, NEW q, LevelOK(old), Entered(old, new, i, r, q)
    PROVE  /\ Active(new) = Active(old) \cup {i}
           /\ \A j \in Places : j # i => /\ new.orders[j].ref = old.orders[j].ref
                                         /\ new.orders[j].qty = old.orders[j].qty
           /\ \A j \in Places : j # i /\ j \notin Active(old) => SameSlot(old, new, j)
<1>1. \A j \in Places : j # i => /\ new.orders[j].ref = old.orders[j].ref
                                 /\ new.orders[j].qty = old.orders[j].qty
  BY DEF Entered, SameSlot
<1>2. i \in Places /\ new.orders[i].ref # NoRef
  BY LOBAssumption DEF Entered
<1>3. Active(new) = Active(old) \cup {i}
  BY <1>1, <1>2 DEF Active
<1>4. \A j \in Places : j # i /\ j \notin Active(old) => SameSlot(old, new, j)
  BY DEF Entered
<1> QED BY <1>1, <1>3, <1>4

LEMMA EnteredOK ==
    ASSUME NEW old, NEW new, NEW i, NEW r, NEW q, LevelOK(old), Entered(old, new, i, r, q)
    PROVE  LevelOK(new) /\ new.count > 0
<1>1. /\ Active(new) = Active(old) \cup {i}
      /\ \A j \in Places : j # i => /\ new.orders[j].ref = old.orders[j].ref
                                    /\ new.orders[j].qty = old.orders[j].qty
      /\ \A j \in Places : j # i /\ j \notin Active(old) => SameSlot(old, new, j)
  BY EnteredKeeps
<1>2. /\ i \in Places /\ i \notin Active(old) /\ new \in Level /\ old \in Level
      /\ new.orders[i].qty = q /\ q \in Nat /\ q > 0
  BY LOBAssumption DEF Entered, LevelOK
<1>3. Counted(new) /\ new.count > 0
  <2>1. Cardinality(Active(new)) = Cardinality(Active(old)) + 1
    BY <1>1, <1>2, ActiveFinite, FS_AddElement
  <2>2. SlotChanged(old, new, i)
    BY <1>1, <1>2 DEF SlotChanged, Share
  <2>3. Share(old, i) = 0 /\ Share(new, i) = q
    BY <1>1, <1>2 DEF Share
  <2>4. TotalQty(old) \in Int /\ TotalQty(new) = TotalQty(old) - 0 + q
    BY <2>2, <2>3, TotalChanged
  <2>5. old.count = Cardinality(Active(old)) /\ old.total = TotalQty(old)
    BY DEF LevelOK, Counted
  <2>6. new.total = old.total + q /\ new.count = old.count + 1
    BY DEF Entered
  <2>7. new.count = Cardinality(Active(new)) /\ new.total = TotalQty(new) /\ new.count > 0
    BY <1>2, <2>1, <2>4, <2>5, <2>6, ActiveFinite
  <2>8. \A j \in Active(new) : new.orders[j].qty > 0
    <3>1. \A j \in Active(old) : old.orders[j].qty > 0 /\ j \in Places
      BY DEF LevelOK, Counted, Active
    <3> QED BY <1>1, <1>2, <3>1
  <2>9. \A j \in Places : j \notin Active(new) => new.orders[j] = EmptySlot
    BY <1>1 DEF LevelOK, Counted, SameSlot
  <2> QED BY <2>7, <2>8, <2>9 DEF Counted
<1>4. PICK rank : Ascends(old, rank)
  BY DEF LevelOK
<1>5. Linked(old)
  BY DEF LevelOK
<1>6. \A j \in Active(old) : /\ j \in Places /\ j # i /\ j # None
                             /\ old.orders[j].next # None => old.orders[j].next \in Active(old)
                             /\ old.orders[j].prev # None => old.orders[j].prev \in Active(old)
  BY <1>2, PlaceType, Neighbours DEF Active
<1>7. CASE old.head = None
  <2>1. Active(old) = {}
    BY <1>5, <1>7 DEF Linked
  <2>2. new.head = i /\ new.orders[i].prev = None /\ new.orders[i].next = None
    BY <1>7 DEF Entered
  <2>3. Linked(new)
    BY <1>1, <1>2, <2>1, <2>2, PlaceType DEF Linked
  <2>4. Ascends(new, rank)
    BY <1>1, <1>4, <2>1, <2>2 DEF Ascends
  <2> QED BY <1>2, <1>3, <2>3, <2>4 DEF LevelOK
<1>8. CASE old.head # None
  <2>1. PICK t \in Active(old) :
             /\ old.orders[t].next = None
             /\ new.head = old.head /\ new.orders[i].prev = t
             /\ new.orders[t].prev = old.orders[t].prev /\ new.orders[t].next = i
             /\ \A j \in Places : j # i /\ j # t => SameSlot(old, new, j)
    BY <1>8 DEF Entered
  <2>2. new.orders[i].next = None
    BY DEF Entered
  <2>3. \A j \in Active(old) : /\ new.orders[j].prev = old.orders[j].prev
                               /\ j # t => new.orders[j].next = old.orders[j].next
    BY <1>6, <2>1 DEF SameSlot
  <2>4. Linked(new)
    <3>1. new.head \in Active(new) /\ new.orders[new.head].prev = None /\ new.head # None
      BY <1>1, <1>5, <1>8, <2>1, <2>3 DEF Linked
    <3>2. ASSUME NEW j \in Active(new)
          PROVE  /\ new.orders[j].next # None => new.orders[new.orders[j].next].prev = j
                 /\ new.orders[j].prev # None => new.orders[new.orders[j].prev].next = j
                 /\ new.orders[j].prev = None => new.head = j
      <4>1. CASE j = i
        BY <1>6, <2>1, <2>2, <4>1
      <4>2. CASE j # i
        <5>1. j \in Active(old)
          BY <1>1, <4>2
        <5>2. new.orders[j].next # None => new.orders[new.orders[j].next].prev = j
          <6>1. CASE j = t
            BY <2>1, <6>1
          <6>2. CASE j # t
            <7>1. new.orders[j].next = old.orders[j].next
              BY <2>3, <5>1, <6>2
            <7> QED BY <1>5, <1>6, <2>3, <5>1, <7>1 DEF Linked
          <6> QED BY <6>1, <6>2
        <5>3. new.orders[j].prev # None => new.orders[new.orders[j].prev].next = j
          <6> SUFFICES ASSUME new.orders[j].prev # None
                       PROVE  new.orders[new.orders[j].prev].next = j
            OBVIOUS
          <6>1. new.orders[j].prev = old.orders[j].prev
            BY <2>3, <5>1
          <6>2. old.orders[old.orders[j].prev].next = j /\ old.orders[j].prev \in Active(old)
            BY <1>5, <1>6, <5>1, <6>1 DEF Linked
          <6>3. old.orders[j].prev # t
            BY <1>6, <2>1, <5>1, <6>2
          <6> QED BY <2>3, <6>1, <6>2, <6>3
        <5>4. new.orders[j].prev = None => new.head = j
          BY <1>5, <2>1, <2>3, <5>1 DEF Linked
        <5> QED BY <5>2, <5>3, <5>4
      <4> QED BY <4>1, <4>2
    <3> QED BY <3>1, <3>2 DEF Linked
  <2>5. \E new_rank : Ascends(new, new_rank)
    <3> DEFINE up == [rank EXCEPT ![i] = rank[t] + 1]
    <3>1. up \in [Places -> Nat] /\ up[i] = rank[t] + 1 /\ rank[t] \in Nat
      BY <1>2, <1>4, <1>6, <2>1 DEF Ascends
    <3>2. \A j \in Places : j # i => up[j] = rank[j]
      BY <1>4 DEF Ascends
    <3>3. ASSUME NEW j \in Active(new), new.orders[j].next # None
          PROVE  up[j] < up[new.orders[j].next]
      <4>1. j # i /\ j \in Active(old)
        BY <1>1, <2>2, <3>3
      <4>2. CASE j = t
        <5>1. up[j] = rank[t] /\ new.orders[j].next = i
          BY <1>6, <2>1, <3>2, <4>1, <4>2
        <5> QED BY <3>1, <5>1
      <4>3. CASE j # t
        <5>1. new.orders[j].next = old.orders[j].next
          BY <2>3, <4>1, <4>3
        <5>2. rank[j] < rank[old.orders[j].next]
          BY <1>4, <3>3, <4>1, <5>1 DEF Ascends
        <5>3. up[j] = rank[j] /\ up[old.orders[j].next] = rank[old.orders[j].next]
          BY <1>6, <3>2, <3>3, <4>1, <5>1
        <5> QED BY <5>1, <5>2, <5>3
      <4> QED BY <4>2, <4>3
    <3> HIDE DEF up
    <3>4. Ascends(new, up)
      BY <3>1, <3>3 DEF Ascends
    <3> QED BY <3>4
  <2> QED BY <1>2, <1>3, <2>4, <2>5 DEF LevelOK
<1> QED BY <1>3, <1>7, <1>8

\* new is old with d less in the order of place i, which keeps some.
Shrunk(old, new, i, d) ==
    /\ new \in Level /\ i \in Active(old)
    /\ d \in Nat /\ d < old.orders[i].qty
    /\ new.total = old.total - d /\ new.count = old.count /\ new.head = old.head
    /\ new.orders[i].ref = old.orders[i].ref /\ new.orders[i].qty = old.orders[i].qty - d
    /\ new.orders[i].next = old.orders[i].next /\ new.orders[i].prev = old.orders[i].prev
    /\ \A j \in Places : j # i => SameSlot(old, new, j)

LEMMA ShrunkOK ==
    ASSUME NEW old, NEW new, NEW i, NEW d, LevelOK(old), Shrunk(old, new, i, d)
    PROVE  LevelOK(new) /\ \A j \in Places : new.orders[j].ref = old.orders[j].ref
<1>1. /\ i \in Places /\ i \in Active(old) /\ new \in Level /\ old \in Level
      /\ \A j \in Places : /\ new.orders[j].ref = old.orders[j].ref
                           /\ new.orders[j].next = old.orders[j].next
                           /\ new.orders[j].prev = old.orders[j].prev
      /\ \A j \in Places : j # i => new.orders[j] = old.orders[j]
  BY DEF Shrunk, SameSlot, LevelOK, Active
<1>2. Active(new) = Active(old)
  BY <1>1 DEF Active
<1>3. old.orders[i].qty \in Nat
  BY <1>1 DEF Level, Slot
<1>4. Counted(new)
  <2>1. SlotChanged(old, new, i)
    BY <1>1, <1>2 DEF SlotChanged, Share
  <2>2. Share(old, i) = old.orders[i].qty /\ Share(new, i) = old.orders[i].qty - d
    BY <1>1, <1>2 DEF Share, Shrunk
  <2>3. /\ TotalQty(old) \in Int
        /\ TotalQty(new) = TotalQty(old) - old.orders[i].qty + (old.orders[i].qty - d)
    BY <2>1, <2>2, TotalChanged
  <2>4. old.count = Cardinality(Active(old)) /\ old.total = TotalQty(old)
    BY DEF LevelOK, Counted
  <2>5. new.total = old.total - d /\ new.count = old.count /\ d \in Nat
    BY DEF Shrunk
  <2>6. new.total = TotalQty(new)
    BY <1>3, <2>3, <2>4, <2>5
  <2>7. \A j \in Active(new) : new.orders[j].qty > 0
    <3>1. new.orders[i].qty > 0
      BY <1>3 DEF Shrunk
    <3>2. \A j \in Active(old) : old.orders[j].qty > 0 /\ j \in Places
      BY DEF LevelOK, Counted, Active
    <3> QED BY <1>1, <1>2, <3>1, <3>2
  <2>8. \A j \in Places : j \notin Active(new) => new.orders[j] = EmptySlot
    BY <1>1, <1>2 DEF LevelOK, Counted
  <2> QED BY <1>2, <2>4, <2>5, <2>6, <2>7, <2>8 DEF Counted
<1>5. \A j \in Active(old) : /\ j \in Places
                             /\ old.orders[j].next # None => old.orders[j].next \in Places
                             /\ old.orders[j].prev # None => old.orders[j].prev \in Places
  BY Neighbours DEF Active
<1>6. Linked(new)
  <2>1. Linked(old) /\ new.head = old.head
    BY DEF LevelOK, Shrunk
  <2>2. new.head # None => new.head \in Places
    BY <2>1 DEF Linked, Active
  <2> QED BY <1>1, <1>2, <1>5, <2>1, <2>2 DEF Linked
<1>7. PICK rank : Ascends(old, rank)
  BY DEF LevelOK
<1>8. Ascends(new, rank)
  BY <1>1, <1>2, <1>5, <1>7 DEF Ascends
<1> QED BY <1>1, <1>4, <1>6, <1>8 DEF LevelOK

\* new is old without the order of place i.
Left(old, new, i) ==
    /\ new \in Level /\ i \in Active(old)
    /\ new.total = old.total - old.orders[i].qty /\ new.count = old.count - 1
    /\ new.head = IF old.orders[i].prev = None THEN old.orders[i].next ELSE old.head
    /\ new.orders[i] = EmptySlot
    /\ \A j \in Places :
          j # i => /\ new.orders[j].ref = old.orders[j].ref
                   /\ new.orders[j].qty = old.orders[j].qty
                   /\ new.orders[j].next = IF j = old.orders[i].prev THEN old.orders[i].next
                                           ELSE old.orders[j].next
                   /\ new.orders[j].prev = IF j = old.orders[i].next THEN old.orders[i].prev
                                           ELSE old.orders[j].prev
    /\ \A j \in Places :
          j # i /\ j # old.orders[i].prev /\ j # old.orders[i].next => SameSlot(old, new, j)

LEMMA LeftKeeps ==
    ASSUME NEW old, NEW new, NEW i, LevelOK(old), Left(old, new, i)
    PROVE  /\ Active(new) = Active(old) \ {i} /\ i \in Places
           /\ \A j \in Places : j # i => /\ new.orders[j].ref = old.orders[j].ref
                                         /\ new.orders[j].qty = old.orders[j].qty
           /\ \A j \in Places : j # i /\ j \notin Active(old) => SameSlot(old, new, j)
<1>1. \A j \in Places : j # i => /\ new.orders[j].ref = old.orders[j].ref
                                 /\ new.orders[j].qty = old.orders[j].qty
  BY DEF Left
<1>2. i \in Places /\ new.orders[i].ref = NoRef
  BY DEF Left, EmptySlot, Active
<1>3. Active(new) = Active(old) \ {i}
  BY <1>1, <1>2 DEF Active
<1>4. ASSUME NEW j \in Places, j # i, j \notin Active(old) PROVE SameSlot(old, new, j)
  <2>1. j # None /\ i \in Active(old)
    BY PlaceType DEF Left
  <2>2. j # old.orders[i].prev /\ j # old.orders[i].next
    BY <1>4, <2>1, Neighbours
  <2> QED BY <1>4, <2>2 DEF Left
<1> QED BY <1>1, <1>2, <1>3, <1>4

LEMMA LeftOK ==
    ASSUME NEW old, NEW new, NEW i, LevelOK(old), Left(old, new, i)
    PROVE  LevelOK(new)
<1>1. /\ Active(new) = Active(old) \ {i} /\ i \in Places
      /\ \A j \in Places : j # i => /\ new.orders[j].ref = old.orders[j].ref
                                    /\ new.orders[j].qty = old.orders[j].qty
      /\ \A j \in Places : j # i /\ j \notin Active(old) => SameSlot(old, new, j)
  BY LeftKeeps
<1>2. /\ i \in Active(old) /\ new \in Level /\ old \in Level
      /\ old.orders[i].qty \in Nat
  BY <1>1 DEF Left, LevelOK, Level, Slot
<1>3. Counted(new)
  <2>1. Cardinality(Active(new)) = Cardinality(Active(old)) - 1
    BY <1>1, <1>2, ActiveFinite, FS_RemoveElement
  <2>2. SlotChanged(old, new, i)
    BY <1>1, <1>2 DEF SlotChanged, Share
  <2>3. Share(old, i) = old.orders[i].qty /\ Share(new, i) = 0
    BY <1>1, <1>2 DEF Share
  <2>4. TotalQty(old) \in Int /\ TotalQty(new) = TotalQty(old) - old.orders[i].qty + 0
    BY <2>2, <2>3, TotalChanged
  <2>5. old.count = Cardinality(Active(old)) /\ old.total = TotalQty(old)
    BY DEF LevelOK, Counted
  <2>6. new.total = old.total - old.orders[i].qty /\ new.count = old.count - 1
    BY DEF Left
  <2>7. new.count = Cardinality(Active(new)) /\ new.total = TotalQty(new)
    BY <1>2, <2>1, <2>4, <2>5, <2>6
  <2>8. \A j \in Active(new) : new.orders[j].qty > 0
    <3>1. \A j \in Active(old) : old.orders[j].qty > 0 /\ j \in Places
      BY DEF LevelOK, Counted, Active
    <3> QED BY <1>1, <3>1
  <2>9. \A j \in Places : j \notin Active(new) => new.orders[j] = EmptySlot
    <3>1. new.orders[i] = EmptySlot
      BY DEF Left
    <3> QED BY <1>1, <3>1 DEF LevelOK, Counted, SameSlot
  <2> QED BY <2>7, <2>8, <2>9 DEF Counted
<1> DEFINE p == old.orders[i].prev
           n == old.orders[i].next
<1>4. /\ p # None => p \in Active(old) /\ p # i /\ p # n /\ old.orders[p].next = i
      /\ n # None => n \in Active(old) /\ n # i /\ p # n /\ old.orders[n].prev = i
      /\ p = None => old.head = i
  BY <1>2, Neighbours DEF LevelOK, Linked
<1>5. \A j \in Active(new) : /\ j \in Active(old) /\ j \in Places /\ j # i /\ j # None
                             /\ new.orders[j].next = IF j = p THEN n ELSE old.orders[j].next
                             /\ new.orders[j].prev = IF j = n THEN p ELSE old.orders[j].prev
  BY <1>1, PlaceType DEF Left, Active
<1>6. \A j \in Active(old) : /\ old.orders[j].next # None =>
                                    /\ old.orders[j].next \in Active(old)
                                    /\ old.orders[old.orders[j].next].prev = j
                             /\ old.orders[j].prev # None =>
                                    /\ old.orders[j].prev \in Active(old)
                                    /\ old.orders[old.orders[j].prev].next = j
                             /\ old.orders[j].prev = None => old.head = j
  BY Neighbours DEF LevelOK, Linked
<1>7. new.head = IF p = None THEN n ELSE old.head
  BY DEF Left
<1> HIDE DEF p, n
<1>8. Linked(new)
  <2>1. new.head = None <=> Active(new) = {}
    <3>1. old.head # None /\ old.head \in Active(old)
      BY <1>2 DEF LevelOK, Linked
    <3>2. CASE p # None
      BY <1>1, <1>4, <1>7, <3>1, <3>2
    <3>3. CASE p = None /\ n # None
      BY <1>1, <1>4, <1>7, <3>3
    <3>4. CASE p = None /\ n = None
      <4>1. new.head = None
        BY <1>7, <3>4
      <4>2. old.orders[i].next = None /\ old.orders[i].prev = None /\ old.head = i
        BY <1>4, <3>4 DEF p, n
      <4>3. Active(new) = {}
        <5> SUFFICES ASSUME NEW j0 \in Active(new) PROVE FALSE
          OBVIOUS
        <5>1. PICK rank : Ascends(old, rank)
          BY DEF LevelOK
        \* Of the slots left, the one with the least number would have a
        \* follower's number below it.
        <5> DEFINE R == {rank[j] : j \in Active(new)}
        <5>2. R \subseteq Nat /\ R # {}
          BY <1>5, <5>1 DEF Ascends
        <5>3. PICK j \in Active(new) : \A m \in Active(new) : rank[j] <= rank[m]
          <6>1. PICK x \in R : \A y \in R : x <= y
            <7> HIDE DEF R
            <7> QED BY <5>2, LeastNumber
          <6> QED BY <6>1
        <5>4. j \in Active(old) /\ j # i
          BY <1>5
        <5>5. old.orders[j].prev # None
          BY <1>6, <4>2, <5>4
        <5>6. /\ old.orders[j].prev \in Active(old)
              /\ old.orders[old.orders[j].prev].next = j
          BY <1>6, <5>4, <5>5
        <5>7. old.orders[j].prev # i /\ j # None
          BY <1>5, <4>2, <5>6
        <5>8. old.orders[j].prev \in Active(new) /\ rank[old.orders[j].prev] < rank[j]
          BY <1>1, <5>1, <5>6, <5>7 DEF Ascends
        <5>9. rank[j] \in Nat /\ rank[old.orders[j].prev] \in Nat
          BY <1>5, <5>1, <5>8 DEF Ascends
        <5> QED BY <5>3, <5>8, <5>9
      <4> QED BY <4>1, <4>3
    <3> QED BY <3>2, <3>3, <3>4
  <2>2. new.head # None => new.head \in Active(new) /\ new.orders[new.head].prev = None
    <3>1. old.head # None /\ old.head \in Active(old) /\ old.orders[old.head].prev = None
      BY <1>2 DEF LevelOK, Linked
    <3>2. CASE p = None
      <4> SUFFICES ASSUME n # None PROVE n \in Active(new) /\ new.orders[n].prev = None
        BY <1>7, <3>2
      <4>1. n \in Active(new)
        BY <1>1, <1>4
      <4> QED BY <1>5, <3>2, <4>1
    <3>3. CASE p # None
      <4>1. old.head # i /\ old.head # n
        BY <1>2, <1>4, <1>6, <3>1, <3>3, PlaceType DEF p, Active
      <4>2. old.head \in Active(new)
        BY <1>1, <3>1, <4>1
      <4> QED BY <1>5, <1>7, <3>1, <3>3, <4>1, <4>2
    <3> QED BY <3>2, <3>3
  <2>3. ASSUME NEW j \in Active(new)
        PROVE  /\ new.orders[j].next # None => new.orders[new.orders[j].next].prev = j
               /\ new.orders[j].prev # None => new.orders[new.orders[j].prev].next = j
               /\ new.orders[j].prev = None => new.head = j
    <3>1. new.orders[j].next # None => new.orders[new.orders[j].next].prev = j
      <4>1. CASE j = p
        <5>1. new.orders[j].next = n /\ j # None
          BY <1>5, <4>1
        <5>2. n # None => n \in Active(new)
          BY <1>1, <1>4
        <5> QED BY <1>5, <4>1, <5>1, <5>2
      <4>2. CASE j # p
        <5> SUFFICES ASSUME new.orders[j].next # None
                     PROVE  new.orders[new.orders[j].next].prev = j
          OBVIOUS
        <5>1. new.orders[j].next = old.orders[j].next
          BY <1>5, <4>2
        <5>2. /\ old.orders[j].next \in Active(old)
              /\ old.orders[old.orders[j].next].prev = j
          BY <1>5, <1>6, <5>1
        <5>3. old.orders[j].next # i /\ old.orders[j].next # n
          BY <1>4, <1>5, <4>2, <5>1, <5>2 DEF p
        <5>4. old.orders[j].next \in Active(new)
          BY <1>1, <5>2, <5>3
        <5> QED BY <1>5, <5>1, <5>2, <5>3, <5>4
      <4> QED BY <4>1, <4>2
    <3>2. new.orders[j].prev # None => new.orders[new.orders[j].prev].next = j
      <4>1. CASE j = n
        <5>1. new.orders[j].prev = p /\ j # None
          BY <1>5, <4>1
        <5>2. p # None => p \in Active(new)
          BY <1>1, <1>4
        <5> QED BY <1>5, <4>1, <5>1, <5>2
      <4>2. CASE j # n
        <5> SUFFICES ASSUME new.orders[j].prev # None
                     PROVE  new.orders[new.orders[j].prev].next = j
          OBVIOUS
        <5>1. new.orders[j].prev = old.orders[j].prev
          BY <1>5, <4>2
        <5>2. /\ old.orders[j].prev \in Active(old)
              /\ old.orders[old.orders[j].prev].next = j
          BY <1>5, <1>6, <5>1
        <5>3. old.orders[j].prev # i /\ old.orders[j].prev # p
          BY <1>4, <1>5, <4>2, <5>1, <5>2 DEF n
        <5>4. old.orders[j].prev \in Active(new)
          BY <1>1, <5>2, <5>3
        <5> QED BY <1>5, <5>1, <5>2, <5>3, <5>4
      <4> QED BY <4>1, <4>2
    <3>3. new.orders[j].prev = None => new.head = j
      <4> SUFFICES ASSUME new.orders[j].prev = None PROVE new.head = j
        OBVIOUS
      <4>1. CASE j = n
        BY <1>5, <1>7, <4>1
      <4>2. CASE j # n
        <5>1. old.orders[j].prev = None /\ old.head = j /\ j # i
          BY <1>5, <1>6, <4>2
        <5>2. p # None
          BY <1>4, <5>1
        <5> QED BY <1>7, <5>1, <5>2
      <4> QED BY <4>1, <4>2
    <3> QED BY <3>1, <3>2, <3>3
  <2> QED BY <2>1, <2>2, <2>3 DEF Linked
<1>9. PICK rank : Ascends(old, rank)
  BY DEF LevelOK
<1>10. Ascends(new, rank)
  <2>1. ASSUME NEW j \in Active(new), new.orders[j].next # None
        PROVE  rank[j] < rank[new.orders[j].next]
    <3>1. CASE j = p
      <4>1. new.orders[j].next = n /\ n # None /\ p # None /\ old.orders[p].next = i
        BY <1>4, <1>5, <2>1, <3>1
      <4>2. rank[p] < rank[i] /\ rank[i] < rank[n]
        <5>1. i # None
          BY <1>1, PlaceType
        <5> QED BY <1>2, <1>4, <1>9, <4>1, <5>1 DEF Ascends, n
      <4>3. rank[p] \in Nat /\ rank[i] \in Nat /\ rank[n] \in Nat
        BY <1>1, <1>4, <1>9, <4>1 DEF Ascends, Active
      <4> QED BY <3>1, <4>1, <4>2, <4>3
    <3>2. CASE j # p
      <4>1. new.orders[j].next = old.orders[j].next /\ j \in Active(old)
        BY <1>5, <3>2
      <4> QED BY <1>9, <2>1, <4>1 DEF Ascends
    <3> QED BY <3>1, <3>2
  <2> QED BY <1>9, <2>1 DEF Ascends
<1> QED BY <1>2, <1>3, <1>8, <1>10 DEF LevelOK

-----------------------------------------------------------------------------
(***************************************************************************)
(* Sides.  E is the set of rows that may be empty for the moment: the one  *)
(* just made for an order, or the one an order has just left.              *)
(***************************************************************************)
SideType == [rows : [Rows -> Level], depth : 0 .. MaxLevels,
             index : [Refs -> Location \cup {Nowhere}]]

InOrder(sd, b) ==
    \A j, k \in Rows : j < k /\ k < sd.depth => Ahead(b, sd.rows[j].price, sd.rows[k].price)

Filled(sd, E) == \A k \in Rows : k < sd.depth /\ k \notin E => sd.rows[k].count > 0

Clear(sd) == \A k \in Rows : k >= sd.depth => sd.rows[k] = EmptyLevel

\* Reference r is in place i of row k.
Holds(sd, k, i, r) == k \in Rows /\ i \in Places /\ sd.rows[k].orders[i].ref = r

Indexed(sd, b) ==
    /\ \A r \in Refs : sd.index[r] # Nowhere /\ sd.index[r].book = b =>
          /\ sd.index[r].row < sd.depth
          /\ Holds(sd, sd.index[r].row, sd.index[r].place, r)
    /\ \A r \in Refs, k \in Rows, i \in Places :
          Holds(sd, k, i, r) => sd.index[r] = [book |-> b, row |-> k, place |-> i]

SideOK(sd, b, E) ==
    /\ sd \in SideType
    /\ \A k \in Rows : LevelOK(sd.rows[k])
    /\ InOrder(sd, b)
    /\ Filled(sd, E)
    /\ Clear(sd)
    /\ Indexed(sd, b)

LEMMA RowType ==
    /\ MaxLevels \in Nat /\ MaxLevels > 0 /\ Rows \subseteq Nat /\ None \notin Rows
    /\ \A k \in Int : k \in Rows <=> 0 <= k /\ k < MaxLevels
BY LOBAssumption DEF Rows, None

LEMMA PriceType ==
    ASSUME NEW level \in Level
    PROVE  level.price \in Nat
<1>1. level.price \in Prices \cup {0}
  BY DEF Level
<1>2. \A p \in Prices : p \in Nat
  BY LOBAssumption
<1>3. CASE level.price = 0
  BY <1>3
<1>4. CASE level.price \in Prices
  BY <1>2, <1>4
<1> QED BY <1>1, <1>3, <1>4

\* The prices of the rows in use are what the order says, and the order is
\* strict, total and transitive.
LEMMA AheadOrder ==
    ASSUME NEW b, NEW p \in Nat, NEW q \in Nat
    PROVE  /\ Ahead(b, p, q) \/ Ahead(b, q, p) \/ p = q
           /\ Ahead(b, p, q) => ~Ahead(b, q, p) /\ p # q
           /\ \A r \in Nat : Ahead(b, p, q) /\ Ahead(b, q, r) => Ahead(b, p, r)
BY DEF Ahead

LEMMA Midpoint ==
    ASSUME NEW low \in Int, NEW high \in Int, low <= high
    PROVE  low + ((high - low) \div 2) \in Int
           /\ low <= low + ((high - low) \div 2) /\ low + ((high - low) \div 2) <= high
OBVIOUS

LEMMA HalveType ==
    ASSUME NEW sd, NEW b, NEW price
    PROVE  Halve(sd, b, price) \in [Interval -> Interval]
<1> SUFFICES ASSUME NEW s \in Interval PROVE Halve(sd, b, price)[s] \in Interval
  BY DEF Halve
<1> DEFINE mid == s.low + ((s.high - s.low) \div 2)
           at == sd.rows[mid].price
<1>1. Halve(sd, b, price)[s] =
          IF s.at # None \/ s.low > s.high THEN s
          ELSE IF at = price THEN [s EXCEPT !.at = mid]
          ELSE IF Ahead(b, price, at) THEN [s EXCEPT !.high = mid - 1]
          ELSE [s EXCEPT !.low = mid + 1]
  BY DEF Halve
<1>2. /\ s.low \in Int /\ s.high \in Int /\ 0 <= s.low /\ s.high < MaxLevels
      /\ s.low <= MaxLevels /\ -1 <= s.high
  BY RowType DEF Interval
<1>3. s.low <= s.high => mid \in Int /\ s.low <= mid /\ mid <= s.high
  BY <1>2, Midpoint
<1> HIDE DEF mid, at
<1>4. CASE s.at # None \/ s.low > s.high
  BY <1>1, <1>4
<1>5. CASE s.at = None /\ s.low <= s.high
  <2>1. mid \in Rows /\ mid - 1 \in -1 .. MaxLevels - 1 /\ mid + 1 \in 0 .. MaxLevels
    BY <1>2, <1>3, <1>5, RowType
  <2>2. /\ [s EXCEPT !.at = mid] \in Interval
        /\ [s EXCEPT !.high = mid - 1] \in Interval
        /\ [s EXCEPT !.low = mid + 1] \in Interval
    BY <2>1 DEF Interval
  <2>3. ~(s.at # None \/ s.low > s.high)
    BY <1>2, <1>5
  <2> QED BY <1>1, <2>2, <2>3
<1> QED BY <1>2, <1>4, <1>5

\* What one turn leaves of the search: the row is found, or it is in the
\* interval if it is anywhere, and the interval is shorter.
Narrowed(sd, price, s, n) ==
    \/ s.at \in Rows /\ s.at < sd.depth /\ sd.rows[s.at].price = price
    \/ /\ s.at = None
       /\ 0 <= s.low /\ s.high < sd.depth
       /\ \A k \in Rows : k < sd.depth /\ sd.rows[k].price = price => s.low <= k /\ k <= s.high
       /\ s.low > s.high \/ s.high - s.low + 1 <= sd.depth - n

LEMMA HalveNarrows ==
    ASSUME NEW sd \in SideType, NEW b, InOrder(sd, b), NEW price \in Nat,
           NEW s \in Interval, NEW n \in Nat, Narrowed(sd, price, s, n)
    PROVE  Narrowed(sd, price, Halve(sd, b, price)[s], n + 1)
<1> DEFINE mid == s.low + ((s.high - s.low) \div 2)
           at == sd.rows[mid].price
           t == Halve(sd, b, price)[s]
<1>1. t = IF s.at # None \/ s.low > s.high THEN s
          ELSE IF at = price THEN [s EXCEPT !.at = mid]
          ELSE IF Ahead(b, price, at) THEN [s EXCEPT !.high = mid - 1]
          ELSE [s EXCEPT !.low = mid + 1]
  BY DEF Halve
<1>2. /\ s.low \in Int /\ s.high \in Int /\ sd.depth \in Int /\ sd.depth <= MaxLevels
      /\ \A k \in Rows : sd.rows[k] \in Level /\ sd.rows[k].price \in Nat
  BY RowType, PriceType DEF Interval, SideType
<1>3. s.low <= s.high => mid \in Int /\ s.low <= mid /\ mid <= s.high
  BY <1>2, Midpoint
<1> HIDE DEF mid, t
<1>4. CASE s.at # None
  <2>1. t = s
    BY <1>1, <1>4
  <2> QED BY <1>4, <2>1, RowType DEF Narrowed, t
<1>5. CASE s.at = None /\ s.low > s.high
  <2>1. t = s
    BY <1>1, <1>5
  <2> QED BY <1>5, <2>1, RowType DEF Narrowed, t
<1>6. CASE s.at = None /\ s.low <= s.high
  <2>1. /\ 0 <= s.low /\ s.high < sd.depth
        /\ \A k \in Rows : k < sd.depth /\ sd.rows[k].price = price => s.low <= k /\ k <= s.high
        /\ s.high - s.low + 1 <= sd.depth - n
    BY <1>2, <1>6, RowType DEF Narrowed
  <2>2. mid \in Rows /\ mid < sd.depth /\ s.low <= mid /\ mid <= s.high
    BY <1>2, <1>3, <1>6, <2>1, RowType
  <2>3. at \in Nat
    BY <1>2, <2>2
  <2>4. ~(s.at # None \/ s.low > s.high)
    BY <1>2, <1>6
  <2>5. CASE at = price
    <3>1. t.at = mid
      BY <1>1, <2>4, <2>5 DEF Interval
    <3> QED BY <2>2, <2>5, <3>1 DEF Narrowed, t
  <2>6. CASE at # price /\ Ahead(b, price, at)
    <3>1. t.at = None /\ t.low = s.low /\ t.high = mid - 1
      BY <1>1, <1>6, <2>4, <2>6 DEF Interval
    <3>2. ASSUME NEW k \in Rows, k < sd.depth, sd.rows[k].price = price
          PROVE  k <= mid - 1
      <4>1. k # mid
        BY <2>6, <3>2
      <4>2. ~(mid < k)
        <5> SUFFICES ASSUME mid < k PROVE FALSE
          OBVIOUS
        <5>1. Ahead(b, at, price)
          BY <2>2, <3>2 DEF InOrder
        <5> QED BY <2>3, <2>6, <5>1, AheadOrder
      <4> QED BY <2>2, <4>1, <4>2, RowType
    <3>3. /\ mid - 1 < sd.depth
          /\ (mid - 1) - s.low + 1 <= sd.depth - (n + 1)
      BY <1>2, <2>1, <2>2, RowType
    <3> QED BY <2>1, <3>1, <3>2, <3>3 DEF Narrowed, t
  <2>7. CASE at # price /\ ~Ahead(b, price, at)
    <3>1. t.at = None /\ t.low = mid + 1 /\ t.high = s.high
      BY <1>1, <1>6, <2>4, <2>7 DEF Interval
    <3>2. ASSUME NEW k \in Rows, k < sd.depth, sd.rows[k].price = price
          PROVE  mid + 1 <= k
      <4>1. k # mid
        BY <2>7, <3>2
      <4>2. ~(k < mid)
        <5> SUFFICES ASSUME k < mid PROVE FALSE
          OBVIOUS
        <5>1. Ahead(b, price, at)
          BY <2>2, <3>2 DEF InOrder
        <5> QED BY <2>7, <5>1
      <4> QED BY <2>2, <4>1, <4>2, RowType
    <3>3. /\ 0 <= mid + 1
          /\ s.high - (mid + 1) + 1 <= sd.depth - (n + 1)
      BY <1>2, <2>1, <2>2, RowType
    <3> QED BY <2>1, <3>1, <3>2, <3>3 DEF Narrowed, t
  <2> QED BY <2>5, <2>6, <2>7
<1> QED BY <1>2, <1>4, <1>5, <1>6

\* What find_level finds, on rows that are in order.
Found(sd, price, row) ==
    \/ row \in Rows /\ row < sd.depth /\ sd.rows[row].price = price
    \/ row = None /\ \A k \in Rows : k < sd.depth => sd.rows[k].price # price

\* The binary search is right: it finds the row of the price if there is one.
LEMMA SearchFinds ==
    ASSUME NEW sd \in SideType, NEW b, InOrder(sd, b), NEW price \in Nat
    PROVE  Found(sd, price, find_level(sd, b, price))
<1> DEFINE all == [low |-> 0, high |-> sd.depth - 1, at |-> None]
           step == Halve(sd, b, price)
           search[n \in 0 .. MaxLevels] ==
               IF n = 0 THEN [low |-> 0, high |-> sd.depth - 1, at |-> None]
               ELSE Halve(sd, b, price)[search[n - 1]]
<1>1. search = CHOOSE g : g = [n \in 0 .. MaxLevels |-> IF n = 0 THEN all ELSE step[g[n - 1]]]
  OBVIOUS
<1>2. find_level(sd, b, price) = search[MaxLevels].at
  BY Zenon DEF find_level
<1> HIDE DEF search
<1>3. sd.depth \in 0 .. MaxLevels
  BY DEF SideType
<1>4. all \in Interval /\ Narrowed(sd, price, all, 0)
  <2>1. 0 \in 0 .. MaxLevels /\ sd.depth - 1 \in -1 .. MaxLevels - 1
    BY <1>3, RowType
  <2>2. all \in Interval
    BY <2>1 DEF Interval
  <2>3. all.low = 0 /\ all.high = sd.depth - 1 /\ all.at = None
    OBVIOUS
  <2> HIDE DEF all
  <2>4. Narrowed(sd, price, all, 0)
    BY <1>3, <2>3, RowType DEF Narrowed
  <2> QED BY <2>2, <2>4
<1>5. step \in [Interval -> Interval]
  BY HalveType
<1> HIDE DEF all, step
<1>6. Iterates(search, step, Interval, all, MaxLevels)
  BY <1>1, <1>4, <1>5, RowType, RecursiveLoop
<1> DEFINE S == {n \in Nat : n <= MaxLevels => Narrowed(sd, price, search[n], n)}
<1>7. 0 \in S
  BY <1>4, <1>6 DEF Iterates
<1>8. \A n \in Nat : n \in S => n + 1 \in S
  <2> SUFFICES ASSUME NEW n \in Nat, n \in S, n + 1 <= MaxLevels
               PROVE  Narrowed(sd, price, search[n + 1], n + 1)
    OBVIOUS
  <2>1. n + 1 \in 1 .. MaxLevels /\ (n + 1) - 1 = n /\ n \in 0 .. MaxLevels
    BY RowType
  <2>2. search[n] \in Interval /\ search[n + 1] = step[search[n]]
    BY <1>6, <2>1 DEF Iterates
  <2>3. Narrowed(sd, price, search[n], n)
    BY RowType
  <2>4. Narrowed(sd, price, Halve(sd, b, price)[search[n]], n + 1)
    <3> HIDE DEF S
    <3> QED BY <2>2, <2>3, HalveNarrows
  <2> QED BY <2>2, <2>4 DEF step
<1>9. \A n \in Nat : n \in S
  <2> HIDE DEF S
  <2> QED BY <1>7, <1>8, NatSetInduction
<1>10. Narrowed(sd, price, search[MaxLevels], MaxLevels) /\ search[MaxLevels] \in Interval
  BY <1>6, <1>9, RowType DEF Iterates
<1> DEFINE s == search[MaxLevels]
<1>11. s.low \in Int /\ s.high \in Int
  BY <1>10 DEF Interval
<1>12. CASE s.at # None
  BY <1>2, <1>10, <1>12 DEF Narrowed, Found
<1>13. CASE s.at = None
  <2>1. /\ \A k \in Rows : k < sd.depth /\ sd.rows[k].price = price => s.low <= k /\ k <= s.high
        /\ s.low > s.high \/ s.high - s.low + 1 <= sd.depth - MaxLevels
    BY <1>10, <1>13, RowType DEF Narrowed
  <2>2. s.low > s.high
    BY <1>3, <1>11, <2>1, RowType
  <2>3. \A k \in Rows : k < sd.depth => sd.rows[k].price # price
    BY <1>11, <2>1, <2>2, RowType
  <2> QED BY <1>2, <1>13, <2>3 DEF Found
<1> QED BY <1>12, <1>13

-----------------------------------------------------------------------------
(***************************************************************************)
(* Shifts.                                                                 *)
(***************************************************************************)
At(b, k, i) == [book |-> b, row |-> k, place |-> i]

LEMMA AtFields ==
    /\ \A b, k, i : At(b, k, i).book = b /\ At(b, k, i).row = k /\ At(b, k, i).place = i
    /\ \A b \in Books, k \in Rows, i \in Places : At(b, k, i) \in Location
    /\ \A b, i : \A k \in Rows : At(b, k, i) # Nowhere
    /\ Nowhere \notin Location
<1>1. \A b, k, i : At(b, k, i).book = b /\ At(b, k, i).row = k /\ At(b, k, i).place = i
  BY DEF At
<1>2. \A b \in Books, k \in Rows, i \in Places : At(b, k, i) \in Location
  BY DEF At, Location
<1>3. Nowhere.row = None
  BY DEF Nowhere
<1>4. \A b, i : \A k \in Rows : At(b, k, i) # Nowhere
  BY <1>1, <1>3, RowType
<1>5. Nowhere \notin Location
  BY <1>3, RowType DEF Location
<1> QED BY <1>1, <1>2, <1>4, <1>5

\* The entries of the other books are as they were.
IndexKept(ix, jx, b) ==
    \A r \in Refs : \/ jx[r] = ix[r]
                    \/ /\ ix[r] = Nowhere \/ ix[r].book = b
                       /\ jx[r] = Nowhere \/ jx[r].book = b

LEMMA IndexKeptTrans ==
    ASSUME NEW ix, NEW jx, NEW kx, NEW b, IndexKept(ix, jx, b), IndexKept(jx, kx, b)
    PROVE  IndexKept(ix, kx, b)
BY DEF IndexKept

\* What refresh_level_locations makes of one entry.
LEMMA Refreshed ==
    ASSUME NEW ix, NEW b, NEW rows, NEW first, NEW last, NEW r \in Refs
    PROVE  LET jx == refresh_level_locations(ix, b, rows, first, last)
           IN  \/ /\ ix[r] # Nowhere
                  /\ \E k \in first .. last, i \in Places :
                        rows[k].orders[i].ref = r /\ jx[r] = At(b, k, i)
               \/ /\ jx[r] = ix[r]
                  /\ \/ ix[r] = Nowhere
                     \/ \A k \in first .. last, i \in Places : rows[k].orders[i].ref # r
<1> DEFINE at == {p \in (first .. last) \X Places : rows[p[1]].orders[p[2]].ref = r}
           q == CHOOSE p \in at : TRUE
           jx == refresh_level_locations(ix, b, rows, first, last)
<1>1. jx[r] = IF ix[r] # Nowhere /\ at # {} THEN [book |-> b, row |-> q[1], place |-> q[2]] ELSE ix[r]
  BY DEF refresh_level_locations
<1>2. CASE ix[r] # Nowhere /\ at # {}
  <2>1. q \in at
    <3> HIDE DEF at
    <3> QED BY <1>2
  <2>2. q[1] \in first .. last /\ q[2] \in Places /\ rows[q[1]].orders[q[2]].ref = r
    <3> HIDE DEF q
    <3> QED BY <2>1
  <2>3. jx[r] = At(b, q[1], q[2])
    BY <1>1, <1>2 DEF At
  <2> HIDE DEF q, jx
  <2> QED BY <1>2, <2>2, <2>3 DEF jx
<1>3. CASE ix[r] = Nowhere
  <2>1. jx[r] = ix[r]
    BY <1>1, <1>3
  <2> HIDE DEF jx
  <2> QED BY <1>3, <2>1 DEF jx
<1>4. CASE at = {}
  <2>1. jx[r] = ix[r]
    BY <1>1, <1>4
  <2>2. \A k \in first .. last, i \in Places : rows[k].orders[i].ref # r
    <3> SUFFICES ASSUME NEW k \in first .. last, NEW i \in Places, rows[k].orders[i].ref = r
                 PROVE  FALSE
      OBVIOUS
    <3>1. <<k, i>> \in at
      OBVIOUS
    <3> QED BY <1>4, <3>1
  <2> HIDE DEF jx
  <2> QED BY <2>1, <2>2 DEF jx
<1> QED BY <1>2, <1>3, <1>4

LEMMA RefreshType ==
    ASSUME NEW ix \in [Refs -> Location \cup {Nowhere}], NEW b \in Books, NEW rows,
           NEW first, NEW last, first .. last \subseteq Rows
    PROVE  refresh_level_locations(ix, b, rows, first, last) \in [Refs -> Location \cup {Nowhere}]
<1> DEFINE jx == refresh_level_locations(ix, b, rows, first, last)
<1>1. \A r \in Refs : jx[r] \in Location \cup {Nowhere}
  <2> SUFFICES ASSUME NEW r \in Refs PROVE jx[r] \in Location \cup {Nowhere}
    OBVIOUS
  <2>1. \/ \E k \in first .. last, i \in Places : jx[r] = At(b, k, i)
        \/ jx[r] = ix[r]
    BY Refreshed
  <2> HIDE DEF jx
  <2> QED BY <2>1, AtFields
<1>2. jx = [r \in Refs |-> jx[r]]
  BY DEF refresh_level_locations
<1> HIDE DEF jx
<1>3. jx \in [Refs -> Location \cup {Nowhere}]
  BY <1>1, <1>2
<1> QED BY <1>3 DEF jx

\* The rows first..last of new are the rows of sd next to them, in direction
\* d, and every row that holds orders is among them or has stayed.
Shifted(sd, new, b, first, last, d) ==
    /\ first \in Int /\ last \in Int /\ d \in {-1, 1}
    /\ new.index = refresh_level_locations(sd.index, b, new.rows, first, last)
    /\ \A k \in first .. last : k \in Rows /\ k - d \in Rows /\ new.rows[k] = sd.rows[k - d]
    /\ \A k \in Rows : k \notin first .. last =>
          \/ Active(new.rows[k]) = {}
          \/ new.rows[k] = sd.rows[k] /\ k + d \notin first .. last
    /\ \A k \in Rows : Active(sd.rows[k]) # {} =>
          \/ k + d \in first .. last /\ k + d < new.depth
          \/ k \notin first .. last /\ new.rows[k] = sd.rows[k] /\ k < new.depth

LEMMA ShiftedIndex ==
    ASSUME NEW sd, NEW new, NEW b, NEW first, NEW last, NEW d,
           Indexed(sd, b), Shifted(sd, new, b, first, last, d)
    PROVE  Indexed(new, b) /\ IndexKept(sd.index, new.index, b)
<1> DEFINE F == first .. last
<1>1. first \in Int /\ last \in Int /\ d \in Int /\ F \subseteq Rows /\ Rows \subseteq Int
  BY RowType DEF Shifted
<1>2. \A k \in F : k - d \in Rows /\ new.rows[k] = sd.rows[k - d]
  BY DEF Shifted
<1>3. \A k \in Rows : k \notin F =>
          \/ Active(new.rows[k]) = {}
          \/ new.rows[k] = sd.rows[k] /\ k + d \notin F
  BY DEF Shifted
<1>4. \A k \in Rows : Active(sd.rows[k]) # {} =>
          \/ k + d \in F /\ k + d < new.depth
          \/ k \notin F /\ new.rows[k] = sd.rows[k] /\ k < new.depth
  BY DEF Shifted
<1>5. ASSUME NEW r \in Refs
      PROVE  \/ /\ sd.index[r] # Nowhere
                /\ \E k \in F, i \in Places : Holds(new, k, i, r) /\ new.index[r] = At(b, k, i)
             \/ /\ new.index[r] = sd.index[r]
                /\ \/ sd.index[r] = Nowhere
                   \/ \A k \in F, i \in Places : ~Holds(new, k, i, r)
  <2>1. new.index = refresh_level_locations(sd.index, b, new.rows, first, last)
    BY DEF Shifted
  <2> QED BY <1>1, <2>1, Refreshed DEF Holds
<1> HIDE DEF F
<1>6. ASSUME NEW r \in Refs, NEW k \in Rows, NEW i \in Places, Holds(new, k, i, r)
      PROVE  \/ k \in F /\ Holds(sd, k - d, i, r)
             \/ k \notin F /\ k + d \notin F /\ Holds(sd, k, i, r)
  <2>1. Active(new.rows[k]) # {}
    BY <1>6, LOBAssumption DEF Holds, Active
  <2>2. CASE k \in F
    BY <1>2, <1>6, <2>2 DEF Holds
  <2>3. CASE k \notin F
    BY <1>3, <1>6, <2>1, <2>3 DEF Holds
  <2> QED BY <2>2, <2>3
<1>7. ASSUME NEW r \in Refs, NEW k \in Rows, NEW i \in Places, Holds(sd, k, i, r)
      PROVE  \/ k + d \in F /\ Holds(new, k + d, i, r) /\ k + d < new.depth
             \/ k \notin F /\ Holds(new, k, i, r) /\ k < new.depth
  <2>1. Active(sd.rows[k]) # {}
    BY <1>7, LOBAssumption DEF Holds, Active
  <2>2. CASE k + d \in F /\ k + d < new.depth
    <3>1. (k + d) - d = k /\ k + d \in Rows
      BY <1>1, <2>2
    <3> QED BY <1>2, <1>7, <2>2, <3>1 DEF Holds
  <2>3. CASE k \notin F /\ new.rows[k] = sd.rows[k] /\ k < new.depth
    BY <1>7, <2>3 DEF Holds
  <2> QED BY <1>4, <2>1, <2>2, <2>3
<1>8. \A r \in Refs, k \in Rows, i \in Places : Holds(sd, k, i, r) => sd.index[r] = At(b, k, i)
  BY DEF Indexed, At
<1>9. \A r \in Refs : sd.index[r] # Nowhere /\ sd.index[r].book = b =>
          /\ Holds(sd, sd.index[r].row, sd.index[r].place, r)
          /\ sd.index[r].row \in Rows /\ sd.index[r].place \in Places
  BY DEF Indexed, Holds
<1>10. ASSUME NEW r \in Refs, NEW k \in Rows, NEW i \in Places, Holds(new, k, i, r)
       PROVE  new.index[r] = At(b, k, i)
  <2>1. CASE k \in F
    <3>1. sd.index[r] = At(b, k - d, i) /\ k - d \in Rows
      BY <1>2, <1>6, <1>8, <1>10, <2>1
    <3>2. sd.index[r] # Nowhere
      BY <3>1, AtFields
    <3>3. PICK k1 \in F, i1 \in Places : Holds(new, k1, i1, r) /\ new.index[r] = At(b, k1, i1)
      BY <1>5, <1>10, <2>1, <3>2
    <3>4. sd.index[r] = At(b, k1 - d, i1)
      BY <1>1, <1>2, <1>6, <1>8, <3>3
    <3>5. k1 - d = k - d /\ i1 = i
      BY <3>1, <3>4, AtFields
    <3>6. k1 = k
      BY <1>1, <3>5
    <3> QED BY <3>3, <3>5, <3>6
  <2>2. CASE k \notin F
    <3>1. sd.index[r] = At(b, k, i) /\ k + d \notin F
      BY <1>6, <1>8, <1>10, <2>2
    <3>2. ASSUME NEW k1 \in F, NEW i1 \in Places, Holds(new, k1, i1, r) PROVE FALSE
      <4>1. sd.index[r] = At(b, k1 - d, i1)
        BY <1>1, <1>2, <1>6, <1>8, <3>2
      <4>2. sd.index[r].row = k1 - d /\ sd.index[r].row = k
        <5>1. sd.index[r].row = k1 - d
          BY <4>1, AtFields
        <5>2. sd.index[r].row = k
          BY <3>1, AtFields
        <5> QED BY <5>1, <5>2
      <4>3. k1 = k + d
        BY <1>1, <4>2
      <4> QED BY <3>1, <4>3
    <3> QED BY <1>5, <3>1, <3>2
  <2> QED BY <2>1, <2>2
<1>11. ASSUME NEW r \in Refs, new.index[r] # Nowhere, new.index[r].book = b
       PROVE  /\ new.index[r].row < new.depth
              /\ Holds(new, new.index[r].row, new.index[r].place, r)
  <2>1. ASSUME NEW k \in Rows, NEW i \in Places, Holds(new, k, i, r)
        PROVE  k < new.depth
    <3>1. \E k0 \in Rows : Holds(sd, k0, i, r) /\ ((k0 = k - d /\ k \in F) \/ (k0 = k /\ k \notin F /\ k + d \notin F))
      BY <1>2, <1>6, <2>1
    <3>2. PICK k0 \in Rows : Holds(sd, k0, i, r) /\ ((k0 = k - d /\ k \in F) \/ (k0 = k /\ k \notin F /\ k + d \notin F))
      BY <3>1
    <3>3. CASE k0 = k - d /\ k \in F
      <4>1. k0 + d = k
        BY <1>1, <3>3
      <4> QED BY <1>7, <1>10, <2>1, <3>2, <3>3, <4>1, AtFields
    <3>4. CASE k0 = k /\ k \notin F /\ k + d \notin F
      BY <1>7, <3>2, <3>4
    <3> QED BY <3>2, <3>3, <3>4
  <2>2. CASE \E k \in F, i \in Places : Holds(new, k, i, r) /\ new.index[r] = At(b, k, i)
    BY <1>1, <2>1, <2>2, AtFields
  <2>3. CASE new.index[r] = sd.index[r] /\ \A k \in F, i \in Places : ~Holds(new, k, i, r)
    <3>1. /\ Holds(sd, sd.index[r].row, sd.index[r].place, r)
          /\ sd.index[r].row \in Rows /\ sd.index[r].place \in Places
      BY <1>9, <1>11, <2>3
    <3> QED BY <1>7, <2>3, <3>1
  <2> QED BY <1>5, <1>11, <2>2, <2>3
<1>12. IndexKept(sd.index, new.index, b)
  <2> SUFFICES ASSUME NEW r \in Refs, new.index[r] # sd.index[r]
               PROVE  sd.index[r].book = b /\ new.index[r].book = b
    BY DEF IndexKept
  <2>1. PICK k \in F, i \in Places : Holds(new, k, i, r) /\ new.index[r] = At(b, k, i)
    BY <1>5
  <2>2. sd.index[r] = At(b, k - d, i)
    BY <1>1, <1>2, <1>6, <1>8, <2>1
  <2> QED BY <2>1, <2>2, AtFields
<1> QED BY <1>10, <1>11, <1>12 DEF Indexed, At

\* The row where a new price goes: behind every better one, before the rest.
LEMMA InsertPos ==
    ASSUME NEW sd \in SideType, NEW b, InOrder(sd, b), NEW price \in Nat,
           \A k \in Rows : k < sd.depth => sd.rows[k].price # price
    PROVE  LET pos == insert_pos(sd, b, price)
           IN  /\ pos \in Nat /\ pos <= sd.depth
               /\ \A k \in Rows : k < pos => Ahead(b, sd.rows[k].price, price)
               /\ \A k \in Rows : k >= pos /\ k < sd.depth => Ahead(b, price, sd.rows[k].price)
<1> DEFINE P == {k \in 0 .. sd.depth - 1 : Ahead(b, price, sd.rows[k].price)} \cup {sd.depth}
           pos == insert_pos(sd, b, price)
<1>1. sd.depth \in Nat /\ sd.depth <= MaxLevels
  BY RowType DEF SideType
<1>2. pos = Min(P)
  BY DEF insert_pos
<1>3. P \subseteq Nat /\ P # {}
  BY <1>1
<1>4. pos \in P /\ \A y \in P : pos <= y
  <2> HIDE DEF P, pos
  <2> QED BY <1>2, <1>3, MinIn
<1> HIDE DEF pos
<1>5. pos \in Nat /\ pos <= sd.depth
  BY <1>1, <1>4
<1>6. \A k \in Rows : sd.rows[k].price \in Nat
  BY PriceType DEF SideType
<1>7. ASSUME NEW k \in Rows, k < pos PROVE Ahead(b, sd.rows[k].price, price)
  <2>1. k \in 0 .. sd.depth - 1 /\ k < sd.depth
    BY <1>1, <1>5, <1>7, RowType
  <2>2. ~Ahead(b, price, sd.rows[k].price)
    <3>1. k \notin P
      <4> HIDE DEF P
      <4> QED BY <1>4, <1>5, <1>7, RowType
    <3> QED BY <2>1, <3>1
  <2> QED BY <1>6, <2>1, <2>2, AheadOrder
<1>8. ASSUME NEW k \in Rows, k >= pos, k < sd.depth PROVE Ahead(b, price, sd.rows[k].price)
  <2>1. pos < sd.depth /\ pos \in Rows
    BY <1>1, <1>5, <1>8, RowType
  <2>2. Ahead(b, price, sd.rows[pos].price)
    BY <1>1, <1>4, <2>1
  <2>3. CASE k = pos
    BY <2>2, <2>3
  <2>4. CASE k # pos
    <3>1. pos < k
      BY <1>5, <1>8, <2>4, RowType
    <3>2. Ahead(b, sd.rows[pos].price, sd.rows[k].price)
      BY <1>8, <2>1, <3>1 DEF InOrder
    <3> QED BY <1>6, <2>1, <2>2, <3>2, AheadOrder
  <2> QED BY <2>3, <2>4
<1> QED BY <1>5, <1>7, <1>8 DEF pos

\* new is sd with an empty level for the price in row pos.
Made(sd, new, pos, price) ==
    /\ pos \in Rows /\ pos <= sd.depth /\ new.depth = sd.depth + 1
    /\ new.rows[pos] = [EmptyLevel EXCEPT !.price = price]
    /\ \A k \in Rows : k < pos \/ k > sd.depth => new.rows[k] = sd.rows[k]
    /\ \A k \in Rows : k > pos /\ k <= sd.depth => new.rows[k] = sd.rows[k - 1]

LEMMA InsertedOK ==
    ASSUME NEW sd, NEW b \in Books, SideOK(sd, b, {}), NEW price \in Prices,
           sd.depth < MaxLevels, \A k \in Rows : k < sd.depth => sd.rows[k].price # price
    PROVE  LET pos == insert_pos(sd, b, price)
               new == insert_level_impl(sd, b, price)
           IN  /\ pos \in Rows /\ pos < new.depth
               /\ SideOK(new, b, {pos})
               /\ new.rows[pos] = [EmptyLevel EXCEPT !.price = price]
               /\ IndexKept(sd.index, new.index, b)
               /\ Made(sd, new, pos, price)
<1> DEFINE pos == insert_pos(sd, b, price)
           new == insert_level_impl(sd, b, price)
           fresh == [EmptyLevel EXCEPT !.price = price]
<1>1. /\ sd \in SideType /\ InOrder(sd, b) /\ Filled(sd, {}) /\ Clear(sd) /\ Indexed(sd, b)
      /\ \A k \in Rows : LevelOK(sd.rows[k])
  BY DEF SideOK
<1>2. /\ sd.depth \in Nat /\ sd.depth < MaxLevels /\ price \in Nat
      /\ \A k \in Rows : sd.rows[k] \in Level /\ sd.rows[k].price \in Nat
      /\ sd.index \in [Refs -> Location \cup {Nowhere}]
  <2>1. price \in Nat
    BY LOBAssumption
  <2> QED BY <1>1, <2>1, RowType, PriceType DEF SideType
<1>3. /\ pos \in Nat /\ pos <= sd.depth
      /\ \A k \in Rows : k < pos => Ahead(b, sd.rows[k].price, price)
      /\ \A k \in Rows : k >= pos /\ k < sd.depth => Ahead(b, price, sd.rows[k].price)
  BY <1>1, <1>2, InsertPos
<1>4. pos \in Rows /\ sd.depth \in Rows
  BY <1>2, <1>3, RowType
<1>5. /\ new.rows = [k \in Rows |-> CASE k = pos -> fresh
                                      [] k > pos /\ k <= sd.depth -> sd.rows[k - 1]
                                      [] OTHER -> sd.rows[k]]
      /\ new.depth = sd.depth + 1
      /\ new.index = refresh_level_locations(sd.index, b, new.rows, pos + 1, sd.depth)
      /\ new = [rows |-> new.rows, depth |-> new.depth, index |-> new.index]
  BY DEF insert_level_impl
<1> HIDE DEF new, pos, fresh
<1>6. /\ new.rows[pos] = fresh
      /\ \A k \in Rows : k > pos /\ k <= sd.depth => new.rows[k] = sd.rows[k - 1]
      /\ \A k \in Rows : k < pos \/ k > sd.depth => new.rows[k] = sd.rows[k]
      /\ DOMAIN new.rows = Rows
  BY <1>2, <1>3, <1>4, <1>5, RowType
<1>7. LevelOK(fresh) /\ Active(fresh) = {} /\ fresh.price = price
  BY EmptyLevelOK DEF fresh
<1>8. \A k \in Rows : \/ k = pos
                      \/ k > pos /\ k <= sd.depth /\ k - 1 \in Rows
                      \/ k < pos \/ k > sd.depth
  BY <1>2, <1>3, RowType
<1>9. \A k \in Rows : LevelOK(new.rows[k])
  BY <1>1, <1>6, <1>7, <1>8
<1>10. new \in SideType
  <2>1. new.rows \in [Rows -> Level]
    <3>1. \A k \in Rows : new.rows[k] \in Level
      BY <1>9 DEF LevelOK
    <3>2. new.rows = [k \in Rows |-> new.rows[k]]
      BY <1>5
    <3> QED BY <3>1, <3>2
  <2>2. new.depth \in 0 .. MaxLevels
    BY <1>2, <1>5, RowType
  <2>3. new.index \in [Refs -> Location \cup {Nowhere}]
    <3>1. pos + 1 .. sd.depth \subseteq Rows
      BY <1>2, <1>3, RowType
    <3> QED BY <1>2, <1>5, <3>1, RefreshType
  <2> QED BY <1>5, <2>1, <2>2, <2>3 DEF SideType
<1>11. InOrder(new, b)
  <2> SUFFICES ASSUME NEW j \in Rows, NEW k \in Rows, j < k, k < new.depth
               PROVE  Ahead(b, new.rows[j].price, new.rows[k].price)
    BY DEF InOrder
  <2>0. j \in Nat /\ k \in Nat /\ k <= sd.depth
    BY <1>2, <1>5, RowType
  <2>1. CASE j < pos /\ k < pos
    <3>1. new.rows[j] = sd.rows[j] /\ new.rows[k] = sd.rows[k] /\ k < sd.depth
      BY <1>2, <1>3, <1>6, <2>0, <2>1
    <3> QED BY <1>1, <3>1 DEF InOrder
  <2>2. CASE j < pos /\ k = pos
    BY <1>3, <1>6, <1>7, <2>2
  <2>3. CASE j < pos /\ k > pos
    <3>1. k - 1 \in Rows /\ j < k - 1 /\ k - 1 < sd.depth
      BY <1>2, <1>3, <2>0, <2>3, RowType
    <3>2. new.rows[j] = sd.rows[j] /\ new.rows[k] = sd.rows[k - 1]
      BY <1>6, <2>0, <2>3
    <3> QED BY <1>1, <3>1, <3>2 DEF InOrder
  <2>4. CASE j = pos
    <3>1. k - 1 \in Rows /\ k - 1 >= pos /\ k - 1 < sd.depth /\ k > pos
      BY <1>2, <1>3, <2>0, <2>4, RowType
    <3>2. new.rows[k] = sd.rows[k - 1]
      BY <1>6, <2>0, <3>1
    <3> QED BY <1>3, <1>6, <1>7, <2>4, <3>1, <3>2
  <2>5. CASE j > pos
    <3>1. /\ j - 1 \in Rows /\ k - 1 \in Rows /\ j - 1 < k - 1 /\ k - 1 < sd.depth
          /\ k > pos /\ j <= sd.depth
      BY <1>2, <1>3, <2>0, <2>5, RowType
    <3>2. new.rows[k] = sd.rows[k - 1] /\ new.rows[j] = sd.rows[j - 1]
      BY <1>6, <2>0, <2>5, <3>1
    <3> QED BY <1>1, <3>1, <3>2 DEF InOrder
  <2> QED BY <1>3, <2>0, <2>1, <2>2, <2>3, <2>4, <2>5
<1>12. Filled(new, {pos})
  <2> SUFFICES ASSUME NEW k \in Rows, k < new.depth, k # pos PROVE new.rows[k].count > 0
    BY DEF Filled
  <2>1. CASE k < pos
    <3>1. new.rows[k] = sd.rows[k] /\ k < sd.depth
      BY <1>2, <1>3, <1>6, <2>1, RowType
    <3> QED BY <1>1, <3>1 DEF Filled
  <2>2. CASE k > pos
    <3>1. k <= sd.depth /\ k - 1 \in Rows /\ k - 1 < sd.depth
      BY <1>2, <1>3, <1>5, <2>2, RowType
    <3>2. new.rows[k] = sd.rows[k - 1]
      BY <1>6, <2>2, <3>1
    <3> QED BY <1>1, <3>1, <3>2 DEF Filled
  <2> QED BY <1>3, <2>1, <2>2, RowType
<1>13. Clear(new)
  <2> SUFFICES ASSUME NEW k \in Rows, k >= new.depth PROVE new.rows[k] = EmptyLevel
    BY DEF Clear
  <2>1. k > sd.depth /\ k >= sd.depth
    BY <1>2, <1>5, RowType
  <2> QED BY <1>1, <1>6, <2>1 DEF Clear
<1>14. Shifted(sd, new, b, pos + 1, sd.depth, 1)
  <2> DEFINE F == pos + 1 .. sd.depth
  <2>1. ASSUME NEW k \in F PROVE k \in Rows /\ k - 1 \in Rows /\ new.rows[k] = sd.rows[k - 1]
    <3>1. k \in Rows /\ k - 1 \in Rows /\ k > pos /\ k <= sd.depth
      BY <1>2, <1>3, RowType
    <3> QED BY <1>6, <3>1
  <2>2. ASSUME NEW k \in Rows, k \notin F
        PROVE  \/ Active(new.rows[k]) = {}
               \/ new.rows[k] = sd.rows[k] /\ k + 1 \notin F
    <3>1. CASE k = pos
      BY <1>6, <1>7, <3>1
    <3>2. CASE k # pos
      <4>1. (k < pos \/ k > sd.depth) /\ k + 1 \notin F
        BY <1>2, <1>3, <2>2, <3>2, RowType
      <4> QED BY <1>6, <4>1
    <3> QED BY <3>1, <3>2
  <2>3. ASSUME NEW k \in Rows, Active(sd.rows[k]) # {}
        PROVE  \/ k + 1 \in F /\ k + 1 < new.depth
               \/ k \notin F /\ new.rows[k] = sd.rows[k] /\ k < new.depth
    <3>1. k < sd.depth
      <4>1. sd.rows[k] # EmptyLevel
        BY <2>3, EmptyLevelOK
      <4> QED BY <1>1, <1>2, <4>1, RowType DEF Clear
    <3>2. CASE k >= pos
      BY <1>2, <1>3, <1>5, <3>1, <3>2, RowType
    <3>3. CASE k < pos
      <4>1. k \notin F /\ k < new.depth
        BY <1>2, <1>3, <1>5, <3>1, <3>3, RowType
      <4> QED BY <1>6, <3>3, <4>1
    <3> QED BY <1>3, <3>2, <3>3, RowType
  <2> HIDE DEF F
  <2>4. pos + 1 \in Int /\ sd.depth \in Int
    BY <1>2, <1>3
  <2> QED BY <1>5, <2>1, <2>2, <2>3, <2>4 DEF Shifted, F
<1>15. Indexed(new, b) /\ IndexKept(sd.index, new.index, b)
  BY <1>1, <1>14, ShiftedIndex
<1>16. SideOK(new, b, {pos})
  BY <1>9, <1>10, <1>11, <1>12, <1>13, <1>15 DEF SideOK
<1>17. pos < new.depth
  BY <1>2, <1>3, <1>5
<1>18. Made(sd, new, pos, price)
  BY <1>3, <1>4, <1>5, <1>6 DEF Made, fresh
<1> QED BY <1>4, <1>6, <1>15, <1>16, <1>17, <1>18 DEF pos, new, fresh

\* new is sd without the empty level of this row.
Dropped(sd, new, row) ==
    /\ ~(sd.rows[row].count > 0) /\ new.depth = sd.depth - 1
    /\ \A k \in Rows : k < row => new.rows[k] = sd.rows[k]
    /\ \A k \in Rows : k >= row /\ k < sd.depth - 1 => new.rows[k] = sd.rows[k + 1]
    /\ \A k \in Rows : k >= sd.depth - 1 => new.rows[k] = EmptyLevel

LEMMA RemovedOK ==
    ASSUME NEW sd, NEW b \in Books, NEW row \in Rows, SideOK(sd, b, {row}), row < sd.depth
    PROVE  LET new == remove_level_if_empty(sd, b, row)
           IN  /\ SideOK(new, b, {}) /\ IndexKept(sd.index, new.index, b)
               /\ new = sd \/ Dropped(sd, new, row)
<1> DEFINE new == remove_level_if_empty(sd, b, row)
           last == sd.depth - 1
<1>1. /\ sd \in SideType /\ InOrder(sd, b) /\ Filled(sd, {row}) /\ Clear(sd) /\ Indexed(sd, b)
      /\ \A k \in Rows : LevelOK(sd.rows[k])
  BY DEF SideOK
<1>2. /\ sd.depth \in Nat /\ sd.depth <= MaxLevels /\ sd.depth # 0 /\ row \in Nat
      /\ \A k \in Rows : sd.rows[k] \in Level /\ sd.rows[k].price \in Nat
      /\ sd.index \in [Refs -> Location \cup {Nowhere}]
  BY <1>1, RowType, PriceType DEF SideType
<1>3. CASE sd.rows[row].count > 0
  <2>1. new = sd
    BY <1>3 DEF remove_level_if_empty
  <2>2. Filled(sd, {})
    BY <1>1, <1>3 DEF Filled
  <2>3. SideOK(sd, b, {}) /\ IndexKept(sd.index, sd.index, b)
    BY <1>1, <2>2 DEF SideOK, IndexKept
  <2> QED BY <2>1, <2>3
<1>4. CASE ~(sd.rows[row].count > 0)
  <2>1. /\ new.rows = [k \in Rows |-> CASE k = last -> EmptyLevel
                                        [] k >= row /\ k < last -> sd.rows[k + 1]
                                        [] OTHER -> sd.rows[k]]
        /\ new.depth = last
        /\ new.index = refresh_level_locations(sd.index, b, new.rows, row, last - 1)
        /\ new = [rows |-> new.rows, depth |-> new.depth, index |-> new.index]
    BY <1>2, <1>4 DEF remove_level_if_empty
  <2>2. last \in Nat /\ last < MaxLevels /\ row <= last /\ last \in Rows
    BY <1>2, RowType
  <2> HIDE DEF new
  <2>3. /\ new.rows[last] = EmptyLevel
        /\ \A k \in Rows : k >= row /\ k < last => new.rows[k] = sd.rows[k + 1]
        /\ \A k \in Rows : k < row \/ k > last => new.rows[k] = sd.rows[k]
    BY <1>2, <2>1, <2>2, RowType
  <2>4. Active(sd.rows[row]) = {}
    <3>1. sd.rows[row].count = Cardinality(Active(sd.rows[row]))
      BY <1>1 DEF LevelOK, Counted
    <3>2. IsFiniteSet(Active(sd.rows[row])) /\ Cardinality(Active(sd.rows[row])) \in Nat
      BY ActiveFinite, PlaceType
    <3>3. Cardinality(Active(sd.rows[row])) = 0
      BY <1>4, <3>1, <3>2
    <3> QED BY <3>2, <3>3, FS_EmptySet
  <2>5. LevelOK(EmptyLevel) /\ Active(EmptyLevel) = {}
    BY EmptyLevelOK
  <2>6. \A k \in Rows : \/ k = last
                        \/ k >= row /\ k < last /\ k + 1 \in Rows
                        \/ k < row \/ k > last
    BY <1>2, <2>2, RowType
  <2>7. \A k \in Rows : LevelOK(new.rows[k])
    BY <1>1, <2>3, <2>5, <2>6
  <2>8. new \in SideType
    <3>1. new.rows \in [Rows -> Level]
      <4>1. \A k \in Rows : new.rows[k] \in Level
        BY <2>7 DEF LevelOK
      <4>2. new.rows = [k \in Rows |-> new.rows[k]]
        BY <2>1
      <4> QED BY <4>1, <4>2
    <3>2. new.depth \in 0 .. MaxLevels
      BY <1>2, <2>1, <2>2, RowType
    <3>3. new.index \in [Refs -> Location \cup {Nowhere}]
      <4>1. row .. last - 1 \subseteq Rows
        BY <1>2, <2>2, RowType
      <4> QED BY <1>2, <2>1, <4>1, RefreshType
    <3> QED BY <2>1, <3>1, <3>2, <3>3 DEF SideType
  <2>9. InOrder(new, b)
    <3> SUFFICES ASSUME NEW j \in Rows, NEW k \in Rows, j < k, k < last
                 PROVE  Ahead(b, new.rows[j].price, new.rows[k].price)
      BY <2>1 DEF InOrder
    <3>0. j \in Nat /\ k \in Nat
      BY RowType
    <3>1. CASE k < row
      <4>1. new.rows[j] = sd.rows[j] /\ new.rows[k] = sd.rows[k] /\ k < sd.depth
        BY <1>2, <2>2, <2>3, <3>0, <3>1
      <4> QED BY <1>1, <4>1 DEF InOrder
    <3>2. CASE j < row /\ k >= row
      <4>1. k + 1 \in Rows /\ j < k + 1 /\ k + 1 < sd.depth
        BY <1>2, <2>2, <3>0, RowType
      <4>2. new.rows[j] = sd.rows[j] /\ new.rows[k] = sd.rows[k + 1]
        BY <2>3, <3>2
      <4> QED BY <1>1, <4>1, <4>2 DEF InOrder
    <3>3. CASE j >= row
      <4>1. /\ k + 1 \in Rows /\ j + 1 \in Rows /\ j + 1 < k + 1 /\ k + 1 < sd.depth
            /\ k >= row /\ j < last
        BY <1>2, <2>2, <3>0, <3>3, RowType
      <4>2. new.rows[j] = sd.rows[j + 1] /\ new.rows[k] = sd.rows[k + 1]
        BY <2>3, <3>3, <4>1
      <4> QED BY <1>1, <4>1, <4>2 DEF InOrder
    <3> QED BY <1>2, <3>0, <3>1, <3>2, <3>3
  <2>10. Filled(new, {})
    <3> SUFFICES ASSUME NEW k \in Rows, k < last PROVE new.rows[k].count > 0
      BY <2>1 DEF Filled
    <3>1. CASE k < row
      <4>1. new.rows[k] = sd.rows[k] /\ k < sd.depth /\ k # row
        BY <1>2, <2>2, <2>3, <3>1, RowType
      <4> QED BY <1>1, <4>1 DEF Filled
    <3>2. CASE k >= row
      <4>1. k + 1 \in Rows /\ k + 1 < sd.depth /\ k + 1 # row
        BY <1>2, <2>2, <3>2, RowType
      <4>2. new.rows[k] = sd.rows[k + 1]
        BY <2>3, <3>2
      <4> QED BY <1>1, <4>1, <4>2 DEF Filled
    <3> QED BY <1>2, <3>1, <3>2, RowType
  <2>11. Clear(new)
    <3> SUFFICES ASSUME NEW k \in Rows, k >= last PROVE new.rows[k] = EmptyLevel
      BY <2>1 DEF Clear
    <3>1. CASE k = last
      BY <2>3, <3>1
    <3>2. CASE k # last
      <4>1. k > last /\ k >= sd.depth
        BY <1>2, <2>2, <3>2, RowType
      <4> QED BY <1>1, <2>3, <4>1 DEF Clear
    <3> QED BY <3>1, <3>2
  <2>12. Shifted(sd, new, b, row, last - 1, -1)
    <3> DEFINE F == row .. last - 1
    <3>1. ASSUME NEW k \in F PROVE k \in Rows /\ k - (-1) \in Rows /\ new.rows[k] = sd.rows[k - (-1)]
      <4>1. k \in Rows /\ k - (-1) = k + 1 /\ k + 1 \in Rows /\ k >= row /\ k < last
        BY <1>2, <2>2, RowType
      <4> QED BY <2>3, <4>1
    <3>2. ASSUME NEW k \in Rows, k \notin F
          PROVE  \/ Active(new.rows[k]) = {}
                 \/ new.rows[k] = sd.rows[k] /\ k + (-1) \notin F
      <4>1. CASE k = last
        BY <2>3, <2>5, <4>1
      <4>2. CASE k # last
        <5>1. (k < row \/ k > last) /\ k + (-1) \notin F
          BY <1>2, <2>2, <3>2, <4>2, RowType
        <5> QED BY <2>3, <5>1
      <4> QED BY <4>1, <4>2
    <3>3. ASSUME NEW k \in Rows, Active(sd.rows[k]) # {}
          PROVE  \/ k + (-1) \in F /\ k + (-1) < new.depth
                 \/ k \notin F /\ new.rows[k] = sd.rows[k] /\ k < new.depth
      <4>1. k < sd.depth /\ k # row
        <5>1. sd.rows[k] # EmptyLevel
          BY <2>5, <3>3
        <5>2. ~(k >= sd.depth)
          BY <1>1, <5>1 DEF Clear
        <5>3. k # row
          BY <2>4, <3>3
        <5> QED BY <1>2, <5>2, <5>3, RowType
      <4>2. CASE k > row
        BY <1>2, <2>1, <2>2, <4>1, <4>2, RowType
      <4>3. CASE k < row
        <5>1. k \notin F /\ k < new.depth
          BY <1>2, <2>1, <2>2, <4>1, <4>3, RowType
        <5> QED BY <2>3, <4>3, <5>1
      <4> QED BY <1>2, <4>1, <4>2, <4>3, RowType
    <3> HIDE DEF F
    <3>4. row \in Int /\ last - 1 \in Int /\ -1 \in {-1, 1}
      BY <1>2, <2>2
    <3> HIDE DEF last
    <3> QED BY <2>1, <3>1, <3>2, <3>3, <3>4 DEF Shifted, F
  <2>13. Indexed(new, b) /\ IndexKept(sd.index, new.index, b)
    BY <1>1, <2>12, ShiftedIndex
  <2>14. SideOK(new, b, {})
    BY <2>7, <2>8, <2>9, <2>10, <2>11, <2>13 DEF SideOK
  <2>15. Dropped(sd, new, row)
    BY <1>2, <1>4, <2>1, <2>2, <2>3, <2>11, RowType DEF Dropped, Clear
  <2> QED BY <2>13, <2>14, <2>15 DEF new
<1> QED BY <1>3, <1>4

-----------------------------------------------------------------------------
(***************************************************************************)
(* The two halves of the handlers, on one level.                           *)
(***************************************************************************)

\* A level holds at least what any of its orders has.
LEMMA TotalCovers ==
    ASSUME NEW level, LevelOK(level), NEW i \in Active(level)
    PROVE  /\ level.orders[i].qty \in Nat /\ level.orders[i].qty > 0
           /\ level.total \in Nat /\ level.orders[i].qty <= level.total
<1>1. level \in Level /\ i \in Places /\ level.total = TotalQty(level) /\ level.orders[i].qty > 0
  BY DEF LevelOK, Counted, Active
<1>2. level.total \in Nat /\ \A j \in Places : level.orders[j].qty \in Nat
  BY <1>1 DEF Level, Slot
<1>3. PICK f : PartialSums(Quantities(level), f, MaxOrders) /\ TotalQty(level) = f[MaxOrders]
  BY <1>1, TotalDefined
<1>4. Quantities(level) \in [1 .. MaxOrders -> Int]
  BY <1>1, QuantitiesType
<1>5. \A n \in 1 .. MaxOrders : Quantities(level)[n] >= 0
  <2>1. \A n \in 1 .. MaxOrders : n - 1 \in Places
    BY PlaceType DEF Places
  <2> QED BY <1>2, <2>1 DEF Quantities
<1>6. i + 1 \in 1 .. MaxOrders /\ (i + 1) - 1 = i
  BY <1>1, PlaceType DEF Places
<1>7. Quantities(level)[i + 1] = level.orders[i].qty
  BY <1>6 DEF Quantities
<1>8. f[MaxOrders] >= Quantities(level)[i + 1]
  BY <1>3, <1>4, <1>5, <1>6, PlaceType, SumBound
<1> QED BY <1>1, <1>2, <1>3, <1>7, <1>8

\* The level with the order in place i, before it is linked.
Taken(level, i, r, q) ==
    [level EXCEPT !.orders[i] = [EmptySlot EXCEPT !.ref = r, !.qty = q]]

Joined(level, i, r, q) ==
    [link_slot(Taken(level, i, r, q), i) EXCEPT !.total = @ + q, !.count = @ + 1]

LEMMA JoinedEnters ==
    ASSUME NEW L, LevelOK(L), NEW i \in Places, i \notin Active(L),
           NEW r \in Refs, NEW q \in Qtys
    PROVE  Entered(L, Joined(L, i, r, q), i, r, q) /\ Joined(L, i, r, q).price = L.price
<1> DEFINE N == Taken(L, i, r, q)
           M == Joined(L, i, r, q)
           K == link_slot(N, i)
           slot == [EmptySlot EXCEPT !.ref = r, !.qty = q]
<1>1. /\ L \in Level /\ q \in Nat /\ slot \in Slot
      /\ slot.ref = r /\ slot.qty = q /\ slot.next = None /\ slot.prev = None
  <2>1. q \in Nat
    BY LOBAssumption
  <2> QED BY <2>1 DEF LevelOK, Slot, EmptySlot
<1>2. /\ N \in Level /\ N.price = L.price /\ N.head = L.head
      /\ N.total = L.total /\ N.count = L.count
      /\ N.orders[i] = slot
      /\ \A j \in Places : j # i => N.orders[j] = L.orders[j]
  <2>1. N = [L EXCEPT !.orders[i] = slot]
    BY Zenon DEF Taken
  <2> HIDE DEF N, slot
  <2> QED BY <1>1, <2>1 DEF Level
<1>3. L.total \in Nat /\ L.count \in Nat /\ L.count + 1 \in 0 .. MaxOrders
  <2>1. L.total \in Nat /\ L.count = Cardinality(Active(L))
    BY <1>1 DEF Level, LevelOK, Counted
  <2>2. Cardinality(Active(L) \cup {i}) = Cardinality(Active(L)) + 1
    BY ActiveFinite, FS_AddElement
  <2>3. Cardinality(Active(L) \cup {i}) <= Cardinality(Places)
    <3>1. Active(L) \cup {i} \in SUBSET Places
      BY ActiveFinite
    <3> QED BY <3>1, PlaceType, FS_Subset
  <2> QED BY <2>1, <2>2, <2>3, ActiveFinite, PlaceType
<1>4. M = [K EXCEPT !.total = @ + q, !.count = @ + 1]
  BY DEF Joined
<1> HIDE DEF N, M, slot
<1>5. ASSUME K \in Level, K.total = L.total, K.count = L.count, K.price = L.price
      PROVE  /\ M \in Level /\ M.total = L.total + q /\ M.count = L.count + 1
             /\ M.price = L.price /\ M.head = K.head /\ M.orders = K.orders
  <2> HIDE DEF K
  <2>1. L.total + q \in Nat
    BY <1>1, <1>3
  <2> QED BY <1>3, <1>4, <1>5, <2>1 DEF Level
<1>6. CASE L.head = None
  <2>1. K = [N EXCEPT !.head = i, !.orders[i].next = None, !.orders[i].prev = None]
    BY <1>2, <1>6 DEF link_slot
  <2> HIDE DEF K
  <2>2. K \in Level /\ K.total = L.total /\ K.count = L.count /\ K.price = L.price /\ K.head = i
    <3> DEFINE K0 == [N EXCEPT !.head = i]
               K1 == [K0 EXCEPT !.orders[i].next = None]
    <3>1. /\ K0 \in Level /\ K0.total = L.total /\ K0.count = L.count
          /\ K0.price = L.price /\ K0.head = i
      BY <1>2 DEF Level
    <3>2. K = [K1 EXCEPT !.orders[i].prev = None]
      BY <2>1
    <3> HIDE DEF K0
    <3>3. /\ K1 \in Level /\ K1.total = L.total /\ K1.count = L.count
          /\ K1.price = L.price /\ K1.head = i
      BY <3>1 DEF Level, Slot
    <3> HIDE DEF K1
    <3> QED BY <3>2, <3>3 DEF Level, Slot
  <2>3. /\ K.orders[i].ref = r /\ K.orders[i].qty = q
        /\ K.orders[i].next = None /\ K.orders[i].prev = None
        /\ \A j \in Places : j # i => K.orders[j] = L.orders[j]
    BY <1>1, <1>2, <2>1 DEF Level, Slot
  <2>4. /\ M \in Level /\ M.total = L.total + q /\ M.count = L.count + 1
        /\ M.price = L.price /\ M.head = K.head /\ M.orders = K.orders
    BY <1>5, <2>2
  <2>5. Entered(L, M, i, r, q)
    BY <1>6, <2>2, <2>3, <2>4 DEF Entered, SameSlot
  <2> QED BY <2>4, <2>5 DEF M
<1>7. CASE L.head # None
  <2> DEFINE t == TailOf(N)
  <2>1. PICK rank : Ascends(L, rank)
    BY DEF LevelOK
  <2>2. Walkable(N, Active(L), rank)
    <3>1. N.orders \in [Places -> Slot] /\ Active(L) \subseteq Places
      BY <1>2, ActiveFinite DEF Level
    <3>2. N.head \in Active(L)
      BY <1>2, <1>7 DEF LevelOK, Linked
    <3>3. \A j \in Active(L) : N.orders[j] = L.orders[j]
      BY <1>2, <3>1
    <3>4. \A j \in Active(L) : L.orders[j].next # None =>
              L.orders[j].next \in Active(L) /\ rank[j] < rank[L.orders[j].next]
      BY <2>1, Neighbours DEF Ascends
    <3> QED BY <2>1, <3>1, <3>2, <3>3, <3>4 DEF Walkable, Ascends
  <2>3. t \in Active(L) /\ N.orders[t].next = None
    BY <2>2, TailFound
  <2>4. K = [N EXCEPT !.orders[t].next = i, !.orders[i].next = None, !.orders[i].prev = t]
    BY <1>2, <1>7 DEF link_slot
  <2> HIDE DEF K, t
  <2>5. t \in Places /\ t # i /\ N.orders[t] = L.orders[t]
    BY <1>2, <2>3, ActiveFinite
  <2>6. K \in Level /\ K.total = L.total /\ K.count = L.count /\ K.price = L.price /\ K.head = L.head
    <3> DEFINE K1 == [N EXCEPT !.orders[t].next = i]
    <3>1. /\ K1 \in Level /\ K1.total = L.total /\ K1.count = L.count
          /\ K1.price = L.price /\ K1.head = L.head
      BY <1>2, <2>5 DEF Level, Slot
    <3>2. K = [K1 EXCEPT !.orders[i].next = None, !.orders[i].prev = t]
      BY <2>4
    <3> HIDE DEF K1
    <3> DEFINE K2 == [K1 EXCEPT !.orders[i].next = None]
    <3>3. /\ K2 \in Level /\ K2.total = L.total /\ K2.count = L.count
          /\ K2.price = L.price /\ K2.head = L.head
      BY <3>1 DEF Level, Slot
    <3>4. K = [K2 EXCEPT !.orders[i].prev = t]
      BY <3>2
    <3> HIDE DEF K2
    <3> QED BY <2>5, <3>3, <3>4 DEF Level, Slot
  <2>7. /\ K.orders[i].ref = r /\ K.orders[i].qty = q
        /\ K.orders[i].next = None /\ K.orders[i].prev = t
    BY <1>1, <1>2, <2>4, <2>5 DEF Level, Slot
  <2>8. /\ K.orders[t].ref = L.orders[t].ref /\ K.orders[t].qty = L.orders[t].qty
        /\ K.orders[t].prev = L.orders[t].prev /\ K.orders[t].next = i
    BY <1>2, <2>4, <2>5 DEF Level, Slot
  <2>9. \A j \in Places : j # i /\ j # t => K.orders[j] = L.orders[j]
    BY <1>2, <2>4, <2>5 DEF Level, Slot
  <2>10. /\ M \in Level /\ M.total = L.total + q /\ M.count = L.count + 1
         /\ M.price = L.price /\ M.head = K.head /\ M.orders = K.orders
    BY <1>5, <2>6
  <2>11. Entered(L, M, i, r, q)
    BY <1>7, <2>3, <2>5, <2>6, <2>7, <2>8, <2>9, <2>10 DEF Entered, SameSlot
  <2> QED BY <2>10, <2>11 DEF M
<1> QED BY <1>6, <1>7

\* level is L with the quantity of place i taken out of its total.
Drained(L, level, i) ==
    /\ level \in Level /\ i \in Active(L)
    /\ level.price = L.price /\ level.head = L.head
    /\ level.count = L.count /\ level.total = L.total - L.orders[i].qty
    /\ level.orders[i].next = L.orders[i].next /\ level.orders[i].prev = L.orders[i].prev
    /\ \A j \in Places : j # i => level.orders[j] = L.orders[j]

LEMMA UnlinkedLeaves ==
    ASSUME NEW L, LevelOK(L), NEW N, NEW i, Drained(L, N, i)
    PROVE  LET M == [Unlinked(N, i) EXCEPT !.count = @ - 1]
           IN  Left(L, M, i) /\ M.price = L.price
<1> DEFINE M == [Unlinked(N, i) EXCEPT !.count = @ - 1]
           U == unlink_slot(N, i)
           p == L.orders[i].prev
           n == L.orders[i].next
<1>1. /\ N \in Level /\ i \in Active(L) /\ i \in Places /\ L \in Level
      /\ N.orders[i].next = n /\ N.orders[i].prev = p /\ N.head = L.head
      /\ N.price = L.price /\ N.count = L.count /\ N.total = L.total - L.orders[i].qty
      /\ \A j \in Places : j # i => N.orders[j] = L.orders[j]
  BY ActiveFinite DEF Drained, LevelOK
<1>2. /\ p \in Places \cup {None} /\ n \in Places \cup {None}
      /\ p # i /\ n # i /\ (p # None => p # n)
  <2>1. p \in Places \cup {None} /\ n \in Places \cup {None}
    BY <1>1 DEF Level, Slot
  <2>2. i # None
    BY <1>1, PlaceType
  <2> QED BY <1>1, <2>1, <2>2, Neighbours
<1> DEFINE slots == [j \in Places |-> CASE j = p -> [N.orders[j] EXCEPT !.next = n]
                                       [] j = n -> [N.orders[j] EXCEPT !.prev = p]
                                       [] OTHER -> N.orders[j]]
<1>3. U = [N EXCEPT !.head = IF p = None THEN n ELSE @, !.orders = slots]
  BY <1>1 DEF unlink_slot
<1>4. M = [[U EXCEPT !.orders[i] = EmptySlot] EXCEPT !.count = @ - 1]
  BY DEF Unlinked
<1> HIDE DEF U, M, p, n
<1>5. ASSUME NEW j \in Places
      PROVE  /\ slots[j] \in Slot
             /\ slots[j].ref = N.orders[j].ref /\ slots[j].qty = N.orders[j].qty
             /\ slots[j].next = IF j = p THEN n ELSE N.orders[j].next
             /\ slots[j].prev = IF j = n THEN p ELSE N.orders[j].prev
             /\ j # p /\ j # n => slots[j] = N.orders[j]
  <2>1. j # None /\ N.orders[j] \in Slot
    BY <1>1, PlaceType DEF Level
  <2>2. CASE j = p
    <3>1. slots[j] = [N.orders[j] EXCEPT !.next = n] /\ j # n
      BY <1>2, <2>1, <2>2
    <3> QED BY <1>2, <2>1, <2>2, <3>1 DEF Slot
  <2>3. CASE j # p /\ j = n
    <3>1. slots[j] = [N.orders[j] EXCEPT !.prev = p]
      BY <2>3
    <3> QED BY <1>2, <2>1, <2>3, <3>1 DEF Slot
  <2>4. CASE j # p /\ j # n
    <3>1. slots[j] = N.orders[j]
      BY <2>4
    <3> QED BY <2>1, <2>4, <3>1
  <2> QED BY <2>2, <2>3, <2>4
<1>6. slots \in [Places -> Slot] /\ EmptySlot \in Slot
  <2>1. EmptySlot \in Slot
    BY DEF EmptySlot, Slot
  <2>2. DOMAIN slots = Places /\ slots = [j \in Places |-> slots[j]]
    OBVIOUS
  <2> HIDE DEF slots
  <2> QED BY <1>5, <2>1, <2>2
<1> HIDE DEF slots
<1>7. /\ L.orders[i].qty \in Nat /\ L.total \in Nat /\ L.orders[i].qty <= L.total
      /\ L.count \in 0 .. MaxOrders /\ L.count > 0
  <2>1. L.count = Cardinality(Active(L))
    BY DEF LevelOK, Counted
  <2>2. Cardinality(Active(L)) # 0
    BY <1>1, ActiveFinite, FS_EmptySet
  <2> QED BY <1>1, <2>1, <2>2, ActiveFinite, TotalCovers, PlaceType
<1>8. /\ U \in Level /\ U.orders = slots /\ U.count = L.count /\ U.price = L.price
      /\ U.total = L.total - L.orders[i].qty
      /\ U.head = IF p = None THEN n ELSE L.head
  <2>1. (IF p = None THEN n ELSE N.head) \in Places \cup {None}
    BY <1>1, <1>2 DEF Level
  <2> QED BY <1>1, <1>3, <1>6, <2>1 DEF Level
<1>9. /\ M \in Level /\ M.count = L.count - 1 /\ M.price = L.price
      /\ M.total = L.total - L.orders[i].qty /\ M.head = IF p = None THEN n ELSE L.head
      /\ M.orders[i] = EmptySlot /\ \A j \in Places : j # i => M.orders[j] = slots[j]
  <2>1. L.count - 1 \in 0 .. MaxOrders
    BY <1>7, PlaceType
  <2> QED BY <1>1, <1>4, <1>6, <1>8, <2>1 DEF Level
<1>10. \A j \in Places : j # i =>
           /\ M.orders[j].ref = L.orders[j].ref /\ M.orders[j].qty = L.orders[j].qty
           /\ M.orders[j].next = IF j = p THEN n ELSE L.orders[j].next
           /\ M.orders[j].prev = IF j = n THEN p ELSE L.orders[j].prev
           /\ j # p /\ j # n => M.orders[j] = L.orders[j]
  BY <1>1, <1>5, <1>9
<1>11. Left(L, M, i)
  BY <1>1, <1>9, <1>10 DEF Left, SameSlot, p, n
<1> QED BY <1>9, <1>11 DEF M

-----------------------------------------------------------------------------
(***************************************************************************)
(* The two halves of the handlers, on a side.                              *)
(***************************************************************************)

\* new is sd with another level, of the same price, in a row in use.
RowChange(sd, new, row) ==
    /\ new \in SideType /\ row \in Rows /\ row < sd.depth /\ new.depth = sd.depth
    /\ LevelOK(new.rows[row]) /\ new.rows[row].price = sd.rows[row].price
    /\ \A k \in Rows : k # row => new.rows[k] = sd.rows[k]

LEMMA RowChanged ==
    ASSUME NEW sd, NEW new, NEW b, NEW row, SideOK(sd, b, {row}), RowChange(sd, new, row)
    PROVE  /\ \A k \in Rows : LevelOK(new.rows[k])
           /\ InOrder(new, b) /\ Filled(new, {row}) /\ Clear(new)
<1>1. /\ row \in Rows /\ row < sd.depth /\ new.depth = sd.depth
      /\ LevelOK(new.rows[row])
      /\ \A k \in Rows : k # row => new.rows[k] = sd.rows[k]
  BY DEF RowChange
<1>2. \A k \in Rows : new.rows[k].price = sd.rows[k].price
  BY DEF RowChange
<1>3. \A k \in Rows : LevelOK(new.rows[k])
  BY <1>1 DEF SideOK
<1>4. InOrder(new, b)
  BY <1>1, <1>2 DEF SideOK, InOrder
<1>5. Filled(new, {row})
  BY <1>1 DEF SideOK, Filled
<1>6. Clear(new)
  <2>1. sd.depth \in Int /\ row \in Int
    BY RowType DEF SideOK, SideType, RowChange
  <2>2. \A k \in Rows : k >= sd.depth => k # row
    BY <1>1, <2>1, RowType
  <2> QED BY <1>1, <2>2 DEF SideOK, Clear
<1> QED BY <1>3, <1>4, <1>5, <1>6

LEMMA WeakerFilled ==
    ASSUME NEW sd, NEW b, NEW row, SideOK(sd, b, {})
    PROVE  SideOK(sd, b, {row})
BY DEF SideOK, Filled

\* A reference without an entry gets none.
NowhereKept(ix, jx) == \A r \in Refs : ix[r] = Nowhere => jx[r] = Nowhere

LEMMA RefreshNowhere ==
    ASSUME NEW ix, NEW b, NEW rows, NEW first, NEW last
    PROVE  NowhereKept(ix, refresh_level_locations(ix, b, rows, first, last))
BY Refreshed DEF NowhereKept

\* There is a level with the price and a place in it for the order.
Ready(sd, b, price, ref, row) ==
    /\ SideOK(sd, b, {row}) /\ row \in Rows /\ row < sd.depth
    /\ sd.rows[row].price = price
    /\ sd.index[ref] = Nowhere
    /\ alloc_slot(sd.rows[row]) \in Places
    /\ alloc_slot(sd.rows[row]) \notin Active(sd.rows[row])

LEMMA SlotAllocated ==
    ASSUME NEW level, alloc_slot(level) # None
    PROVE  alloc_slot(level) \in Places /\ alloc_slot(level) \notin Active(level)
<1> DEFINE free == {i \in Places : level.orders[i].ref = NoRef}
<1>1. free # {} /\ alloc_slot(level) = Min(free)
  BY DEF alloc_slot
<1>2. free \subseteq Nat
  BY PlaceType
<1>3. Min(free) \in free
  <2> HIDE DEF free
  <2> QED BY <1>1, <1>2, MinIn
<1> QED BY <1>1, <1>3 DEF Active

LEMMA EmptyHasPlace ==
    ASSUME NEW level, Active(level) = {}
    PROVE  alloc_slot(level) # None
<1> DEFINE free == {i \in Places : level.orders[i].ref = NoRef}
<1>1. 0 \in free
  BY PlaceType DEF Active
<1>2. free \subseteq Nat /\ free # {}
  BY <1>1, PlaceType
<1>3. alloc_slot(level) = Min(free)
  BY <1>2 DEF alloc_slot
<1>4. Min(free) \in free
  <2> HIDE DEF free
  <2> QED BY <1>2, MinIn
<1>5. Min(free) \in Places
  BY <1>4
<1> HIDE DEF free
<1> QED BY <1>3, <1>5, PlaceType

LEMMA OpenedReady ==
    ASSUME NEW sd, NEW b \in Books, SideOK(sd, b, {}), NEW price \in Prices,
           NEW ref \in Refs, sd.index[ref] = Nowhere, Fits(sd, b, price)
    PROVE  LET ready == Opened(sd, b, price)
           IN  /\ Ready(ready, b, price, ref, find_level(ready, b, price))
               /\ IndexKept(sd.index, ready.index, b)
<1> DEFINE ready == Opened(sd, b, price)
           row == find_level(ready, b, price)
           old == find_level(sd, b, price)
<1>1. price \in Nat
  BY LOBAssumption
<1>2. Found(sd, price, old)
  BY <1>1, SearchFinds DEF SideOK
<1>3. CASE old # None
  <2>1. ready = sd
    BY <1>3 DEF Opened
  <2>2. old \in Rows /\ old < sd.depth /\ sd.rows[old].price = price
    BY <1>2, <1>3 DEF Found
  <2>3. alloc_slot(sd.rows[old]) # None
    BY <1>3 DEF Fits
  <2> HIDE DEF old
  <2>4. Ready(sd, b, price, ref, old)
    BY <2>2, <2>3, WeakerFilled, SlotAllocated DEF Ready
  <2>5. IndexKept(sd.index, sd.index, b)
    BY DEF IndexKept
  <2> QED BY <2>1, <2>4, <2>5 DEF old
<1>4. CASE old = None
  <2> DEFINE pos == insert_pos(sd, b, price)
             new == insert_level_impl(sd, b, price)
  <2>1. ready = new
    BY <1>4 DEF Opened
  <2>2. sd.depth < MaxLevels /\ \A k \in Rows : k < sd.depth => sd.rows[k].price # price
    <3>1. sd.depth < MaxLevels
      BY <1>4 DEF Fits
    <3>2. \A k \in Rows : k < sd.depth => sd.rows[k].price # price
      BY <1>2, <1>4, RowType DEF Found
    <3> QED BY <3>1, <3>2
  <2>3. /\ pos \in Rows /\ pos < new.depth
        /\ SideOK(new, b, {pos})
        /\ new.rows[pos] = [EmptyLevel EXCEPT !.price = price]
        /\ IndexKept(sd.index, new.index, b)
    BY <2>2, InsertedOK
  <2>4. new.index[ref] = Nowhere
    <3>1. \E rows, first, last :
              new.index = refresh_level_locations(sd.index, b, rows, first, last)
      BY DEF insert_level_impl
    <3>2. NowhereKept(sd.index, new.index)
      <4> HIDE DEF new
      <4> QED BY <3>1, RefreshNowhere
    <3> QED BY <3>2 DEF NowhereKept
  <2> HIDE DEF new, pos
  <2>5. Active(new.rows[pos]) = {} /\ new.rows[pos].price = price
    BY <2>3, EmptyLevelOK
  <2>6. alloc_slot(new.rows[pos]) # None
    BY <2>5, EmptyHasPlace
  <2>7. Ready(new, b, price, ref, pos)
    BY <2>3, <2>4, <2>5, <2>6, SlotAllocated DEF Ready
  <2>8. find_level(new, b, price) = pos
    <3> DEFINE f == find_level(new, b, price)
    <3>1. Found(new, price, f)
      BY <1>1, <2>3, SearchFinds DEF SideOK
    <3> HIDE DEF f
    <3>2. f \in Rows /\ f < new.depth /\ new.rows[f].price = price
      BY <2>3, <2>5, <3>1 DEF Found
    <3>3. ~Ahead(b, price, price)
      BY <1>1, AheadOrder
    <3>4. ~(f < pos) /\ ~(pos < f)
      BY <2>3, <2>5, <3>2, <3>3 DEF SideOK, InOrder
    <3>5. f = pos
      BY <2>3, <3>2, <3>4, RowType
    <3> QED BY <3>5 DEF f
  <2> QED BY <2>1, <2>3, <2>7, <2>8
<1> QED BY <1>3, <1>4

\* new is ready with an order of this price, in the last place of its level's list.
Placed(ready, new, b, price, ref, qty) ==
    \E row, place :
        /\ Ready(ready, b, price, ref, row) /\ RowChange(ready, new, row)
        /\ new.index[ref] = At(b, row, place)
        /\ Entered(ready.rows[row], new.rows[row], place, ref, qty)

LEMMA AttachedOK ==
    ASSUME NEW sd, NEW b \in Books, SideOK(sd, b, {}), NEW price \in Prices,
           NEW ref \in Refs, NEW qty \in Qtys, sd.index[ref] = Nowhere, Fits(sd, b, price)
    PROVE  LET new == Attached(sd, b, price, ref, qty)
           IN  /\ SideOK(new, b, {}) /\ IndexKept(sd.index, new.index, b)
               /\ new.index[ref] # Nowhere /\ new.index[ref].book = b
               /\ Placed(Opened(sd, b, price), new, b, price, ref, qty)
<1> DEFINE ready == Opened(sd, b, price)
           row == find_level(ready, b, price)
           L == ready.rows[row]
           place == alloc_slot(L)
           M == Joined(L, place, ref, qty)
           new == Attached(sd, b, price, ref, qty)
<1>1. Ready(ready, b, price, ref, row) /\ IndexKept(sd.index, ready.index, b)
  BY OpenedReady
<1>2. new = [ready EXCEPT !.rows[row] = M, !.index[ref] = At(b, row, place)]
  BY Zenon DEF Attached, Joined, Taken, At
<1> HIDE DEF ready, row, new
<1>3. /\ ready \in SideType /\ row \in Rows /\ row < ready.depth
      /\ place \in Places /\ place \notin Active(L) /\ ready.index[ref] = Nowhere
      /\ LevelOK(L) /\ SideOK(ready, b, {row}) /\ Indexed(ready, b)
  BY <1>1 DEF Ready, SideOK
<1>4. Entered(L, M, place, ref, qty) /\ M.price = L.price
  BY <1>3, JoinedEnters
<1> HIDE DEF M, L, place
<1>5. /\ LevelOK(M) /\ M.count > 0 /\ M \in Level /\ M.orders[place].ref = ref
      /\ \A j \in Places : j # place => M.orders[j].ref = L.orders[j].ref
  <2>1. LevelOK(M) /\ M.count > 0
    BY <1>3, <1>4, EnteredOK
  <2>2. \A j \in Places : j # place => M.orders[j].ref = L.orders[j].ref
    BY <1>3, <1>4, EnteredKeeps
  <2>3. M \in Level /\ M.orders[place].ref = ref
    BY <1>4 DEF Entered
  <2> QED BY <2>1, <2>2, <2>3
<1> USE DEF L
<1>6. At(b, row, place) \in Location
  BY <1>3, AtFields
<1>7. /\ new \in SideType /\ new.depth = ready.depth
      /\ new.rows[row] = M /\ \A k \in Rows : k # row => new.rows[k] = ready.rows[k]
      /\ new.index[ref] = At(b, row, place)
      /\ \A r \in Refs : r # ref => new.index[r] = ready.index[r]
  BY <1>2, <1>3, <1>5, <1>6 DEF SideType
<1>8. RowChange(ready, new, row)
  BY <1>3, <1>4, <1>5, <1>7 DEF RowChange
<1>9. /\ \A k \in Rows : LevelOK(new.rows[k])
      /\ InOrder(new, b) /\ Filled(new, {row}) /\ Clear(new)
  BY <1>3, <1>8, RowChanged
<1>10. Filled(new, {})
  BY <1>5, <1>7, <1>9 DEF Filled
<1>11. \A k \in Rows, i \in Places : ~Holds(ready, k, i, ref)
  <2>1. \A k \in Rows, i \in Places : Holds(ready, k, i, ref) => ready.index[ref] = At(b, k, i)
    BY <1>3 DEF Indexed, At
  <2>2. ready.index[ref] = Nowhere
    BY <1>3
  <2> QED BY <2>1, <2>2, AtFields
<1>12. \A r \in Refs, k \in Rows, i \in Places :
          Holds(new, k, i, r) <=> \/ r = ref /\ k = row /\ i = place
                                  \/ r # ref /\ Holds(ready, k, i, r)
  <2> SUFFICES ASSUME NEW r \in Refs, NEW k \in Rows, NEW i \in Places
               PROVE  Holds(new, k, i, r) <=> \/ r = ref /\ k = row /\ i = place
                                              \/ r # ref /\ Holds(ready, k, i, r)
    OBVIOUS
  <2>1. L.orders[place].ref = NoRef /\ NoRef # r /\ place \in Places
    BY <1>3, LOBAssumption DEF Active
  <2>2. CASE k # row
    <3>1. Holds(new, k, i, r) <=> Holds(ready, k, i, r)
      BY <1>7, <2>2 DEF Holds
    <3> QED BY <1>11, <2>2, <3>1
  <2>3. CASE k = row /\ i # place
    <3>1. Holds(new, k, i, r) <=> Holds(ready, k, i, r)
      BY <1>5, <1>7, <2>3 DEF Holds
    <3> QED BY <1>11, <2>3, <3>1
  <2>4. CASE k = row /\ i = place
    <3>1. ~Holds(ready, k, i, r)
      BY <2>1, <2>4 DEF Holds
    <3>2. Holds(new, k, i, r) <=> r = ref
      BY <1>5, <1>7, <2>4 DEF Holds
    <3> QED BY <2>4, <3>1, <3>2
  <2> QED BY <2>2, <2>3, <2>4
<1>13. Indexed(new, b)
  <2>1. ASSUME NEW r \in Refs, new.index[r] # Nowhere, new.index[r].book = b
        PROVE  new.index[r].row < new.depth /\ Holds(new, new.index[r].row, new.index[r].place, r)
    <3>1. CASE r = ref
      BY <1>3, <1>7, <1>12, <3>1, AtFields
    <3>2. CASE r # ref
      <4>1. /\ ready.index[r].row < ready.depth
            /\ Holds(ready, ready.index[r].row, ready.index[r].place, r)
            /\ new.index[r] = ready.index[r]
        BY <1>3, <1>7, <2>1, <3>2 DEF Indexed
      <4>2. ready.index[r].row \in Rows /\ ready.index[r].place \in Places
        BY <4>1 DEF Holds
      <4> QED BY <1>7, <1>12, <3>2, <4>1, <4>2
    <3> QED BY <3>1, <3>2
  <2>2. ASSUME NEW r \in Refs, NEW k \in Rows, NEW i \in Places, Holds(new, k, i, r)
        PROVE  new.index[r] = At(b, k, i)
    <3>1. CASE r = ref
      BY <1>7, <1>12, <2>2, <3>1
    <3>2. CASE r # ref
      BY <1>3, <1>7, <1>12, <2>2, <3>2 DEF Indexed, At
    <3> QED BY <3>1, <3>2
  <2> QED BY <2>1, <2>2 DEF Indexed, At
<1>14. SideOK(new, b, {})
  BY <1>7, <1>9, <1>10, <1>13 DEF SideOK
<1>15. new.index[ref] # Nowhere /\ new.index[ref].book = b
  BY <1>3, <1>7, AtFields
<1>16. IndexKept(ready.index, new.index, b)
  BY <1>3, <1>7, <1>15 DEF IndexKept
<1>17. IndexKept(sd.index, new.index, b)
  BY <1>1, <1>16, IndexKeptTrans
<1>18. Placed(ready, new, b, price, ref, qty)
  BY <1>1, <1>4, <1>7, <1>8 DEF Placed
<1> QED BY <1>14, <1>15, <1>17, <1>18 DEF new, ready

\* mid is sd with the quantity of an indexed order taken out of its level.
Emptied(sd, mid, b, ref) ==
    /\ mid \in SideType /\ mid.depth = sd.depth /\ mid.index = sd.index
    /\ Drained(sd.rows[sd.index[ref].row], mid.rows[sd.index[ref].row], sd.index[ref].place)
    /\ \A k \in Rows : k # sd.index[ref].row => mid.rows[k] = sd.rows[k]

\* Where an indexed order is.
LEMMA WhereIndexed ==
    ASSUME NEW sd, NEW b, NEW E, SideOK(sd, b, E), NEW ref \in Refs,
           sd.index[ref] # Nowhere, sd.index[ref].book = b
    PROVE  LET row == sd.index[ref].row
               place == sd.index[ref].place
           IN  /\ row \in Rows /\ row < sd.depth /\ place \in Places
               /\ LevelOK(sd.rows[row]) /\ place \in Active(sd.rows[row])
               /\ sd.rows[row].orders[place].ref = ref
<1> DEFINE row == sd.index[ref].row
           place == sd.index[ref].place
<1>1. row < sd.depth /\ Holds(sd, row, place, ref)
  BY DEF SideOK, Indexed
<1>2. row \in Rows /\ place \in Places /\ sd.rows[row].orders[place].ref = ref
  BY <1>1 DEF Holds
<1>3. LevelOK(sd.rows[row])
  BY <1>2 DEF SideOK
<1>4. place \in Active(sd.rows[row])
  BY <1>2, LOBAssumption DEF Active
<1> QED BY <1>1, <1>2, <1>3, <1>4

\* new is sd without the order, and without its level if that has become empty.
Withdrawn(sd, new, b, ref) ==
    \E cut :
        /\ SideOK(cut, b, {sd.index[ref].row}) /\ RowChange(sd, cut, sd.index[ref].row)
        /\ Left(sd.rows[sd.index[ref].row], cut.rows[sd.index[ref].row], sd.index[ref].place)
        /\ new = remove_level_if_empty(cut, b, sd.index[ref].row)

LEMMA TornDownOK ==
    ASSUME NEW sd, NEW b \in Books, SideOK(sd, b, {}), NEW ref \in Refs,
           sd.index[ref] # Nowhere, sd.index[ref].book = b,
           NEW mid, Emptied(sd, mid, b, ref)
    PROVE  LET new == TornDown(mid, b, ref)
           IN  /\ SideOK(new, b, {}) /\ IndexKept(sd.index, new.index, b)
               /\ NowhereKept(sd.index, new.index)
               /\ Withdrawn(sd, new, b, ref)
<1> DEFINE row == sd.index[ref].row
           place == sd.index[ref].place
           L == sd.rows[row]
           M == [Unlinked(mid.rows[row], place) EXCEPT !.count = @ - 1]
           cut == [mid EXCEPT !.rows[row] = M, !.index[ref] = Nowhere]
           new == TornDown(mid, b, ref)
<1>1. mid.index = sd.index /\ mid \in SideType /\ mid.depth = sd.depth
  BY DEF Emptied
<1>2. new = remove_level_if_empty(cut, b, row)
  BY <1>1 DEF TornDown
<1>3. /\ row \in Rows /\ row < sd.depth /\ place \in Places
      /\ LevelOK(L) /\ place \in Active(L) /\ L.orders[place].ref = ref
  BY WhereIndexed
<1>4. Left(L, M, place) /\ M.price = L.price
  <2>1. Drained(L, mid.rows[row], place)
    BY DEF Emptied
  <2> DEFINE N == mid.rows[row]
  <2>2. LevelOK(L) /\ Drained(L, N, place)
    BY <1>3, <2>1
  <2> HIDE DEF L, N, place
  <2>3. LET U == [Unlinked(N, place) EXCEPT !.count = @ - 1]
        IN  Left(L, U, place) /\ U.price = L.price
    BY ONLY <2>2, UnlinkedLeaves
  <2> QED BY <2>3 DEF N
<1>5. \A k \in Rows : k # row => mid.rows[k] = sd.rows[k]
  BY DEF Emptied
<1> HIDE DEF M, row, place, new
<1>6. /\ LevelOK(M) /\ M \in Level
      /\ M.orders[place].ref = NoRef
      /\ \A j \in Places : j # place => M.orders[j].ref = L.orders[j].ref
  <2> HIDE DEF L
  <2>1. LevelOK(M)
    BY <1>3, <1>4, LeftOK
  <2>2. \A j \in Places : j # place => M.orders[j].ref = L.orders[j].ref
    BY <1>3, <1>4, LeftKeeps
  <2>3. M.orders[place].ref = NoRef
    BY <1>4 DEF Left, EmptySlot
  <2> QED BY <2>1, <2>2, <2>3 DEF LevelOK
<1>7. /\ cut \in SideType /\ cut.depth = sd.depth /\ cut.rows[row] = M
      /\ \A k \in Rows : k # row => cut.rows[k] = sd.rows[k]
      /\ cut.index[ref] = Nowhere
      /\ \A r \in Refs : r # ref => cut.index[r] = sd.index[r]
  BY <1>1, <1>3, <1>5, <1>6 DEF SideType
<1> HIDE DEF cut
<1>8. SideOK(sd, b, {row})
  BY WeakerFilled
<1>9. RowChange(sd, cut, row)
  BY <1>3, <1>4, <1>6, <1>7 DEF RowChange
<1>10. /\ \A k \in Rows : LevelOK(cut.rows[k])
       /\ InOrder(cut, b) /\ Filled(cut, {row}) /\ Clear(cut)
  BY <1>8, <1>9, RowChanged
<1>11. Indexed(sd, b) /\ sd.index[ref] # Nowhere /\ sd.index[ref].book = b
  BY DEF SideOK
<1>12. \A r \in Refs, k \in Rows, i \in Places :
          Holds(cut, k, i, r) <=> r # ref /\ Holds(sd, k, i, r)
  <2> SUFFICES ASSUME NEW r \in Refs, NEW k \in Rows, NEW i \in Places
               PROVE  Holds(cut, k, i, r) <=> r # ref /\ Holds(sd, k, i, r)
    OBVIOUS
  <2>1. Holds(sd, k, i, ref) => k = row /\ i = place
    <3>1. Holds(sd, k, i, ref) => sd.index[ref] = At(b, k, i)
      BY <1>11 DEF Indexed, At
    <3> QED BY <3>1, AtFields DEF row, place
  <2>2. NoRef # r
    BY LOBAssumption
  <2>3. CASE k # row
    <3>1. Holds(cut, k, i, r) <=> Holds(sd, k, i, r)
      BY <1>7, <2>3 DEF Holds
    <3> QED BY <2>1, <2>3, <3>1
  <2>4. CASE k = row /\ i # place
    <3>1. Holds(cut, k, i, r) <=> Holds(sd, k, i, r)
      BY <1>6, <1>7, <2>4 DEF Holds
    <3> QED BY <2>1, <2>4, <3>1
  <2>5. CASE k = row /\ i = place
    <3>1. ~Holds(cut, k, i, r)
      BY <1>6, <1>7, <2>2, <2>5 DEF Holds
    <3>2. Holds(sd, k, i, r) => r = ref
      BY <1>3, <2>5 DEF Holds
    <3> QED BY <3>1, <3>2
  <2> QED BY <2>3, <2>4, <2>5
<1>13. Indexed(cut, b)
  <2>1. ASSUME NEW r \in Refs, cut.index[r] # Nowhere, cut.index[r].book = b
        PROVE  cut.index[r].row < cut.depth /\ Holds(cut, cut.index[r].row, cut.index[r].place, r)
    <3>1. r # ref /\ cut.index[r] = sd.index[r]
      BY <1>7, <2>1
    <3>2. sd.index[r].row < sd.depth /\ Holds(sd, sd.index[r].row, sd.index[r].place, r)
      BY <1>11, <2>1, <3>1 DEF Indexed
    <3>3. sd.index[r].row \in Rows /\ sd.index[r].place \in Places
      BY <3>2 DEF Holds
    <3> QED BY <1>7, <1>12, <3>1, <3>2, <3>3
  <2>2. ASSUME NEW r \in Refs, NEW k \in Rows, NEW i \in Places, Holds(cut, k, i, r)
        PROVE  cut.index[r] = At(b, k, i)
    BY <1>7, <1>11, <1>12, <2>2 DEF Indexed, At
  <2> QED BY <2>1, <2>2 DEF Indexed, At
<1>14. SideOK(cut, b, {row})
  BY <1>7, <1>10, <1>13 DEF SideOK
<1>15. SideOK(new, b, {}) /\ IndexKept(cut.index, new.index, b)
  BY <1>2, <1>3, <1>7, <1>14, RemovedOK
<1>16. IndexKept(sd.index, cut.index, b)
  BY <1>7, <1>11 DEF IndexKept
<1>17. NowhereKept(cut.index, new.index)
  <2>1. \/ new = cut
        \/ \E rows, first, last :
              new.index = refresh_level_locations(cut.index, b, rows, first, last)
    BY <1>2 DEF remove_level_if_empty
  <2> QED BY <2>1, RefreshNowhere DEF NowhereKept
<1>18. NowhereKept(sd.index, new.index)
  BY <1>7, <1>17 DEF NowhereKept
<1>19. IndexKept(sd.index, new.index, b)
  BY <1>15, <1>16, IndexKeptTrans
<1>20. Withdrawn(sd, new, b, ref)
  BY <1>2, <1>4, <1>7, <1>9, <1>14 DEF Withdrawn, row, place
<1> QED BY <1>15, <1>18, <1>19, <1>20 DEF new

LEMMA DetachedOK ==
    ASSUME NEW sd, NEW b \in Books, SideOK(sd, b, {}), NEW ref \in Refs,
           sd.index[ref] # Nowhere, sd.index[ref].book = b
    PROVE  LET new == Detached(sd, b, ref)
           IN  /\ SideOK(new, b, {}) /\ IndexKept(sd.index, new.index, b)
               /\ NowhereKept(sd.index, new.index)
               /\ Withdrawn(sd, new, b, ref)
<1> DEFINE row == sd.index[ref].row
           place == sd.index[ref].place
           L == sd.rows[row]
           qty == L.orders[place].qty
           mid == [sd EXCEPT !.rows[row].total = @ - clamped_qty(qty, @)]
<1>1. /\ row \in Rows /\ row < sd.depth /\ place \in Places
      /\ LevelOK(L) /\ place \in Active(L)
  BY WhereIndexed
<1>2. Detached(sd, b, ref) = TornDown(mid, b, ref)
  BY DEF Detached
<1>3. sd \in SideType
  BY DEF SideOK
<1> HIDE DEF row, place
<1>4. qty \in Nat /\ qty > 0 /\ L.total \in Nat /\ qty <= L.total
  <2> HIDE DEF L
  <2> QED BY <1>1, TotalCovers
<1> HIDE DEF qty
<1>5. clamped_qty(qty, L.total) = qty
  BY <1>4 DEF clamped_qty
<1> DEFINE N == [L EXCEPT !.total = @ - clamped_qty(qty, @)]
<1>6. /\ N \in Level /\ N.price = L.price /\ N.head = L.head /\ N.count = L.count
      /\ N.orders = L.orders /\ N.total = L.total - qty
  <2>1. L \in Level
    BY <1>1 DEF LevelOK
  <2>2. N = [L EXCEPT !.total = L.total - qty]
    BY <1>5, <2>1 DEF Level
  <2>3. L.total - qty \in Nat
    BY <1>4
  <2> HIDE DEF N, L
  <2> QED BY <2>1, <2>2, <2>3 DEF Level
<1>7. /\ mid \in SideType /\ mid.depth = sd.depth /\ mid.index = sd.index
      /\ mid.rows[row] = N
      /\ \A k \in Rows : k # row => mid.rows[k] = sd.rows[k]
  <2>1. mid = [sd EXCEPT !.rows[row] = N]
    BY <1>1, <1>3 DEF SideType
  <2> HIDE DEF mid, N
  <2> QED BY <1>1, <1>3, <1>6, <2>1 DEF SideType
<1> HIDE DEF mid, N
<1>8. Drained(L, mid.rows[row], place)
  BY <1>1, <1>6, <1>7 DEF Drained, qty
<1>9. Emptied(sd, mid, b, ref)
  BY <1>7, <1>8 DEF Emptied, row, place
<1> QED BY <1>2, <1>9, TornDownOK

\* new is sd with some of the order's quantity gone.
Lessened(sd, new, ref, qty) ==
    /\ RowChange(sd, new, sd.index[ref].row)
    /\ Shrunk(sd.rows[sd.index[ref].row], new.rows[sd.index[ref].row], sd.index[ref].place, qty)

\* What an execution or a cancellation leaves.
LEMMA ReducedOK ==
    ASSUME NEW sd, NEW b \in Books, SideOK(sd, b, {}), NEW ref \in Refs,
           sd.index[ref] # Nowhere, sd.index[ref].book = b, NEW qty \in Qtys
    PROVE  LET row == sd.index[ref].row
               place == sd.index[ref].place
               rest == sd.rows[row].orders[place].qty
               reduced == Reduced(sd, b, ref, clamped_qty(qty, rest))
               new == IF reduced.rows[row].orders[place].qty > 0 THEN reduced
                      ELSE TornDown(reduced, b, ref)
           IN  /\ SideOK(new, b, {}) /\ IndexKept(sd.index, new.index, b)
               /\ Lessened(sd, new, ref, qty) \/ Withdrawn(sd, new, b, ref)
<1> DEFINE row == sd.index[ref].row
           place == sd.index[ref].place
           L == sd.rows[row]
           rest == L.orders[place].qty
           d == clamped_qty(qty, rest)
           mid == Reduced(sd, b, ref, d)
<1>1. /\ row \in Rows /\ row < sd.depth /\ place \in Places
      /\ LevelOK(L) /\ place \in Active(L) /\ L.orders[place].ref = ref
  BY WhereIndexed
<1>2. mid = [sd EXCEPT !.rows[row].orders[place].qty = @ - d, !.rows[row].total = @ - d]
  BY DEF Reduced
<1>3. sd \in SideType /\ L \in Level
  BY <1>1 DEF SideOK, LevelOK
<1> HIDE DEF row, place
<1>4. rest \in Nat /\ rest > 0 /\ L.total \in Nat /\ rest <= L.total
  <2> HIDE DEF L
  <2> QED BY <1>1, TotalCovers
<1>5. d \in Nat /\ d <= rest /\ (d < rest => d = qty)
  <2>1. qty \in Nat
    BY LOBAssumption
  <2> HIDE DEF rest
  <2> QED BY <1>4, <2>1 DEF clamped_qty
<1> HIDE DEF d
<1> DEFINE N == mid.rows[row]
<1>6. /\ mid \in SideType /\ mid.depth = sd.depth /\ mid.index = sd.index
      /\ \A k \in Rows : k # row => mid.rows[k] = sd.rows[k]
      /\ N \in Level /\ N.price = L.price /\ N.head = L.head /\ N.count = L.count
      /\ N.total = L.total - d /\ N.orders[place].qty = rest - d
      /\ N.orders[place].ref = L.orders[place].ref
      /\ N.orders[place].next = L.orders[place].next
      /\ N.orders[place].prev = L.orders[place].prev
      /\ \A j \in Places : j # place => N.orders[j] = L.orders[j]
  <2> DEFINE K == [L EXCEPT !.orders[place].qty = rest - d]
             K2 == [K EXCEPT !.total = L.total - d]
  <2>1. rest - d \in Nat /\ L.total - d \in Nat
    BY <1>4, <1>5
  <2>2. /\ K \in Level /\ K.price = L.price /\ K.head = L.head /\ K.count = L.count
        /\ K.total = L.total /\ K.orders[place].qty = rest - d
        /\ K.orders[place].ref = L.orders[place].ref
        /\ K.orders[place].next = L.orders[place].next
        /\ K.orders[place].prev = L.orders[place].prev
        /\ \A j \in Places : j # place => K.orders[j] = L.orders[j]
    <3> HIDE DEF L, rest
    <3> QED BY <1>1, <1>3, <2>1 DEF Level, Slot
  <2>3. mid = [sd EXCEPT !.rows[row] = K2]
    BY <1>1, <1>2, <1>3 DEF SideType, Level, Slot
  <2> HIDE DEF K, mid
  <2>4. /\ K2 \in Level /\ K2.price = K.price /\ K2.head = K.head /\ K2.count = K.count
        /\ K2.total = L.total - d /\ K2.orders = K.orders
    <3> HIDE DEF L, rest
    <3> QED BY <2>1, <2>2 DEF Level
  <2> HIDE DEF K2
  <2>5. /\ mid \in SideType /\ mid.depth = sd.depth /\ mid.index = sd.index
        /\ mid.rows[row] = K2
        /\ \A k \in Rows : k # row => mid.rows[k] = sd.rows[k]
    BY <1>1, <1>3, <2>3, <2>4 DEF SideType
  <2> QED BY <2>2, <2>4, <2>5
<1> HIDE DEF mid
<1>7. CASE N.orders[place].qty > 0
  <2>1. Shrunk(L, N, place, d)
    <3>1. d < rest
      BY <1>4, <1>5, <1>6, <1>7
    <3> QED BY <1>1, <1>5, <1>6, <3>1 DEF Shrunk, SameSlot
  <2>2. LevelOK(N) /\ \A j \in Places : N.orders[j].ref = L.orders[j].ref
    <3> HIDE DEF N, L
    <3> QED BY <1>1, <2>1, ShrunkOK
  <2>3. RowChange(sd, mid, row)
    BY <1>1, <1>6, <2>2 DEF RowChange
  <2>4. SideOK(sd, b, {row})
    BY WeakerFilled
  <2>5. /\ \A k \in Rows : LevelOK(mid.rows[k])
        /\ InOrder(mid, b) /\ Filled(mid, {row}) /\ Clear(mid)
    BY <2>3, <2>4, RowChanged
  <2>6. Filled(mid, {})
    <3>1. N.count > 0
      BY <1>1, <1>6 DEF SideOK, Filled
    <3> QED BY <2>5, <3>1 DEF Filled
  <2>7. \A r \in Refs : \A k, i : Holds(mid, k, i, r) <=> Holds(sd, k, i, r)
    BY <1>6, <2>2 DEF Holds
  <2>8. Indexed(mid, b)
    <3>1. Indexed(sd, b)
      BY DEF SideOK
    <3> QED BY <1>6, <2>7, <3>1 DEF Indexed
  <2>9. SideOK(mid, b, {})
    BY <1>6, <2>5, <2>6, <2>8 DEF SideOK
  <2>10. IndexKept(sd.index, mid.index, b)
    BY <1>6 DEF IndexKept
  <2>11. Lessened(sd, mid, ref, qty)
    <3>1. d = qty
      BY <1>5, <2>1 DEF Shrunk
    <3> QED BY <2>1, <2>3, <3>1 DEF Lessened, row, place
  <2> QED BY <1>7, <2>9, <2>10, <2>11 DEF mid, d, row, place
<1>8. CASE ~(N.orders[place].qty > 0)
  <2>1. d = rest
    BY <1>4, <1>5, <1>6, <1>8
  <2>2. Drained(L, N, place)
    BY <1>1, <1>6, <2>1 DEF Drained
  <2>3. Emptied(sd, mid, b, ref)
    BY <1>6, <2>2 DEF Emptied, row, place
  <2>4. /\ SideOK(TornDown(mid, b, ref), b, {})
        /\ IndexKept(sd.index, TornDown(mid, b, ref).index, b)
        /\ Withdrawn(sd, TornDown(mid, b, ref), b, ref)
    BY <2>3, TornDownOK
  <2> QED BY <1>8, <2>4 DEF mid, d, row, place
<1> QED BY <1>7, <1>8

-----------------------------------------------------------------------------
(***************************************************************************)
(* The inductive invariant, and the messages.                              *)
(***************************************************************************)
LOBInv == LOBTypeOK /\ \A b \in Books : SideOK(Side(b), b, {})

\* A message changes one book, and the index for that book only.
LEMMA BookChanged ==
    ASSUME LOBInv, NEW b \in Books, NEW sd, SideOK(sd, b, {}),
           IndexKept(index, sd.index, b), Becomes(b, sd)
    PROVE  LOBInv'
<1>1. sd \in SideType
  BY DEF SideOK
<1>2. /\ levels' = [levels EXCEPT ![b] = sd.rows]
      /\ depth' = [depth EXCEPT ![b] = sd.depth] /\ index' = sd.index
  BY DEF Becomes
<1>3. LOBTypeOK
  BY DEF LOBInv
<1>4. LOBTypeOK'
  BY <1>1, <1>2, <1>3 DEF LOBTypeOK, SideType
<1>5. ASSUME NEW c \in Books PROVE SideOK(Side(c)', c, {})
  <2>1. CASE c = b
    <3>1. Side(c)' = [rows |-> sd.rows, depth |-> sd.depth, index |-> sd.index]
      BY <1>2, <1>3, <2>1 DEF Side, LOBTypeOK
    <3>2. sd = [rows |-> sd.rows, depth |-> sd.depth, index |-> sd.index]
      BY <1>1 DEF SideType
    <3>3. Side(c)' = sd
      BY <3>1, <3>2
    <3> QED BY <2>1, <3>3
  <2>2. CASE c # b
    <3> DEFINE new == Side(c)'
               old == Side(c)
    <3>1. /\ new.rows = old.rows /\ new.depth = old.depth /\ new.index = sd.index
          /\ old.index = index /\ new \in SideType
      <4>1. levels'[c] = levels[c] /\ depth'[c] = depth[c]
        BY <1>2, <1>3, <2>2 DEF LOBTypeOK
      <4>2. levels'[c] \in [Rows -> Level] /\ depth'[c] \in 0 .. MaxLevels
            /\ index' \in [Refs -> Location \cup {Nowhere}]
        BY <1>4 DEF LOBTypeOK
      <4>3. new = [rows |-> levels'[c], depth |-> depth'[c], index |-> index']
        BY DEF Side
      <4>4. old = [rows |-> levels[c], depth |-> depth[c], index |-> index]
        BY DEF Side
      <4> HIDE DEF new, old
      <4> QED BY <1>2, <4>1, <4>2, <4>3, <4>4 DEF SideType
    <3>2. SideOK(old, c, {})
      BY DEF LOBInv
    <3> HIDE DEF new, old
    <3>3. \A r \in Refs : \A k, i : Holds(new, k, i, r) <=> Holds(old, k, i, r)
      BY <3>1 DEF Holds
    <3>4. ASSUME NEW r \in Refs, new.index[r] # Nowhere, new.index[r].book = c
          PROVE  new.index[r] = old.index[r]
      BY <2>2, <3>1, <3>4 DEF IndexKept
    <3>5. ASSUME NEW r \in Refs, NEW k \in Rows, NEW i \in Places, Holds(old, k, i, r)
          PROVE  new.index[r] = At(c, k, i)
      <4>1. old.index[r] = At(c, k, i)
        BY <3>2, <3>5 DEF SideOK, Indexed, At
      <4>2. old.index[r] # Nowhere /\ old.index[r].book = c
        BY <4>1, AtFields
      <4> QED BY <2>2, <3>1, <4>1, <4>2 DEF IndexKept
    <3>6. Indexed(new, c)
      <4>1. Indexed(old, c)
        BY <3>2 DEF SideOK
      <4>2. ASSUME NEW r \in Refs, new.index[r] # Nowhere, new.index[r].book = c
            PROVE  /\ new.index[r].row < new.depth
                   /\ Holds(new, new.index[r].row, new.index[r].place, r)
        BY <3>1, <3>3, <3>4, <4>1, <4>2 DEF Indexed
      <4> QED BY <3>3, <3>5, <4>2 DEF Indexed, At
    <3>7. SideOK(new, c, {})
      BY <3>1, <3>2, <3>6 DEF SideOK, InOrder, Filled, Clear
    <3> QED BY <3>7 DEF new
  <2> QED BY <2>1, <2>2
<1> QED BY <1>4, <1>5 DEF LOBInv

LEMMA SideNow ==
    ASSUME LOBInv, NEW b \in Books
    PROVE  SideOK(Side(b), b, {}) /\ Side(b).index = index
BY DEF LOBInv, Side

\* The book an indexed order is on.
LEMMA BookOf ==
    ASSUME LOBInv, NEW ref \in Refs, valid_location(ref)
    PROVE  index[ref] # Nowhere /\ index[ref].book \in Books
BY DEF LOBInv, LOBTypeOK, valid_location, Location

LEMMA InitLOBInv == Init => LOBInv
<1> SUFFICES ASSUME Init PROVE LOBInv
  OBVIOUS
<1>1. LevelOK(EmptyLevel) /\ Active(EmptyLevel) = {} /\ EmptyLevel \in Level
  BY EmptyLevelOK DEF LevelOK
<1>2. LOBTypeOK
  BY <1>1, RowType DEF Init, LOBTypeOK
<1>3. ASSUME NEW b \in Books PROVE SideOK(Side(b), b, {})
  <2> DEFINE sd == Side(b)
  <2>1. /\ sd \in SideType /\ sd.depth = 0
        /\ \A k \in Rows : sd.rows[k] = EmptyLevel
        /\ \A r \in Refs : sd.index[r] = Nowhere
    BY <1>1, RowType DEF Init, Side, SideType
  <2> HIDE DEF sd
  <2>2. \A k \in Rows : LevelOK(sd.rows[k]) /\ ~(k < 0)
    BY <1>1, <2>1, RowType
  <2>3. InOrder(sd, b) /\ Filled(sd, {}) /\ Clear(sd)
    BY <2>1, <2>2 DEF InOrder, Filled, Clear
  <2>4. ASSUME NEW r \in Refs, NEW k \in Rows, NEW i \in Places PROVE ~Holds(sd, k, i, r)
    BY <1>1, <2>1, LOBAssumption DEF Holds, Active
  <2>5. Indexed(sd, b)
    BY <2>1, <2>4 DEF Indexed
  <2>6. SideOK(sd, b, {})
    BY <2>1, <2>2, <2>3, <2>5 DEF SideOK
  <2> QED BY <2>6 DEF sd
<1> QED BY <1>2, <1>3 DEF LOBInv

LEMMA NextLOBInv ==
    ASSUME LOBInv, [Next]_vars
    PROVE  LOBInv'
<1>1. CASE UNCHANGED vars
  BY <1>1 DEF vars, LOBInv, LOBTypeOK, Side
<1>2. ASSUME NEW b \in Books, NEW price \in Prices, NEW ref \in Refs, NEW qty \in Qtys,
             NEW room \in BOOLEAN, on_add_order(b, price, ref, qty, room)
      PROVE  LOBInv'
  <2> DEFINE new == Attached(Side(b), b, price, ref, qty)
  <2>1. /\ SideOK(Side(b), b, {}) /\ Side(b).index = index
        /\ index[ref] = Nowhere /\ Fits(Side(b), b, price) /\ Becomes(b, new)
    BY <1>2, SideNow DEF on_add_order
  <2>2. SideOK(new, b, {}) /\ IndexKept(index, new.index, b)
    BY <2>1, AttachedOK
  <2> HIDE DEF new
  <2> QED BY <2>1, <2>2, BookChanged
<1>3. ASSUME NEW b \in Books, NEW price \in Prices, NEW ref \in Refs, NEW qty \in Qtys,
             NEW room \in BOOLEAN, on_add_order_rejected(b, price, ref, qty, room)
      PROVE  LOBInv'
  <2> DEFINE sd == Side(b)
             placed == Attached(sd, b, price, ref, qty)
             new == Detached(placed, b, ref)
  <2>1. SideOK(sd, b, {}) /\ sd.index = index /\ index[ref] = Nowhere
    BY <1>3, SideNow DEF on_add_order_rejected
  <2>2. CASE Fits(sd, b, price)
    <3>1. Becomes(b, new)
      BY <1>3, <2>2 DEF on_add_order_rejected, RolledBack
    <3> HIDE DEF sd
    <3>2. /\ SideOK(placed, b, {}) /\ IndexKept(index, placed.index, b)
          /\ placed.index[ref] # Nowhere /\ placed.index[ref].book = b
      BY <2>1, <2>2, AttachedOK
    <3> HIDE DEF placed
    <3>3. SideOK(new, b, {}) /\ IndexKept(placed.index, new.index, b)
      BY <3>2, DetachedOK
    <3> HIDE DEF new
    <3>4. IndexKept(index, new.index, b)
      BY <3>2, <3>3, IndexKeptTrans
    <3> QED BY <3>1, <3>3, <3>4, BookChanged
  <2>3. CASE ~Fits(sd, b, price)
    <3>1. Becomes(b, sd)
      BY <1>3, <2>3 DEF on_add_order_rejected
    <3> HIDE DEF sd
    <3>2. IndexKept(index, sd.index, b)
      BY <2>1 DEF IndexKept
    <3> QED BY <2>1, <3>1, <3>2, BookChanged
  <2> QED BY <2>2, <2>3
<1>4. ASSUME NEW ref \in Refs, NEW qty \in Qtys, on_order_executed(ref, qty)
      PROVE  LOBInv'
  <2> DEFINE b == index[ref].book
             row == index[ref].row
             place == index[ref].place
             rest == levels[b][row].orders[place].qty
             reduced == Reduced(Side(b), b, ref, clamped_qty(qty, rest))
             new == IF reduced.rows[row].orders[place].qty > 0 THEN reduced
                    ELSE TornDown(reduced, b, ref)
  <2>1. valid_location(ref) /\ Becomes(b, new)
    BY <1>4 DEF on_order_executed
  <2>2. index[ref] # Nowhere /\ b \in Books
    BY <2>1, BookOf
  <2>3. /\ SideOK(Side(b), b, {}) /\ Side(b).index = index /\ Side(b).rows = levels[b]
    BY <2>2, SideNow DEF Side
  <2>4. SideOK(new, b, {}) /\ IndexKept(index, new.index, b)
    BY <2>2, <2>3, ReducedOK
  <2> HIDE DEF new
  <2> QED BY <2>1, <2>2, <2>4, BookChanged
<1>5. ASSUME NEW ref \in Refs, on_order_delete(ref) PROVE LOBInv'
  <2> DEFINE b == index[ref].book
             new == Detached(Side(b), b, ref)
  <2>1. valid_location(ref) /\ Becomes(b, new)
    BY <1>5 DEF on_order_delete
  <2>2. index[ref] # Nowhere /\ b \in Books
    BY <2>1, BookOf
  <2>3. SideOK(Side(b), b, {}) /\ Side(b).index = index
    BY <2>2, SideNow
  <2>4. SideOK(new, b, {}) /\ IndexKept(index, new.index, b)
    BY <2>2, <2>3, DetachedOK
  <2> HIDE DEF new
  <2> QED BY <2>1, <2>2, <2>4, BookChanged
<1>6. ASSUME NEW ref \in Refs, NEW new \in Refs, NEW price \in Prices, NEW qty \in Qtys,
             NEW room \in BOOLEAN, on_order_replace(ref, new, price, qty, room)
      PROVE  LOBInv'
  <2> DEFINE b == index[ref].book
             left == Detached(Side(b), b, ref)
             placed == Attached(left, b, price, new, qty)
  <2>1. /\ valid_location(ref) /\ index[new] = Nowhere
        /\ Fits(left, b, price) /\ Becomes(b, placed)
    BY <1>6 DEF on_order_replace
  <2>2. index[ref] # Nowhere /\ b \in Books
    BY <2>1, BookOf
  <2>3. SideOK(Side(b), b, {}) /\ Side(b).index = index
    BY <2>2, SideNow
  <2>4. /\ SideOK(left, b, {}) /\ IndexKept(index, left.index, b)
        /\ NowhereKept(index, left.index)
    BY <2>2, <2>3, DetachedOK
  <2> HIDE DEF left
  <2>5. left.index[new] = Nowhere
    BY <2>1, <2>4 DEF NowhereKept
  <2>6. SideOK(placed, b, {}) /\ IndexKept(left.index, placed.index, b)
    BY <2>1, <2>2, <2>4, <2>5, AttachedOK
  <2> HIDE DEF placed
  <2>7. IndexKept(index, placed.index, b)
    BY <2>4, <2>6, IndexKeptTrans
  <2> QED BY <2>1, <2>2, <2>6, <2>7, BookChanged
<1>7. ASSUME NEW ref \in Refs, NEW new \in Refs, NEW price \in Prices,
             NEW room \in BOOLEAN, replace_lost(ref, new, price, room)
      PROVE  LOBInv'
  <2> DEFINE b == index[ref].book
             left == Detached(Side(b), b, ref)
  <2>1. valid_location(ref) /\ Becomes(b, left)
    BY <1>7 DEF replace_lost
  <2>2. index[ref] # Nowhere /\ b \in Books
    BY <2>1, BookOf
  <2>3. SideOK(Side(b), b, {}) /\ Side(b).index = index
    BY <2>2, SideNow
  <2>4. SideOK(left, b, {}) /\ IndexKept(index, left.index, b)
    BY <2>2, <2>3, DetachedOK
  <2> HIDE DEF left
  <2> QED BY <2>1, <2>2, <2>4, BookChanged
<1> QED BY <1>1, <1>2, <1>3, <1>4, <1>5, <1>6, <1>7 DEF Next, AddMessage, ReplaceMessage

\* The invariant says what SlabConsistent does.
LEMMA InvConsistent == LOBInv => SlabConsistent
<1> SUFFICES ASSUME LOBInv PROVE SlabConsistent
  OBVIOUS
<1>1. LOBTypeOK
  BY DEF LOBInv
<1>2. \A b \in Books : /\ Side(b).rows = levels[b] /\ Side(b).depth = depth[b]
                       /\ Side(b).index = index /\ SideOK(Side(b), b, {})
  BY DEF LOBInv, Side
<1>3. IndexAgrees
  <2>1. ASSUME NEW r \in Refs, index[r] # Nowhere
        PROVE  /\ index[r].row < depth[index[r].book]
               /\ levels[index[r].book][index[r].row].orders[index[r].place].ref = r
    <3>1. index[r].book \in Books
      BY <1>1, <2>1 DEF LOBTypeOK, Location
    <3> DEFINE b == index[r].book
               sd == Side(b)
    <3>2. sd.rows = levels[b] /\ sd.depth = depth[b] /\ sd.index = index /\ Indexed(sd, b)
      BY ONLY <1>2, <3>1 DEF SideOK
    <3> HIDE DEF sd
    <3>3. sd.index[r].row < sd.depth /\ Holds(sd, sd.index[r].row, sd.index[r].place, r)
      BY <2>1, <3>2 DEF Indexed
    <3> QED BY ONLY <3>2, <3>3 DEF Holds
  <2>2. ASSUME NEW b \in Books, NEW k \in Rows, NEW i \in Places,
               levels[b][k].orders[i].ref # NoRef
        PROVE  index[levels[b][k].orders[i].ref] = [book |-> b, row |-> k, place |-> i]
    <3> DEFINE r == levels[b][k].orders[i].ref
    <3>1. r \in Refs
      BY <1>1, <2>2 DEF LOBTypeOK, Level, Slot
    <3>2. Holds(Side(b), k, i, r)
      BY <1>2 DEF Holds
    <3> HIDE DEF r
    <3>3. index[r] = [book |-> b, row |-> k, place |-> i]
      BY <1>2, <3>1, <3>2 DEF SideOK, Indexed
    <3> QED BY <3>3 DEF r
  <2> QED BY <2>1, <2>2 DEF IndexAgrees
<1>4. LevelsOrdered
  <2> SUFFICES ASSUME NEW b \in Books
               PROVE  /\ \A k \in 0 .. depth[b] - 1 : levels[b][k].count > 0
                      /\ \A k \in 1 .. depth[b] - 1 :
                            Ahead(b, levels[b][k - 1].price, levels[b][k].price)
                      /\ \A k \in depth[b] .. MaxLevels - 1 : levels[b][k] = EmptyLevel
    BY DEF LevelsOrdered
  <2>1. depth[b] \in 0 .. MaxLevels
    BY <1>1 DEF LOBTypeOK
  <2>2. \A k \in 0 .. depth[b] - 1 : k \in Rows /\ k < depth[b]
    BY <2>1, RowType
  <2>3. \A k \in 0 .. depth[b] - 1 : levels[b][k].count > 0
    BY <1>2, <2>2 DEF SideOK, Filled
  <2>4. \A k \in 1 .. depth[b] - 1 :
            k \in Rows /\ k - 1 \in Rows /\ k - 1 < k /\ k < depth[b]
    BY <2>1, RowType
  <2>5. \A k \in 1 .. depth[b] - 1 : Ahead(b, levels[b][k - 1].price, levels[b][k].price)
    BY <1>2, <2>4 DEF SideOK, InOrder
  <2>6. \A k \in depth[b] .. MaxLevels - 1 : k \in Rows /\ k >= depth[b]
    BY <2>1, RowType
  <2>7. \A k \in depth[b] .. MaxLevels - 1 : levels[b][k] = EmptyLevel
    BY <1>2, <2>6 DEF SideOK, Clear
  <2> QED BY <2>3, <2>5, <2>7
<1>5. \A b \in Books, k \in Rows : LevelOK(levels[b][k])
  BY <1>2 DEF SideOK
<1>6. AggregatesAgree
  BY <1>5 DEF AggregatesAgree, LevelOK, Counted
<1>7. ListsLinked
  BY <1>5 DEF ListsLinked, LevelOK, Linked
<1> QED BY <1>1, <1>3, <1>4, <1>6, <1>7 DEF SlabConsistent

\* After every message of the feed, whatever levels were inserted, shifted,
\* emptied, rolled back or refilled: the binary search finds the level of a
\* price, the index points at every order and at nothing else, the totals and
\* counts are those of the slots, and the lists run through them both ways.
THEOREM SlabAlwaysConsistent == Spec => []SlabConsistent
<1>1. LOBInv /\ [Next]_vars => LOBInv'
  BY NextLOBInv
<1>2. Spec => []LOBInv
  BY <1>1, InitLOBInv, PTL DEF Spec
<1> QED BY <1>2, InvConsistent, PTL

-----------------------------------------------------------------------------
(***************************************************************************)
(* Tours.                                                                  *)
(***************************************************************************)
Order(level, i) == [ref |-> level.orders[i].ref, qty |-> level.orders[i].qty]

\* w lists every active place once, from the head along next to the end.
Tour(level, w) ==
    /\ w \in [1 .. level.count -> Active(level)]
    /\ \A i \in Active(level) : \E k \in 1 .. level.count : w[k] = i
    /\ \A j, k \in 1 .. level.count : w[j] = w[k] => j = k
    /\ level.count > 0 => w[1] = level.head /\ level.orders[w[level.count]].next = None
    /\ \A k \in 1 .. level.count : k < level.count => level.orders[w[k]].next = w[k + 1]

LEMMA CountType ==
    ASSUME NEW level, LevelOK(level)
    PROVE  /\ level.count \in Nat /\ level.count <= MaxOrders
           /\ level.orders \in [Places -> Slot] /\ Active(level) \subseteq Places
           /\ \A i \in Active(level) : Order(level, i) \in [ref : Refs, qty : Nat]
<1>1. level \in Level
  BY DEF LevelOK
<1>2. level.count \in 0 .. MaxOrders /\ level.orders \in [Places -> Slot]
  BY <1>1 DEF Level
<1>3. Active(level) \subseteq Places
  BY DEF Active
<1>4. ASSUME NEW i \in Active(level) PROVE Order(level, i) \in [ref : Refs, qty : Nat]
  BY <1>2, <1>4 DEF Active, Order, Slot
<1> QED BY <1>2, <1>3, <1>4, PlaceType

\* The walk is the tour.
LEMMA TourQueue ==
    ASSUME NEW level, LevelOK(level), NEW w, Tour(level, w)
    PROVE  /\ Queue(level) = [k \in 1 .. level.count |-> Order(level, w[k])]
           /\ Queue(level) \in Seq([ref : Refs, qty : Nat]) /\ Len(Queue(level)) = level.count
<1> DEFINE n == level.count
           S == {k \in Nat : k < n => Walk(level)[k] = w[k + 1]}
<1>1. /\ n \in Nat /\ n <= MaxOrders /\ MaxOrders \in Nat
      /\ level.orders \in [Places -> Slot] /\ Active(level) \subseteq Places
      /\ \A i \in Active(level) : Order(level, i) \in [ref : Refs, qty : Nat]
  BY CountType, PlaceType
<1>2. CASE n = 0
  BY <1>1, <1>2 DEF Queue
<1>3. CASE n > 0
  <2>1. w[1] = level.head /\ level.head \in Places
    BY <1>1, <1>3 DEF Tour
  <2>2. /\ Walk(level)[0] = level.head
        /\ \A k \in Nat : k + 1 <= MaxOrders =>
              Walk(level)[k + 1] = IF level.orders[Walk(level)[k]].next = None
                                   THEN Walk(level)[k] ELSE level.orders[Walk(level)[k]].next
    BY <1>1, <2>1, WalkSteps
  <2>3. 0 \in S
    BY <2>1, <2>2
  <2>4. \A k \in Nat : k \in S => k + 1 \in S
    <3> SUFFICES ASSUME NEW k \in Nat, k \in S, k + 1 < n
                 PROVE  Walk(level)[k + 1] = w[(k + 1) + 1]
      OBVIOUS
    <3>1. Walk(level)[k] = w[k + 1] /\ k + 1 \in 1 .. n /\ (k + 1) + 1 \in 1 .. n
      BY <1>1
    <3>2. level.orders[w[k + 1]].next = w[(k + 1) + 1] /\ w[(k + 1) + 1] # None
      <4>1. \A j \in 1 .. n : j < n => level.orders[w[j]].next = w[j + 1]
        BY DEF Tour
      <4>2. w[(k + 1) + 1] \in Places
        BY <1>1, <3>1 DEF Tour
      <4>3. w[(k + 1) + 1] # None
        BY <4>2, PlaceType
      <4> QED BY <3>1, <4>1, <4>3
    <3>3. k + 1 <= MaxOrders
      BY <1>1, PlaceType
    <3> QED BY <2>2, <3>1, <3>2, <3>3
  <2>5. \A k \in Nat : k \in S
    <3> HIDE DEF S
    <3> QED BY <2>3, <2>4, NatSetInduction
  <2>6. \A k \in 1 .. n : Walk(level)[k - 1] = w[k]
    BY <1>1, <2>5
  <2>7. Queue(level) = [k \in 1 .. n |-> Order(level, Walk(level)[k - 1])]
    BY Zenon DEF Queue, Order
  <2>8. Queue(level) = [k \in 1 .. n |-> Order(level, w[k])]
    BY <2>6, <2>7
  <2>9. \A k \in 1 .. n : Order(level, w[k]) \in [ref : Refs, qty : Nat]
    BY <1>1 DEF Tour
  <2> DEFINE T == [ref : Refs, qty : Nat]
             q == Queue(level)
  <2>10. q \in [1 .. n -> T]
    BY <2>8, <2>9
  <2>11. q \in Seq(T) /\ Len(q) = n
    <3> HIDE DEF T, q, n
    <3> QED BY <1>1, <2>10, LenProperties, SeqDef
  <2> QED BY <2>8, <2>11
<1> QED BY <1>1, <1>2, <1>3

\* A slot linked behind the last one ends the tour and the queue.
LEMMA EnteredTour ==
    ASSUME NEW L, LevelOK(L), NEW M, NEW i, NEW r, NEW q, Entered(L, M, i, r, q),
           NEW w, Tour(L, w)
    PROVE  /\ \E v : Tour(M, v)
           /\ Queue(M) = Append(Queue(L), [ref |-> r, qty |-> q])
<1>0. /\ Queue(L) = [k \in 1 .. L.count |-> Order(L, w[k])]
      /\ Queue(L) \in Seq([ref : Refs, qty : Nat]) /\ Len(Queue(L)) = L.count
  BY TourQueue
<1> DEFINE n == L.count
           v == [k \in 1 .. n + 1 |-> IF k <= n THEN w[k] ELSE i]
<1>1. /\ n \in Nat /\ M.count = n + 1 /\ Active(L) \subseteq Places
      /\ i \in Places /\ i \notin Active(L)
  BY CountType DEF Entered
<1>2. Active(M) = Active(L) \cup {i}
  BY EnteredKeeps
<1>3. /\ \A j \in Places : j # i => Order(M, j) = Order(L, j)
      /\ Order(M, i) = [ref |-> r, qty |-> q]
      /\ M.orders[i].next = None
  BY EnteredKeeps DEF Order, Entered
<1>4. LevelOK(M)
  BY EnteredOK
<1>5. /\ w \in [1 .. n -> Active(L)]
      /\ \A j \in Active(L) : \E k \in 1 .. n : w[k] = j
      /\ \A j, k \in 1 .. n : w[j] = w[k] => j = k
      /\ n > 0 => w[1] = L.head /\ L.orders[w[n]].next = None
      /\ \A k \in 1 .. n : k < n => L.orders[w[k]].next = w[k + 1]
  BY DEF Tour
<1>6. \A k \in 1 .. n : w[k] \in Places /\ w[k] # i /\ w[k] # None
  BY <1>1, <1>5, PlaceType
<1>7. /\ n = 0 => M.head = i
      /\ n > 0 => /\ M.head = L.head /\ M.orders[w[n]].next = i
                  /\ \A j \in Places : j # i /\ j # w[n] => M.orders[j].next = L.orders[j].next
  <2>1. CASE L.head = None
    <3>1. Active(L) = {}
      BY <2>1 DEF LevelOK, Linked
    <3>2. n = 0
      BY <1>1, <1>5, <3>1
    <3>3. M.head = i
      BY <2>1 DEF Entered
    <3> QED BY <3>2, <3>3
  <2>2. CASE L.head # None
    <3>1. PICK t \in Active(L) :
              /\ L.orders[t].next = None /\ M.head = L.head /\ M.orders[t].next = i
              /\ \A j \in Places : j # i /\ j # t => SameSlot(L, M, j)
      BY <2>2 DEF Entered
    <3>2. PICK k \in 1 .. n : w[k] = t
      BY <1>5
    <3>3. k = n /\ n > 0
      BY <1>1, <1>5, <1>6, <3>1, <3>2
    <3> QED BY <3>1, <3>2, <3>3 DEF SameSlot
  <2> QED BY <2>1, <2>2
<1>8. v \in [1 .. M.count -> Active(M)]
  BY <1>1, <1>2, <1>5
<1>9. /\ \A k \in 1 .. n : v[k] = w[k] /\ k \in 1 .. n + 1
      /\ v[n + 1] = i /\ n + 1 \in 1 .. n + 1
      /\ \A k \in 1 .. n + 1 : k \in 1 .. n \/ k = n + 1
      /\ DOMAIN v = 1 .. n + 1
  BY <1>1
<1> HIDE DEF v, n
<1>10. \A j \in Active(M) : \E k \in 1 .. M.count : v[k] = j
  BY <1>1, <1>2, <1>5, <1>9
<1>11. \A j, k \in 1 .. M.count : v[j] = v[k] => j = k
  BY <1>1, <1>5, <1>6, <1>9
<1>12. v[1] = M.head /\ M.orders[v[M.count]].next = None
  <2>1. CASE n = 0
    BY <1>1, <1>3, <1>7, <1>9, <2>1
  <2>2. CASE n > 0
    <3>1. 1 \in 1 .. n
      BY <1>1, <2>2
    <3> QED BY <1>1, <1>3, <1>5, <1>7, <1>9, <2>2, <3>1
  <2> QED BY <1>1, <2>1, <2>2
<1>13. ASSUME NEW k \in 1 .. M.count, k < M.count PROVE M.orders[v[k]].next = v[k + 1]
  <2>1. k \in 1 .. n /\ n > 0 /\ n \in 1 .. n
    BY <1>1, <1>13
  <2>2. CASE k = n
    BY <1>7, <1>9, <2>1, <2>2
  <2>3. CASE k # n
    <3>1. k + 1 \in 1 .. n /\ k < n
      BY <1>1, <2>1, <2>3
    <3>2. w[k] # w[n]
      BY <1>5, <2>1, <2>3
    <3> QED BY <1>5, <1>6, <1>7, <1>9, <2>1, <3>1, <3>2
  <2> QED BY <2>2, <2>3
<1>14. Tour(M, v)
  BY <1>8, <1>10, <1>11, <1>12, <1>13 DEF Tour
<1>15. Queue(M) = Append(Queue(L), [ref |-> r, qty |-> q])
  <2> DEFINE o == [ref |-> r, qty |-> q]
             T == [ref : Refs, qty : Nat]
  <2>1. /\ Queue(L) = [k \in 1 .. n |-> Order(L, w[k])] /\ Queue(L) \in Seq(T)
        /\ Len(Queue(L)) = n
    BY <1>0 DEF n
  <2>2. /\ Queue(M) = [k \in 1 .. n + 1 |-> Order(M, v[k])] /\ Queue(M) \in Seq(T)
        /\ Len(Queue(M)) = n + 1
    BY <1>1, <1>4, <1>14, TourQueue DEF n
  <2>3. \A k \in 1 .. n : Queue(M)[k] = Queue(L)[k]
    BY <1>3, <1>6, <1>9, <2>1, <2>2
  <2>4. Queue(M)[n + 1] = o
    BY <1>3, <1>9, <2>2
  <2>5. o \in T
    BY LOBAssumption DEF Entered
  <2> HIDE DEF o, T
  <2>6. /\ Append(Queue(L), o) \in Seq(T) /\ Len(Append(Queue(L), o)) = n + 1
        /\ \A k \in 1 .. n : Append(Queue(L), o)[k] = Queue(L)[k]
        /\ Append(Queue(L), o)[n + 1] = o
    <3> DEFINE s == Queue(L)
    <3>1. s \in Seq(T) /\ Len(s) = n
      BY <2>1
    <3> HIDE DEF s
    <3>2. /\ Append(s, o) \in Seq(T) /\ Len(Append(s, o)) = Len(s) + 1
          /\ \A k \in 1 .. Len(s) : Append(s, o)[k] = s[k]
          /\ Append(s, o)[Len(s) + 1] = o
      BY <2>5, <3>1, AppendProperties
    <3> QED BY <3>1, <3>2 DEF s
  <2>7. \A k \in 1 .. n + 1 : Queue(M)[k] = Append(Queue(L), o)[k]
    BY <1>9, <2>3, <2>4, <2>6
  <2>8. Queue(M) = Append(Queue(L), o)
    <3> DEFINE s == Queue(M)
               t == Append(Queue(L), o)
    <3>1. s \in Seq(T) /\ t \in Seq(T) /\ Len(s) = Len(t) /\ \A k \in 1 .. Len(s) : s[k] = t[k]
      BY <2>2, <2>6, <2>7
    <3> HIDE DEF s, t
    <3>2. s = t
      BY <3>1, SeqEqual
    <3> QED BY <3>2 DEF s, t
  <2> QED BY <2>8 DEF o
<1> QED BY <1>14, <1>15

\* An order that shrinks keeps its place.
LEMMA ShrunkTour ==
    ASSUME NEW L, LevelOK(L), NEW M, NEW i, NEW d, Shrunk(L, M, i, d), NEW w, Tour(L, w)
    PROVE  /\ Tour(M, w)
           /\ \E k \in 1 .. Len(Queue(L)) :
                 /\ d < Queue(L)[k].qty
                 /\ Queue(M) = [Queue(L) EXCEPT ![k].qty = @ - d]
<1> DEFINE n == L.count
<1>1. /\ M.count = n /\ M.head = L.head /\ i \in Active(L) /\ d < L.orders[i].qty
      /\ M.orders[i].ref = L.orders[i].ref /\ M.orders[i].qty = L.orders[i].qty - d
      /\ \A j \in Places : j # i => M.orders[j] = L.orders[j]
      /\ \A j \in Places : M.orders[j].next = L.orders[j].next /\ M.orders[j].ref = L.orders[j].ref
  BY DEF Shrunk, SameSlot
<1>2. Active(M) = Active(L) /\ Active(L) \subseteq Places
  BY <1>1 DEF Active
<1>3. /\ w \in [1 .. n -> Active(L)]
      /\ \A j \in Active(L) : \E k \in 1 .. n : w[k] = j
      /\ \A j, k \in 1 .. n : w[j] = w[k] => j = k
      /\ n > 0 => w[1] = L.head /\ L.orders[w[n]].next = None
      /\ \A k \in 1 .. n : k < n => L.orders[w[k]].next = w[k + 1]
      /\ n \in Nat
  BY CountType DEF Tour
<1>4. \A k \in 1 .. n : w[k] \in Places
  BY <1>2, <1>3
<1>5. Tour(M, w)
  <2>1. n > 0 => M.orders[w[n]].next = None
    <3>1. n > 0 => n \in 1 .. n
      BY <1>3
    <3> QED BY <1>1, <1>3, <1>4, <3>1
  <2>2. \A k \in 1 .. n : k < n => M.orders[w[k]].next = w[k + 1]
    BY <1>1, <1>3, <1>4
  <2> HIDE DEF n
  <2> QED BY <1>1, <1>2, <1>3, <2>1, <2>2 DEF Tour
<1>6. LevelOK(M)
  BY ShrunkOK
<1>7. /\ Queue(L) = [k \in 1 .. n |-> Order(L, w[k])] /\ Len(Queue(L)) = n
  BY TourQueue
<1>8. Queue(M) = [k \in 1 .. n |-> Order(M, w[k])]
  BY <1>1, <1>5, <1>6, TourQueue
<1>9. PICK k \in 1 .. n : w[k] = i
  BY <1>1, <1>3
<1>10. Queue(L)[k] = Order(L, i) /\ Order(L, i).qty = L.orders[i].qty
  BY <1>7, <1>9 DEF Order
<1>11. \A j \in 1 .. n : j # k => Order(M, w[j]) = Order(L, w[j])
  <2>1. \A j \in 1 .. n : j # k => w[j] # i
    BY <1>3, <1>9
  <2> QED BY <1>1, <1>4, <2>1 DEF Order
<1>12. Order(M, i) = [Order(L, i) EXCEPT !.qty = @ - d]
  BY <1>1 DEF Order
<1>13. Queue(M) = [Queue(L) EXCEPT ![k].qty = @ - d]
  <2> DEFINE s == [Queue(L) EXCEPT ![k].qty = @ - d]
  <2>1. s = [Queue(L) EXCEPT ![k] = [Order(L, i) EXCEPT !.qty = @ - d]]
    BY <1>7, <1>10
  <2>2. DOMAIN s = 1 .. n /\ s = [j \in 1 .. n |-> s[j]]
    BY <1>7
  <2>3. s[k] = Order(M, i)
    BY <1>7, <1>12, <2>1
  <2>4. \A j \in 1 .. n : j # k => s[j] = Order(L, w[j])
    BY <1>7, <2>1
  <2> HIDE DEF s
  <2>5. \A j \in 1 .. n : s[j] = Order(M, w[j])
    BY <1>9, <1>11, <2>3, <2>4
  <2>6. s = [j \in 1 .. n |-> Order(M, w[j])]
    BY <2>2, <2>5
  <2> QED BY <1>8, <2>6 DEF s
<1> QED BY <1>1, <1>5, <1>7, <1>10, <1>13

\* Taking an element out of a sequence closes the gap.
LEMMA RemoveAtIs ==
    ASSUME NEW T, NEW s \in Seq(T), NEW k \in 1 .. Len(s)
    PROVE  /\ Abstract!RemoveAt(s, k) \in Seq(T) /\ Len(Abstract!RemoveAt(s, k)) = Len(s) - 1
           /\ \A j \in 1 .. Len(s) - 1 : Abstract!RemoveAt(s, k)[j] = IF j < k THEN s[j] ELSE s[j + 1]
<1> DEFINE a == SubSeq(s, 1, k - 1)
           c == SubSeq(s, k + 1, Len(s))
<1>1. Len(s) \in Nat /\ \A j \in 1 .. Len(s) : s[j] \in T
  BY LenProperties
<1>2. /\ a \in Seq(T) /\ Len(a) = k - 1
      /\ \A j \in 1 .. k - 1 : a[j] = s[j]
  <2>1. \A j \in 1 .. k - 1 : s[j] \in T
    BY <1>1
  <2>2. /\ a \in Seq(T) /\ Len(a) = IF 1 <= k - 1 THEN (k - 1) - 1 + 1 ELSE 0
        /\ \A j \in 1 .. (k - 1) - 1 + 1 : a[j] = s[1 + j - 1]
    BY <1>1, <2>1, SubSeqProperties
  <2>3. (k - 1) - 1 + 1 = k - 1 /\ \A j \in 1 .. k - 1 : 1 + j - 1 = j
    BY <1>1
  <2> HIDE DEF a
  <2> QED BY <1>1, <2>2, <2>3
<1>3. /\ c \in Seq(T) /\ Len(c) = Len(s) - k
      /\ \A j \in 1 .. Len(s) - k : c[j] = s[k + j]
  <2>1. \A j \in k + 1 .. Len(s) : s[j] \in T
    BY <1>1
  <2>2. /\ c \in Seq(T) /\ Len(c) = IF k + 1 <= Len(s) THEN Len(s) - (k + 1) + 1 ELSE 0
        /\ \A j \in 1 .. Len(s) - (k + 1) + 1 : c[j] = s[(k + 1) + j - 1]
    BY <1>1, <2>1, SubSeqProperties
  <2>3. Len(s) - (k + 1) + 1 = Len(s) - k /\ \A j \in 1 .. Len(s) - k : (k + 1) + j - 1 = k + j
    BY <1>1
  <2> HIDE DEF c
  <2>4. Len(c) = Len(s) - k
    BY <1>1, <2>2
  <2>5. \A j \in 1 .. Len(s) - k : c[j] = s[k + j]
    BY <2>2, <2>3
  <2> QED BY <2>2, <2>4, <2>5
<1>4. Abstract!RemoveAt(s, k) = a \o c
  BY DEF Abstract!RemoveAt
<1> HIDE DEF a, c
<1>5. /\ a \o c \in Seq(T) /\ Len(a \o c) = Len(a) + Len(c)
      /\ \A j \in 1 .. Len(a) + Len(c) : (a \o c)[j] = IF j <= Len(a) THEN a[j] ELSE c[j - Len(a)]
  BY <1>2, <1>3, ConcatProperties
<1>6. Len(a) + Len(c) = Len(s) - 1
  BY <1>1, <1>2, <1>3
<1>7. ASSUME NEW j \in 1 .. Len(s) - 1 PROVE (a \o c)[j] = IF j < k THEN s[j] ELSE s[j + 1]
  <2>1. CASE j < k
    <3>1. j <= Len(a) /\ j \in 1 .. k - 1
      BY <1>1, <1>2, <2>1
    <3> QED BY <1>2, <1>5, <1>6, <2>1, <3>1
  <2>2. CASE ~(j < k)
    <3>1. ~(j <= Len(a)) /\ j - Len(a) \in 1 .. Len(s) - k /\ k + (j - Len(a)) = j + 1
      BY <1>1, <1>2, <2>2
    <3> QED BY <1>3, <1>5, <1>6, <2>2, <3>1
  <2> QED BY <2>1, <2>2
<1> QED BY <1>4, <1>5, <1>6, <1>7

\* A slot that is unlinked leaves the tour, which closes behind it.
LEMMA LeftTour ==
    ASSUME NEW L, LevelOK(L), NEW M, NEW i, Left(L, M, i), NEW w, Tour(L, w)
    PROVE  /\ \E v : Tour(M, v)
           /\ \E m \in 1 .. Len(Queue(L)) :
                 /\ Queue(L)[m].ref = L.orders[i].ref /\ w[m] = i
                 /\ Queue(M) = Abstract!RemoveAt(Queue(L), m)
<1>0. /\ Queue(L) = [k \in 1 .. L.count |-> Order(L, w[k])]
      /\ Queue(L) \in Seq([ref : Refs, qty : Nat]) /\ Len(Queue(L)) = L.count
  BY TourQueue
<1> DEFINE n == L.count
<1>1. /\ n \in Nat /\ M.count = n - 1 /\ Active(L) \subseteq Places
      /\ i \in Active(L) /\ i \in Places /\ i # None
  BY CountType, PlaceType DEF Left
<1>2. /\ Active(M) = Active(L) \ {i}
      /\ \A j \in Places : j # i => Order(M, j) = Order(L, j)
  BY LeftKeeps DEF Order
<1>3. LevelOK(M)
  BY LeftOK
<1>4. /\ w \in [1 .. n -> Active(L)]
      /\ \A j \in Active(L) : \E k \in 1 .. n : w[k] = j
      /\ \A j, k \in 1 .. n : w[j] = w[k] => j = k
      /\ n > 0 => w[1] = L.head /\ L.orders[w[n]].next = None
      /\ \A k \in 1 .. n : k < n => L.orders[w[k]].next = w[k + 1]
  BY DEF Tour
<1>5. \A k \in 1 .. n : w[k] \in Places /\ w[k] # None /\ w[k] \in Active(L)
  BY <1>1, <1>4, PlaceType
<1>6. PICK m \in 1 .. n : w[m] = i
  BY <1>1, <1>4
<1> DEFINE v == [k \in 1 .. n - 1 |-> IF k < m THEN w[k] ELSE w[k + 1]]
<1>7. /\ n > 0 /\ n - 1 \in Nat /\ 1 \in 1 .. n /\ n \in 1 .. n
      /\ \A k \in 1 .. n - 1 : k \in 1 .. n /\ k + 1 \in 1 .. n
  BY <1>1, <1>6
<1>8. L.orders[i].next = IF m < n THEN w[m + 1] ELSE None
  BY <1>1, <1>4, <1>6
<1>9. L.orders[i].prev = IF m > 1 THEN w[m - 1] ELSE None
  <2>1. CASE m > 1
    <3>1. m - 1 \in 1 .. n /\ m - 1 < n /\ (m - 1) + 1 = m
      BY <1>1, <2>1
    <3>2. L.orders[w[m - 1]].next = i /\ w[m - 1] \in Active(L)
      BY <1>4, <1>5, <1>6, <3>1
    <3>3. L.orders[i].prev = w[m - 1]
      BY <1>1, <3>2 DEF LevelOK, Linked
    <3> QED BY <2>1, <3>3
  <2>2. CASE ~(m > 1)
    <3>1. m = 1
      BY <1>1, <2>2
    <3>2. i = L.head /\ L.head # None
      BY <1>1, <1>4, <1>6, <1>7, <3>1
    <3>3. L.orders[i].prev = None
      BY <3>2 DEF LevelOK, Linked
    <3> QED BY <2>2, <3>3
  <2> QED BY <2>1, <2>2
<1>10. /\ M.head = IF m > 1 THEN L.head ELSE L.orders[i].next
       /\ \A j \in Places : j # i =>
             M.orders[j].next = IF m > 1 /\ j = w[m - 1] THEN L.orders[i].next ELSE L.orders[j].next
  <2>1. m > 1 => m - 1 \in 1 .. n
    BY <1>1
  <2>2. m > 1 => w[m - 1] # None
    BY <1>5, <2>1
  <2>3. /\ M.head = IF L.orders[i].prev = None THEN L.orders[i].next ELSE L.head
        /\ \A j \in Places : j # i =>
              M.orders[j].next = IF j = L.orders[i].prev THEN L.orders[i].next ELSE L.orders[j].next
    BY DEF Left
  <2>4. None \notin Places
    BY PlaceType
  <2> HIDE DEF n
  <2> QED BY <1>9, <2>2, <2>3, <2>4
<1>11. /\ \A k \in 1 .. n - 1 : v[k] = IF k < m THEN w[k] ELSE w[k + 1]
       /\ DOMAIN v = 1 .. n - 1
  OBVIOUS
<1>12. \A k \in 1 .. n - 1 : v[k] \in Active(L) /\ v[k] # i
  <2> SUFFICES ASSUME NEW k \in 1 .. n - 1 PROVE v[k] \in Active(L) /\ v[k] # i
    OBVIOUS
  <2>1. CASE k < m
    <3>1. v[k] = w[k] /\ k # m /\ k \in 1 .. n
      BY <1>7, <1>11, <2>1
    <3> QED BY <1>4, <1>5, <1>6, <3>1
  <2>2. CASE ~(k < m)
    <3>1. v[k] = w[k + 1] /\ k + 1 # m /\ k + 1 \in 1 .. n
      BY <1>7, <1>11, <2>2
    <3> QED BY <1>4, <1>5, <1>6, <3>1
  <2> QED BY <2>1, <2>2
<1>13. v \in [1 .. M.count -> Active(M)]
  BY <1>1, <1>2, <1>11, <1>12
<1> HIDE DEF v
<1>14. ASSUME NEW j \in Active(M) PROVE \E k \in 1 .. M.count : v[k] = j
  <2>1. j \in Active(L) /\ j # i
    BY <1>2
  <2>2. PICK k \in 1 .. n : w[k] = j
    BY <1>4, <2>1
  <2>3. k # m
    BY <1>6, <2>1, <2>2
  <2>4. CASE k < m
    <3>1. k \in 1 .. n - 1
      BY <1>1, <2>4
    <3> QED BY <1>1, <1>11, <2>2, <2>4, <3>1
  <2>5. CASE k > m
    <3>1. k - 1 \in 1 .. n - 1 /\ ~(k - 1 < m) /\ (k - 1) + 1 = k
      BY <1>1, <2>5
    <3> QED BY <1>1, <1>11, <2>2, <3>1
  <2> QED BY <1>1, <2>3, <2>4, <2>5
<1>15. ASSUME NEW j \in 1 .. M.count, NEW k \in 1 .. M.count, v[j] = v[k] PROVE j = k
  <2> DEFINE J == IF j < m THEN j ELSE j + 1
             K == IF k < m THEN k ELSE k + 1
  <2>1. j \in 1 .. n - 1 /\ k \in 1 .. n - 1
    BY <1>1
  <2>2. J \in 1 .. n /\ K \in 1 .. n /\ v[j] = w[J] /\ v[k] = w[K]
    BY <1>7, <1>11, <2>1
  <2>3. \A a, c \in 1 .. n : w[a] = w[c] => a = c
    BY <1>4
  <2>4. J = K
    <3>1. w[J] = w[K] /\ J \in 1 .. n /\ K \in 1 .. n
      BY <1>15, <2>2
    <3> HIDE DEF J, K, n
    <3> QED BY ONLY <2>3, <3>1
  <2> QED BY <1>1, <2>1, <2>4
<1>16. ASSUME M.count > 0 PROVE v[1] = M.head /\ M.orders[v[M.count]].next = None
  <2>1. n > 1 /\ 1 \in 1 .. n - 1 /\ n - 1 \in 1 .. n - 1 /\ M.count = n - 1
    BY <1>1, <1>16
  <2>2. v[1] = M.head
    <3>1. CASE m > 1
      <4>1. v[1] = w[1]
        BY <1>1, <1>11, <2>1, <3>1
      <4> QED BY <1>4, <1>7, <1>10, <3>1, <4>1
    <3>2. CASE ~(m > 1)
      <4>1. m = 1 /\ m < n
        BY <1>1, <2>1, <3>2
      <4>2. v[1] = w[1 + 1]
        BY <1>11, <2>1, <4>1
      <4>3. M.head = w[m + 1]
        BY <1>8, <1>10, <3>2, <4>1
      <4> QED BY <4>1, <4>2, <4>3
    <3> QED BY <3>1, <3>2
  <2>3. M.orders[v[n - 1]].next = None
    <3>1. CASE m = n
      <4>1. v[n - 1] = w[m - 1] /\ m > 1 /\ ~(m < n)
        BY <1>1, <1>11, <2>1, <3>1
      <4>2. v[n - 1] \in Places /\ v[n - 1] # i
        BY <1>1, <1>12, <2>1
      <4> QED BY <1>8, <1>10, <4>1, <4>2
    <3>2. CASE m # n
      <4>1. v[n - 1] = w[n] /\ ~(n - 1 < m)
        BY <1>1, <1>11, <2>1, <3>2
      <4>2. v[n - 1] \in Places /\ v[n - 1] # i
        BY <1>1, <1>12, <2>1
      <4>3. m > 1 => m - 1 \in 1 .. n /\ m - 1 # n
        BY <1>1, <3>2
      <4>4. m > 1 => w[m - 1] # w[n]
        BY <1>4, <1>7, <4>3
      <4> QED BY <1>4, <1>7, <1>10, <4>1, <4>2, <4>4
    <3> QED BY <3>1, <3>2
  <2> QED BY <2>1, <2>2, <2>3
<1>17. ASSUME NEW k \in 1 .. M.count, k < M.count PROVE M.orders[v[k]].next = v[k + 1]
  <2>1. /\ k \in 1 .. n - 1 /\ k + 1 \in 1 .. n - 1 /\ k \in 1 .. n /\ k + 1 \in 1 .. n
        /\ (k + 1) + 1 \in 1 .. n /\ k < n /\ k + 1 < n
    BY <1>1, <1>17
  <2>2. v[k] \in Places /\ v[k] # i
    BY <1>1, <1>12, <2>1
  <2>3. m > 1 => m - 1 \in 1 .. n
    BY <1>1
  <2>4. CASE k + 1 < m
    <3>1. v[k] = w[k] /\ v[k + 1] = w[k + 1] /\ k # m - 1 /\ k < m
      BY <1>1, <1>11, <2>1, <2>4
    <3>2. m > 1 => w[k] # w[m - 1]
      BY <1>4, <2>1, <2>3, <3>1
    <3>3. M.orders[v[k]].next = L.orders[w[k]].next
      BY <1>10, <2>2, <3>1, <3>2
    <3> QED BY <1>4, <2>1, <3>1, <3>3
  <2>5. CASE k + 1 = m
    <3>1. v[k] = w[k] /\ v[k + 1] = w[(k + 1) + 1] /\ k = m - 1 /\ m > 1 /\ m < n
      BY <1>1, <1>11, <2>1, <2>5
    <3>2. M.orders[v[k]].next = w[m + 1]
      BY <1>8, <1>10, <2>2, <3>1
    <3> QED BY <2>5, <3>1, <3>2
  <2>6. CASE k + 1 > m
    <3>1. v[k] = w[k + 1] /\ v[k + 1] = w[(k + 1) + 1] /\ k + 1 # m - 1
      BY <1>1, <1>11, <2>1, <2>6
    <3>2. m > 1 => w[k + 1] # w[m - 1]
      BY <1>4, <2>1, <2>3, <3>1
    <3>3. M.orders[v[k]].next = L.orders[w[k + 1]].next
      BY <1>10, <2>2, <3>1, <3>2
    <3> QED BY <1>4, <2>1, <3>1, <3>3
  <2> QED BY <1>1, <2>1, <2>4, <2>5, <2>6
<1>18. Tour(M, v)
  BY <1>13, <1>14, <1>15, <1>16, <1>17 DEF Tour
<1>19. Queue(M) = [k \in 1 .. n - 1 |-> Order(M, v[k])] /\ Len(Queue(M)) = n - 1
       /\ Queue(M) \in Seq([ref : Refs, qty : Nat])
  <2>1. /\ Queue(M) = [k \in 1 .. M.count |-> Order(M, v[k])]
        /\ Queue(M) \in Seq([ref : Refs, qty : Nat]) /\ Len(Queue(M)) = M.count
    BY ONLY <1>3, <1>18, TourQueue
  <2> QED BY <1>1, <2>1
<1>20. \A k \in 1 .. n - 1 : Queue(M)[k] = IF k < m THEN Queue(L)[k] ELSE Queue(L)[k + 1]
  <2> SUFFICES ASSUME NEW k \in 1 .. n - 1
               PROVE  Queue(M)[k] = IF k < m THEN Queue(L)[k] ELSE Queue(L)[k + 1]
    OBVIOUS
  <2>1. Queue(M)[k] = Order(L, v[k])
    BY <1>1, <1>2, <1>12, <1>19
  <2>2. k \in 1 .. n /\ k + 1 \in 1 .. n
    BY <1>7
  <2>3. Queue(L)[k] = Order(L, w[k]) /\ Queue(L)[k + 1] = Order(L, w[k + 1])
    BY <1>0, <2>2
  <2> QED BY <1>11, <2>1, <2>3
<1>21. Queue(L)[m].ref = L.orders[i].ref /\ m \in 1 .. Len(Queue(L))
  <2>1. Queue(L)[m] = Order(L, i) /\ m \in 1 .. Len(Queue(L))
    BY <1>0, <1>6
  <2> QED BY <2>1 DEF Order
<1>22. Queue(M) = Abstract!RemoveAt(Queue(L), m)
  <2> DEFINE T == [ref : Refs, qty : Nat]
             s == Queue(L)
             t == Queue(M)
             u == Abstract!RemoveAt(s, m)
  <2>1. s \in Seq(T) /\ t \in Seq(T) /\ m \in 1 .. Len(s) /\ Len(s) = n /\ Len(t) = n - 1
    BY <1>0, <1>19, <1>21
  <2>2. \A k \in 1 .. n - 1 : t[k] = IF k < m THEN s[k] ELSE s[k + 1]
    BY <1>20
  <2> HIDE DEF s, t, T, n
  <2>3. /\ u \in Seq(T) /\ Len(u) = Len(s) - 1
        /\ \A j \in 1 .. Len(s) - 1 : u[j] = IF j < m THEN s[j] ELSE s[j + 1]
    BY <2>1, RemoveAtIs
  <2> HIDE DEF u
  <2>4. Len(t) = Len(u) /\ \A k \in 1 .. Len(t) : t[k] = u[k]
    BY <2>1, <2>2, <2>3
  <2>5. t = u
    BY <2>1, <2>3, <2>4, SeqEqual
  <2> QED BY <2>5 DEF t, u, s
<1> QED BY <1>6, <1>18, <1>21, <1>22

-----------------------------------------------------------------------------
(***************************************************************************)
(* Sides.                                                                  *)
(***************************************************************************)
Listed(level) == \E w : Tour(level, w)

\* Every level has its tour, and every row in use a price.
Filed(sd) ==
    /\ \A k \in Rows : Listed(sd.rows[k])
    /\ \A k \in Rows : k < sd.depth => sd.rows[k].price \in Prices

\* The queue of a side at a price.
QueueOf(sd, price) ==
    LET rows == {k \in 0 .. sd.depth - 1 : sd.rows[k].price = price}
    IN  IF rows = {} THEN << >> ELSE Queue(sd.rows[CHOOSE k \in rows : TRUE])

\* The levels in use that hold orders.
Stock(sd) == {sd.rows[k] : k \in {j \in Rows : j < sd.depth /\ sd.rows[j].count > 0}}

\* No order, no queue; the empty tour is the only one.
LEMMA EmptyQueue ==
    ASSUME NEW level, LevelOK(level), ~(level.count > 0)
    PROVE  Queue(level) = << >>
<1>1. level.count = 0
  BY CountType
<1> QED BY <1>1 DEF Queue

LEMMA EmptyListed ==
    /\ Listed(EmptyLevel)
    /\ \A price : Listed([EmptyLevel EXCEPT !.price = price])
<1>1. ASSUME NEW level, level.count = 0, Active(level) = {} PROVE Listed(level)
  <2>1. Tour(level, << >>)
    BY <1>1 DEF Tour
  <2> QED BY <2>1 DEF Listed
<1>2. EmptyLevel.count = 0 /\ \A price : [EmptyLevel EXCEPT !.price = price].count = 0
  BY DEF EmptyLevel
<1>3. Active(EmptyLevel) = {} /\ \A price : Active([EmptyLevel EXCEPT !.price = price]) = {}
  BY DEF EmptyLevel, EmptySlot, Active
<1> QED BY <1>1, <1>2, <1>3

\* The row of a price is the only one.
LEMMA QueueOfRow ==
    ASSUME NEW sd, NEW b, NEW E, SideOK(sd, b, E), NEW k \in Rows, k < sd.depth
    PROVE  QueueOf(sd, sd.rows[k].price) = Queue(sd.rows[k])
<1> DEFINE p == sd.rows[k].price
           rows == {j \in 0 .. sd.depth - 1 : sd.rows[j].price = p}
           c == CHOOSE j \in rows : TRUE
<1>1. sd.depth \in Nat /\ sd.depth <= MaxLevels /\ k \in Nat
  BY RowType DEF SideOK, SideType
<1>2. k \in rows
  BY <1>1
<1>3. c \in rows
  BY <1>2
<1>4. QueueOf(sd, p) = Queue(sd.rows[c])
  BY <1>2 DEF QueueOf
<1>5. c \in Rows /\ c < sd.depth /\ sd.rows[c].price = p
  BY <1>1, <1>3, RowType
<1> HIDE DEF c
<1>6. p \in Nat
  BY PriceType DEF SideOK, SideType
<1>7. ~Ahead(b, p, p)
  BY <1>6, AheadOrder
<1>8. ~(c < k) /\ ~(k < c)
  BY <1>5, <1>7 DEF SideOK, InOrder
<1>9. c = k
  BY <1>5, <1>8, RowType
<1> QED BY <1>4, <1>9

LEMMA QueueOfNone ==
    ASSUME NEW sd, NEW b, NEW E, SideOK(sd, b, E), NEW p,
           \A k \in Rows : k < sd.depth => sd.rows[k].price # p
    PROVE  QueueOf(sd, p) = << >>
<1>1. sd.depth \in Nat /\ sd.depth <= MaxLevels
  BY RowType DEF SideOK, SideType
<1>2. \A k \in 0 .. sd.depth - 1 : k \in Rows /\ k < sd.depth
  BY <1>1, RowType
<1>3. {k \in 0 .. sd.depth - 1 : sd.rows[k].price = p} = {}
  BY <1>2
<1> QED BY <1>3 DEF QueueOf

\* The queues are those of the levels that hold orders.
LEMMA QueueOfStock ==
    ASSUME NEW sd, NEW b, NEW E, SideOK(sd, b, E), NEW p
    PROVE  /\ \A level \in Stock(sd) : level.price = p => QueueOf(sd, p) = Queue(level)
           /\ (\A level \in Stock(sd) : level.price # p) => QueueOf(sd, p) = << >>
<1>1. ASSUME NEW level \in Stock(sd), level.price = p PROVE QueueOf(sd, p) = Queue(level)
  <2>1. PICK k \in Rows : k < sd.depth /\ level = sd.rows[k]
    BY DEF Stock
  <2> QED BY <1>1, <2>1, QueueOfRow
<1>2. ASSUME \A level \in Stock(sd) : level.price # p PROVE QueueOf(sd, p) = << >>
  <2>1. CASE \A k \in Rows : k < sd.depth => sd.rows[k].price # p
    BY <2>1, QueueOfNone
  <2>2. ASSUME NEW k \in Rows, k < sd.depth, sd.rows[k].price = p PROVE QueueOf(sd, p) = << >>
    <3>1. ~(sd.rows[k].count > 0)
      BY <1>2, <2>2 DEF Stock
    <3>2. LevelOK(sd.rows[k])
      BY DEF SideOK
    <3>3. Queue(sd.rows[k]) = << >>
      BY <3>1, <3>2, EmptyQueue
    <3> QED BY <2>2, <3>3, QueueOfRow
  <2> QED BY <2>1, <2>2
<1> QED BY <1>1, <1>2

LEMMA StockQueues ==
    ASSUME NEW sd, NEW new, NEW b, NEW E, NEW F, SideOK(sd, b, E), SideOK(new, b, F),
           Stock(new) = Stock(sd)
    PROVE  \A p : QueueOf(new, p) = QueueOf(sd, p)
<1> SUFFICES ASSUME NEW p PROVE QueueOf(new, p) = QueueOf(sd, p)
  OBVIOUS
<1>1. /\ \A level \in Stock(sd) : level.price = p => QueueOf(sd, p) = Queue(level)
      /\ (\A level \in Stock(sd) : level.price # p) => QueueOf(sd, p) = << >>
  BY QueueOfStock
<1>2. /\ \A level \in Stock(new) : level.price = p => QueueOf(new, p) = Queue(level)
      /\ (\A level \in Stock(new) : level.price # p) => QueueOf(new, p) = << >>
  BY QueueOfStock
<1> QED BY <1>1, <1>2

\* A new empty level adds no order.
LEMMA MadeStock ==
    ASSUME NEW sd, NEW new, NEW b, NEW pos, NEW price \in Prices, SideOK(sd, b, {}), Filed(sd),
           Made(sd, new, pos, price), SideOK(new, b, {pos})
    PROVE  Stock(new) = Stock(sd) /\ Filed(new)
<1>1. /\ pos \in Rows /\ pos <= sd.depth /\ new.depth = sd.depth + 1
      /\ new.rows[pos] = [EmptyLevel EXCEPT !.price = price]
      /\ \A k \in Rows : k < pos \/ k > sd.depth => new.rows[k] = sd.rows[k]
      /\ \A k \in Rows : k > pos /\ k <= sd.depth => new.rows[k] = sd.rows[k - 1]
  BY DEF Made
<1>2. sd.depth \in Nat /\ sd.depth < MaxLevels /\ pos \in Nat
  BY <1>1, RowType DEF SideOK, SideType
<1>3. new.rows[pos].count = 0 /\ new.rows[pos].price = price
  BY <1>1 DEF EmptyLevel
<1>4. ASSUME NEW k \in Rows, k < new.depth, k # pos
      PROVE  \E j \in Rows : j < sd.depth /\ new.rows[k] = sd.rows[j]
  <2>1. CASE k < pos
    <3>1. k < sd.depth /\ new.rows[k] = sd.rows[k]
      BY <1>1, <1>2, <2>1, RowType
    <3> QED BY <3>1
  <2>2. CASE k > pos
    <3>1. k <= sd.depth /\ k - 1 \in Rows /\ k - 1 < sd.depth
      BY <1>1, <1>2, <1>4, <2>2, RowType
    <3>2. new.rows[k] = sd.rows[k - 1]
      BY <1>1, <2>2, <3>1
    <3> QED BY <3>1, <3>2
  <2> QED BY <1>2, <1>4, <2>1, <2>2, RowType
<1>5. ASSUME NEW k \in Rows, k < sd.depth, sd.rows[k].count > 0
      PROVE  \E j \in Rows : j < new.depth /\ new.rows[j] = sd.rows[k]
  <2>1. CASE k < pos
    <3>1. k < new.depth /\ new.rows[k] = sd.rows[k]
      BY <1>1, <1>2, <1>5, <2>1, RowType
    <3> QED BY <3>1
  <2>2. CASE k >= pos
    <3>1. k + 1 > pos /\ k + 1 <= sd.depth /\ k + 1 < new.depth /\ (k + 1) - 1 = k /\ k + 1 \in Rows
      BY <1>1, <1>2, <1>5, <2>2, RowType
    <3>2. new.rows[k + 1] = sd.rows[k]
      BY <1>1, <3>1
    <3> QED BY <3>1, <3>2
  <2> QED BY <1>2, <2>1, <2>2, RowType
<1>6. ASSUME NEW level \in Stock(new) PROVE level \in Stock(sd)
  <2>1. PICK k \in Rows : k < new.depth /\ new.rows[k].count > 0 /\ level = new.rows[k]
    BY DEF Stock
  <2>2. k # pos
    BY <1>3, <2>1
  <2> QED BY <1>4, <2>1, <2>2 DEF Stock
<1>7. ASSUME NEW level \in Stock(sd) PROVE level \in Stock(new)
  <2>1. PICK k \in Rows : k < sd.depth /\ sd.rows[k].count > 0 /\ level = sd.rows[k]
    BY DEF Stock
  <2> QED BY <1>5, <2>1 DEF Stock
<1>8. ASSUME NEW k \in Rows PROVE Listed(new.rows[k])
  <2>1. CASE k = pos
    BY <1>1, <2>1, EmptyListed
  <2>2. CASE k # pos /\ k < new.depth
    BY <1>4, <2>2 DEF Filed
  <2>3. CASE ~(k < new.depth)
    <3>1. new.rows[k] = EmptyLevel
      <4>1. k >= new.depth
        BY <1>1, <1>2, <2>3, RowType
      <4> QED BY <4>1 DEF SideOK, Clear
    <3> QED BY <3>1, EmptyListed
  <2> QED BY <2>1, <2>2, <2>3
<1>9. ASSUME NEW k \in Rows, k < new.depth PROVE new.rows[k].price \in Prices
  BY <1>3, <1>4, <1>9 DEF Filed
<1> QED BY <1>6, <1>7, <1>8, <1>9 DEF Filed

\* An empty level that is dropped takes no order along.
LEMMA DroppedStock ==
    ASSUME NEW sd, NEW new, NEW b, NEW row \in Rows, SideOK(sd, b, {row}), Filed(sd),
           row < sd.depth, Dropped(sd, new, row)
    PROVE  Stock(new) = Stock(sd) /\ Filed(new)
<1>1. /\ ~(sd.rows[row].count > 0) /\ new.depth = sd.depth - 1
      /\ \A k \in Rows : k < row => new.rows[k] = sd.rows[k]
      /\ \A k \in Rows : k >= row /\ k < sd.depth - 1 => new.rows[k] = sd.rows[k + 1]
      /\ \A k \in Rows : k >= sd.depth - 1 => new.rows[k] = EmptyLevel
  BY DEF Dropped
<1>2. sd.depth \in Nat /\ sd.depth <= MaxLevels /\ row \in Nat /\ row < sd.depth
  BY <1>1, RowType DEF SideOK, SideType
<1>3. ASSUME NEW k \in Rows, k < new.depth
      PROVE  \E j \in Rows : j < sd.depth /\ new.rows[k] = sd.rows[j]
  <2>1. CASE k < row
    <3>1. k < sd.depth /\ new.rows[k] = sd.rows[k]
      BY <1>1, <1>2, <2>1, RowType
    <3> QED BY <3>1
  <2>2. CASE k >= row
    <3>1. k < sd.depth - 1 /\ k + 1 \in Rows /\ k + 1 < sd.depth
      BY <1>1, <1>2, <1>3, RowType
    <3>2. new.rows[k] = sd.rows[k + 1]
      BY <1>1, <2>2, <3>1
    <3> QED BY <3>1, <3>2
  <2> QED BY <1>2, <2>1, <2>2, RowType
<1>4. ASSUME NEW k \in Rows, k < sd.depth, sd.rows[k].count > 0
      PROVE  \E j \in Rows : j < new.depth /\ new.rows[j] = sd.rows[k]
  <2>0. k # row
    BY <1>1, <1>4
  <2>1. CASE k < row
    <3>1. k < new.depth /\ new.rows[k] = sd.rows[k]
      BY <1>1, <1>2, <2>1, RowType
    <3> QED BY <3>1
  <2>2. CASE k > row
    <3>1. k - 1 \in Rows /\ k - 1 >= row /\ k - 1 < sd.depth - 1 /\ (k - 1) + 1 = k
      BY <1>2, <1>4, <2>2, RowType
    <3>2. new.rows[k - 1] = sd.rows[k]
      BY <1>1, <3>1
    <3> QED BY <1>1, <3>1, <3>2
  <2> QED BY <1>2, <2>0, <2>1, <2>2, RowType
<1>5. ASSUME NEW level \in Stock(new) PROVE level \in Stock(sd)
  <2>1. PICK k \in Rows : k < new.depth /\ new.rows[k].count > 0 /\ level = new.rows[k]
    BY DEF Stock
  <2> QED BY <1>3, <2>1 DEF Stock
<1>6. ASSUME NEW level \in Stock(sd) PROVE level \in Stock(new)
  <2>1. PICK k \in Rows : k < sd.depth /\ sd.rows[k].count > 0 /\ level = sd.rows[k]
    BY DEF Stock
  <2> QED BY <1>4, <2>1 DEF Stock
<1>7. ASSUME NEW k \in Rows PROVE Listed(new.rows[k])
  <2>1. CASE k < new.depth
    BY <1>3, <2>1 DEF Filed
  <2>2. CASE ~(k < new.depth)
    <3>1. k >= sd.depth - 1
      BY <1>1, <1>2, <2>2, RowType
    <3> QED BY <1>1, <3>1, EmptyListed
  <2> QED BY <2>1, <2>2
<1>8. ASSUME NEW k \in Rows, k < new.depth PROVE new.rows[k].price \in Prices
  BY <1>3, <1>8 DEF Filed
<1> QED BY <1>5, <1>6, <1>7, <1>8 DEF Filed

\* Another level in a row changes the queue of its price and no other.
LEMMA RowQueues ==
    ASSUME NEW sd, NEW new, NEW b, NEW E, NEW F, NEW row, SideOK(sd, b, E), SideOK(new, b, F),
           RowChange(sd, new, row), Filed(sd), Listed(new.rows[row])
    PROVE  /\ Filed(new)
           /\ QueueOf(sd, sd.rows[row].price) = Queue(sd.rows[row])
           /\ QueueOf(new, sd.rows[row].price) = Queue(new.rows[row])
           /\ \A p : p # sd.rows[row].price => QueueOf(new, p) = QueueOf(sd, p)
<1>1. /\ row \in Rows /\ row < sd.depth /\ new.depth = sd.depth
      /\ new.rows[row].price = sd.rows[row].price
      /\ \A k \in Rows : k # row => new.rows[k] = sd.rows[k]
  BY DEF RowChange
<1>2. Filed(new)
  BY <1>1 DEF Filed
<1>3. QueueOf(sd, sd.rows[row].price) = Queue(sd.rows[row])
  BY <1>1, QueueOfRow
<1>4. QueueOf(new, new.rows[row].price) = Queue(new.rows[row])
  BY <1>1, QueueOfRow
<1>5. ASSUME NEW p, p # sd.rows[row].price PROVE QueueOf(new, p) = QueueOf(sd, p)
  <2>1. CASE \A k \in Rows : k < sd.depth => sd.rows[k].price # p
    <3>1. \A k \in Rows : k < new.depth => new.rows[k].price # p
      BY <1>1, <1>5, <2>1
    <3> QED BY <2>1, <3>1, QueueOfNone
  <2>2. ASSUME NEW k \in Rows, k < sd.depth, sd.rows[k].price = p
        PROVE  QueueOf(new, p) = QueueOf(sd, p)
    <3>1. k # row /\ new.rows[k] = sd.rows[k] /\ k < new.depth
      BY <1>1, <1>5, <2>2
    <3>2. QueueOf(sd, sd.rows[k].price) = Queue(sd.rows[k])
      BY <2>2, QueueOfRow
    <3>3. QueueOf(new, new.rows[k].price) = Queue(new.rows[k])
      BY <3>1, QueueOfRow
    <3> QED BY <2>2, <3>1, <3>2, <3>3
  <2> QED BY <2>1, <2>2
<1> QED BY <1>1, <1>2, <1>3, <1>4, <1>5

-----------------------------------------------------------------------------
(***************************************************************************)
(* The two halves of the handlers, on the queues.                          *)
(***************************************************************************)

\* An order joins the end of the queue of its price; the other queues stay.
Joins(sd, new, price, ref, qty) ==
    /\ QueueOf(new, price) = Append(QueueOf(sd, price), [ref |-> ref, qty |-> qty])
    /\ \A p : p # price => QueueOf(new, p) = QueueOf(sd, p)

\* The order leaves its queue.
Leaves(sd, new, price, ref) ==
    /\ \E m \in 1 .. Len(QueueOf(sd, price)) :
          /\ QueueOf(sd, price)[m].ref = ref
          /\ QueueOf(new, price) = Abstract!RemoveAt(QueueOf(sd, price), m)
    /\ \A p : p # price => QueueOf(new, p) = QueueOf(sd, p)

\* An order of the queue shrinks.
Shrinks(sd, new, price, qty) ==
    /\ \E m \in 1 .. Len(QueueOf(sd, price)) :
          /\ qty < QueueOf(sd, price)[m].qty
          /\ QueueOf(new, price) = [QueueOf(sd, price) EXCEPT ![m].qty = @ - qty]
    /\ \A p : p # price => QueueOf(new, p) = QueueOf(sd, p)

LEMMA OpenedQueues ==
    ASSUME NEW sd, NEW b \in Books, SideOK(sd, b, {}), Filed(sd), NEW price \in Prices,
           Fits(sd, b, price)
    PROVE  /\ Filed(Opened(sd, b, price))
           /\ \A p : QueueOf(Opened(sd, b, price), p) = QueueOf(sd, p)
<1> DEFINE old == find_level(sd, b, price)
           pos == insert_pos(sd, b, price)
           new == insert_level_impl(sd, b, price)
<1>1. CASE old # None
  <2>1. Opened(sd, b, price) = sd
    BY <1>1 DEF Opened
  <2> QED BY <2>1
<1>2. CASE old = None
  <2>1. Opened(sd, b, price) = new /\ sd.depth < MaxLevels
    BY <1>2 DEF Opened, Fits
  <2>2. price \in Nat /\ sd \in SideType /\ InOrder(sd, b)
    BY LOBAssumption DEF SideOK
  <2>3. Found(sd, price, old)
    BY <2>2, SearchFinds
  <2>4. \A k \in Rows : k < sd.depth => sd.rows[k].price # price
    BY <1>2, <2>3, RowType DEF Found
  <2>5. SideOK(new, b, {pos}) /\ Made(sd, new, pos, price)
    BY <2>1, <2>4, InsertedOK
  <2> HIDE DEF new, pos
  <2>6. Stock(new) = Stock(sd) /\ Filed(new)
    BY <2>5, MadeStock
  <2>7. \A p : QueueOf(new, p) = QueueOf(sd, p)
    BY <2>5, <2>6, StockQueues
  <2> QED BY <2>1, <2>6, <2>7
<1> QED BY <1>1, <1>2

LEMMA AttachedQueues ==
    ASSUME NEW sd, NEW b \in Books, SideOK(sd, b, {}), Filed(sd), NEW price \in Prices,
           NEW ref \in Refs, NEW qty \in Qtys, sd.index[ref] = Nowhere, Fits(sd, b, price)
    PROVE  LET new == Attached(sd, b, price, ref, qty)
           IN  Filed(new) /\ Joins(sd, new, price, ref, qty)
<1> DEFINE ready == Opened(sd, b, price)
           new == Attached(sd, b, price, ref, qty)
<1>1. SideOK(new, b, {}) /\ Placed(ready, new, b, price, ref, qty)
  BY AttachedOK
<1>2. Filed(ready) /\ \A p : QueueOf(ready, p) = QueueOf(sd, p)
  BY OpenedQueues
<1> HIDE DEF ready, new
<1>3. PICK row, place :
          /\ Ready(ready, b, price, ref, row) /\ RowChange(ready, new, row)
          /\ Entered(ready.rows[row], new.rows[row], place, ref, qty)
  BY <1>1 DEF Placed
<1>4. SideOK(ready, b, {row}) /\ row \in Rows /\ ready.rows[row].price = price
  BY <1>3 DEF Ready
<1>5. LevelOK(ready.rows[row])
  BY <1>4 DEF SideOK
<1>6. PICK w : Tour(ready.rows[row], w)
  BY <1>2, <1>4 DEF Filed, Listed
<1>7. /\ Listed(new.rows[row])
      /\ Queue(new.rows[row]) = Append(Queue(ready.rows[row]), [ref |-> ref, qty |-> qty])
  BY <1>3, <1>5, <1>6, EnteredTour DEF Listed
<1>8. /\ Filed(new)
      /\ QueueOf(ready, price) = Queue(ready.rows[row])
      /\ QueueOf(new, price) = Queue(new.rows[row])
      /\ \A p : p # price => QueueOf(new, p) = QueueOf(ready, p)
  BY <1>1, <1>2, <1>3, <1>4, <1>7, RowQueues
<1>9. Joins(sd, new, price, ref, qty)
  BY <1>2, <1>7, <1>8 DEF Joins
<1> QED BY <1>8, <1>9 DEF new

LEMMA WithdrawnQueues ==
    ASSUME NEW sd, NEW new, NEW b \in Books, SideOK(sd, b, {}), Filed(sd), SideOK(new, b, {}),
           NEW ref \in Refs, sd.index[ref] # Nowhere, sd.index[ref].book = b,
           Withdrawn(sd, new, b, ref)
    PROVE  Filed(new) /\ \E price \in Prices : Leaves(sd, new, price, ref)
<1> DEFINE row == sd.index[ref].row
           place == sd.index[ref].place
           L == sd.rows[row]
           price == L.price
<1>1. /\ row \in Rows /\ row < sd.depth /\ LevelOK(L) /\ L.orders[place].ref = ref
  BY WhereIndexed
<1>2. PICK cut :
          /\ SideOK(cut, b, {row}) /\ RowChange(sd, cut, row)
          /\ Left(L, cut.rows[row], place) /\ new = remove_level_if_empty(cut, b, row)
  BY DEF Withdrawn
<1>3. PICK w : Tour(L, w)
  BY <1>1 DEF Filed, Listed
<1>4. price \in Prices
  BY <1>1 DEF Filed
<1> HIDE DEF row, place
<1>5. /\ Listed(cut.rows[row])
      /\ \E m \in 1 .. Len(Queue(L)) :
            /\ Queue(L)[m].ref = ref
            /\ Queue(cut.rows[row]) = Abstract!RemoveAt(Queue(L), m)
  <2> HIDE DEF L
  <2> QED BY <1>1, <1>2, <1>3, LeftTour DEF Listed
<1>6. /\ Filed(cut)
      /\ QueueOf(sd, price) = Queue(L)
      /\ QueueOf(cut, price) = Queue(cut.rows[row])
      /\ \A p : p # price => QueueOf(cut, p) = QueueOf(sd, p)
  BY <1>2, <1>5, RowQueues
<1>7. row < cut.depth
  BY <1>1, <1>2 DEF RowChange
<1>8. new = cut \/ Dropped(cut, new, row)
  BY <1>1, <1>2, <1>7, RemovedOK
<1>9. Filed(new) /\ \A p : QueueOf(new, p) = QueueOf(cut, p)
  <2>1. CASE new = cut
    BY <1>6, <2>1
  <2>2. CASE Dropped(cut, new, row)
    <3>1. Stock(new) = Stock(cut) /\ Filed(new)
      BY <1>1, <1>2, <1>6, <1>7, <2>2, DroppedStock
    <3> QED BY <1>2, <3>1, StockQueues
  <2> QED BY <1>8, <2>1, <2>2
<1> HIDE DEF L, price
<1>10. Leaves(sd, new, price, ref)
  BY <1>5, <1>6, <1>9 DEF Leaves
<1> QED BY <1>4, <1>9, <1>10

LEMMA LessenedQueues ==
    ASSUME NEW sd, NEW new, NEW b \in Books, SideOK(sd, b, {}), Filed(sd), SideOK(new, b, {}),
           NEW ref \in Refs, sd.index[ref] # Nowhere, sd.index[ref].book = b,
           NEW qty, Lessened(sd, new, ref, qty)
    PROVE  Filed(new) /\ \E price \in Prices : Shrinks(sd, new, price, qty)
<1> DEFINE row == sd.index[ref].row
           place == sd.index[ref].place
           L == sd.rows[row]
           price == L.price
<1>1. row \in Rows /\ row < sd.depth /\ LevelOK(L)
  BY WhereIndexed
<1>2. RowChange(sd, new, row) /\ Shrunk(L, new.rows[row], place, qty)
  BY DEF Lessened
<1>3. PICK w : Tour(L, w)
  BY <1>1 DEF Filed, Listed
<1>4. price \in Prices
  BY <1>1 DEF Filed
<1> HIDE DEF row, place
<1>5. /\ Listed(new.rows[row])
      /\ \E m \in 1 .. Len(Queue(L)) :
            /\ qty < Queue(L)[m].qty
            /\ Queue(new.rows[row]) = [Queue(L) EXCEPT ![m].qty = @ - qty]
  <2> DEFINE M == new.rows[row]
  <2>1. Shrunk(L, M, place, qty)
    BY <1>2
  <2> HIDE DEF L, M
  <2>2. /\ Tour(M, w)
        /\ \E m \in 1 .. Len(Queue(L)) :
              /\ qty < Queue(L)[m].qty
              /\ Queue(M) = [Queue(L) EXCEPT ![m].qty = @ - qty]
    BY ONLY <1>1, <1>3, <2>1, ShrunkTour
  <2> QED BY <2>2, Zenon DEF Listed, M
<1>6. /\ Filed(new)
      /\ QueueOf(sd, price) = Queue(L)
      /\ QueueOf(new, price) = Queue(new.rows[row])
      /\ \A p : p # price => QueueOf(new, p) = QueueOf(sd, p)
  BY <1>2, <1>5, RowQueues
<1> HIDE DEF L, price
<1>7. Shrinks(sd, new, price, qty)
  BY <1>5, <1>6 DEF Shrinks
<1> QED BY <1>4, <1>6, <1>7

\* The queues hold orders, and only indexed ones.
LEMMA QueuedIndexed ==
    ASSUME NEW sd, NEW b, NEW E, SideOK(sd, b, E), Filed(sd), NEW p
    PROVE  /\ QueueOf(sd, p) \in Seq([ref : Refs, qty : Nat])
           /\ \A m \in 1 .. Len(QueueOf(sd, p)) :
                 /\ QueueOf(sd, p)[m].ref \in Refs
                 /\ sd.index[QueueOf(sd, p)[m].ref] # Nowhere
<1>1. CASE \A k \in Rows : k < sd.depth => sd.rows[k].price # p
  <2>1. QueueOf(sd, p) = << >>
    BY <1>1, QueueOfNone
  <2> QED BY <2>1
<1>2. ASSUME NEW k \in Rows, k < sd.depth, sd.rows[k].price = p
      PROVE  /\ QueueOf(sd, p) \in Seq([ref : Refs, qty : Nat])
             /\ \A m \in 1 .. Len(QueueOf(sd, p)) :
                   /\ QueueOf(sd, p)[m].ref \in Refs
                   /\ sd.index[QueueOf(sd, p)[m].ref] # Nowhere
  <2> DEFINE L == sd.rows[k]
  <2>1. QueueOf(sd, p) = Queue(L)
    BY <1>2, QueueOfRow
  <2>2. LevelOK(L)
    BY DEF SideOK
  <2>3. PICK w : Tour(L, w)
    BY DEF Filed, Listed
  <2>4. /\ Queue(L) = [j \in 1 .. L.count |-> Order(L, w[j])]
        /\ Queue(L) \in Seq([ref : Refs, qty : Nat]) /\ Len(Queue(L)) = L.count
    <3> HIDE DEF L
    <3> QED BY <2>2, <2>3, TourQueue
  <2>5. ASSUME NEW m \in 1 .. L.count
        PROVE  Queue(L)[m].ref \in Refs /\ sd.index[Queue(L)[m].ref] # Nowhere
    <3> DEFINE i == w[m]
               r == L.orders[i].ref
    <3>1. i \in Active(L) /\ Queue(L)[m] = Order(L, i)
      BY <2>3, <2>4 DEF Tour
    <3>2. i \in Places /\ r \in Refs
      <4> HIDE DEF L
      <4> QED BY <2>2, <3>1, CountType DEF Active, Slot
    <3>3. Queue(L)[m].ref = r
      BY <3>1 DEF Order
    <3>4. Holds(sd, k, i, r)
      BY <3>2 DEF Holds
    <3> HIDE DEF r, i, L
    <3>5. sd.index[r] = At(b, k, i)
      BY <3>2, <3>4 DEF SideOK, Indexed, At
    <3> QED BY <3>2, <3>3, <3>5, AtFields
  <2> HIDE DEF L
  <2> QED BY <2>1, <2>4, <2>5
<1> QED BY <1>1, <1>2

\* An order that joins and leaves again has changed nothing.
LEMMA JoinedLeft ==
    ASSUME NEW sd, NEW mid, NEW new, NEW b, SideOK(sd, b, {}), Filed(sd), NEW ref \in Refs,
           sd.index[ref] = Nowhere, NEW price, NEW qty \in Qtys, NEW other,
           Joins(sd, mid, price, ref, qty), Leaves(mid, new, other, ref)
    PROVE  \A p : QueueOf(new, p) = QueueOf(sd, p)
<1> DEFINE T == [ref : Refs, qty : Nat]
           o == [ref |-> ref, qty |-> qty]
           s == QueueOf(sd, price)
<1>1. \A p : \A m \in 1 .. Len(QueueOf(sd, p)) : QueueOf(sd, p)[m].ref # ref
  BY QueuedIndexed
<1>2. s \in Seq(T) /\ o \in T /\ o.ref = ref
  BY QueuedIndexed, LOBAssumption
<1>3. /\ QueueOf(mid, price) = Append(s, o)
      /\ \A p : p # price => QueueOf(mid, p) = QueueOf(sd, p)
  BY DEF Joins
<1>4. PICK m \in 1 .. Len(QueueOf(mid, other)) :
          /\ QueueOf(mid, other)[m].ref = ref
          /\ QueueOf(new, other) = Abstract!RemoveAt(QueueOf(mid, other), m)
  BY DEF Leaves
<1>5. \A p : p # other => QueueOf(new, p) = QueueOf(mid, p)
  BY DEF Leaves
<1>6. other = price
  BY <1>1, <1>3, <1>4
<1>7. \A j \in 1 .. Len(s) : s[j].ref # ref
  BY <1>1
<1> HIDE DEF s, o, T
<1>8. /\ Append(s, o) \in Seq(T) /\ Len(Append(s, o)) = Len(s) + 1 /\ Len(s) \in Nat
      /\ \A j \in 1 .. Len(s) : Append(s, o)[j] = s[j]
  BY <1>2, AppendProperties, LenProperties
<1>9. m = Len(s) + 1
  BY <1>3, <1>4, <1>6, <1>7, <1>8
<1> DEFINE t == Append(s, o)
           u == Abstract!RemoveAt(t, m)
<1>10. t \in Seq(T) /\ m \in 1 .. Len(t) /\ Len(t) = Len(s) + 1
       /\ \A j \in 1 .. Len(s) : t[j] = s[j]
  BY <1>3, <1>4, <1>6, <1>8
<1>11. QueueOf(new, price) = u
  BY <1>3, <1>4, <1>6
<1> HIDE DEF t
<1>12. /\ u \in Seq(T) /\ Len(u) = Len(t) - 1
       /\ \A j \in 1 .. Len(t) - 1 : u[j] = IF j < m THEN t[j] ELSE t[j + 1]
  BY <1>10, RemoveAtIs
<1> HIDE DEF u
<1>13. Len(u) = Len(s) /\ \A j \in 1 .. Len(u) : u[j] = s[j]
  BY <1>8, <1>9, <1>10, <1>12
<1>14. u = s
  BY <1>2, <1>12, <1>13, SeqEqual
<1> QED BY <1>3, <1>5, <1>6, <1>11, <1>14 DEF s

-----------------------------------------------------------------------------
(***************************************************************************)
(* The steps of the engine are steps of the abstract book.                 *)
(***************************************************************************)
Filing == \A b \in Books : Filed(Side(b))

\* The abstract state.
Mapped == [b \in Books |-> [p \in Prices |-> QueueAt(b, p)]]

LEMMA MappedNow ==
    \A b \in Books, p \in Prices : Mapped[b][p] = QueueOf(Side(b), p)
BY DEF Mapped, QueueAt, QueueOf, Side

\* A message changes the queues of one book.
LEMMA MappedChange ==
    ASSUME LOBInv, Filing, NEW b \in Books, NEW sd, SideOK(sd, b, {}), Filed(sd), Becomes(b, sd)
    PROVE  /\ Filing'
           /\ Mapped' = [Mapped EXCEPT ![b] = [p \in Prices |-> QueueOf(sd, p)]]
<1>1. sd \in SideType /\ LOBTypeOK
  BY DEF SideOK, LOBInv
<1>2. /\ levels' = [levels EXCEPT ![b] = sd.rows]
      /\ depth' = [depth EXCEPT ![b] = sd.depth]
  BY DEF Becomes
<1>3. ASSUME NEW c \in Books
      PROVE  LET old == IF c = b THEN sd ELSE Side(c)
             IN  Side(c)'.rows = old.rows /\ Side(c)'.depth = old.depth
  BY <1>1, <1>2 DEF Side, LOBTypeOK
<1>4. ASSUME NEW c \in Books
      PROVE  LET old == IF c = b THEN sd ELSE Side(c)
             IN  /\ Filed(old) => Filed(Side(c))'
                 /\ \A p \in Prices : Mapped'[c][p] = QueueOf(old, p)
  <2> DEFINE old == IF c = b THEN sd ELSE Side(c)
             new == Side(c)'
  <2>1. new.rows = old.rows /\ new.depth = old.depth
    BY <1>3
  <2>2. Mapped' = [a \in Books |-> [p \in Prices |-> QueueOf(Side(a)', p)]]
    BY DEF Mapped, QueueAt, QueueOf, Side
  <2>3. Filed(Side(c))' <=> Filed(new)
    BY DEF Filed
  <2>4. \A p \in Prices : Mapped'[c][p] = QueueOf(new, p)
    BY <2>2
  <2> HIDE DEF old, new
  <2>5. Filed(old) => Filed(new)
    BY <2>1 DEF Filed
  <2>6. \A p : QueueOf(new, p) = QueueOf(old, p)
    BY <2>1 DEF QueueOf
  <2> QED BY <2>3, <2>4, <2>5, <2>6 DEF old
<1>5. Filing'
  BY <1>4 DEF Filing
<1>6. /\ Mapped = [c \in Books |-> Mapped[c]]
      /\ Mapped' = [c \in Books |-> [p \in Prices |-> Mapped'[c][p]]]
      /\ \A c \in Books : Mapped[c] = [p \in Prices |-> QueueOf(Side(c), p)]
  BY DEF Mapped, QueueAt, QueueOf, Side
<1>7. \A c \in Books : Mapped'[c] = IF c = b THEN [p \in Prices |-> QueueOf(sd, p)] ELSE Mapped[c]
  BY <1>4, <1>6
<1> QED BY <1>5, <1>6, <1>7

\* A reference without an index entry rests nowhere.
LEMMA FreshRef ==
    ASSUME LOBInv, Filing, NEW ref \in Refs, index[ref] = Nowhere
    PROVE  ref \in Refs \ Abstract!Resting(Mapped)
<1> SUFFICES ASSUME ref \in Abstract!Resting(Mapped) PROVE FALSE
  OBVIOUS
<1>1. PICK b \in Books, p \in Prices : ref \in {Mapped[b][p][k].ref : k \in 1 .. Len(Mapped[b][p])}
  BY DEF Abstract!Resting
<1>2. PICK k \in 1 .. Len(Mapped[b][p]) : ref = Mapped[b][p][k].ref
  BY <1>1
<1>3. Mapped[b][p] = QueueOf(Side(b), p)
  BY MappedNow
<1>4. SideOK(Side(b), b, {}) /\ Side(b).index = index /\ Filed(Side(b))
  BY SideNow DEF Filing
<1>5. Side(b).index[ref] # Nowhere
  BY <1>2, <1>3, <1>4, QueuedIndexed
<1> QED BY <1>4, <1>5

\* The queues q of all books become n: those of book b become f.
Changes(q, n, b, f) ==
    /\ b \in Books /\ q = [c \in Books |-> q[c]] /\ q[b] = [p \in Prices |-> q[b][p]]
    /\ n = [q EXCEPT ![b] = f] /\ f = [p \in Prices |-> f[p]]

LEMMA OneQueue ==
    ASSUME NEW q, NEW n, NEW b, NEW f, Changes(q, n, b, f), NEW price \in Prices, NEW x,
           f[price] = x, \A p \in Prices : p # price => f[p] = q[b][p]
    PROVE  n = [q EXCEPT ![b][price] = x]
<1>1. f = [q[b] EXCEPT ![price] = x]
  BY DEF Changes
<1> QED BY <1>1 DEF Changes

LEMMA AddStep ==
    ASSUME NEW q, NEW n, NEW b, NEW f, Changes(q, n, b, f), NEW price \in Prices,
           NEW ref \in Refs \ Abstract!Resting(q), NEW qty \in Qtys,
           f[price] = Append(q[b][price], [ref |-> ref, qty |-> qty]),
           \A p \in Prices : p # price => f[p] = q[b][p]
    PROVE  Abstract!Step(q, n)
<1>1. n = [q EXCEPT ![b][price] = Append(q[b][price], [ref |-> ref, qty |-> qty])]
  BY OneQueue
<1>2. b \in Books
  BY DEF Changes
<1>3. Abstract!Add(q, n, b, price)
  BY <1>1 DEF Abstract!Add
<1> QED BY <1>2, <1>3 DEF Abstract!Step

LEMMA ReduceStep ==
    ASSUME NEW q, NEW n, NEW b, NEW f, Changes(q, n, b, f), NEW price \in Prices,
           NEW qty \in Qtys, NEW m \in 1 .. Len(q[b][price]), qty < q[b][price][m].qty,
           f[price] = [q[b][price] EXCEPT ![m].qty = @ - qty],
           \A p \in Prices : p # price => f[p] = q[b][p]
    PROVE  Abstract!Step(q, n)
<1> DEFINE x == [q[b][price] EXCEPT ![m].qty = @ - qty]
<1>1. n = [q EXCEPT ![b][price] = x]
  <2>1. f[price] = x
    OBVIOUS
  <2> HIDE DEF x
  <2> QED BY <2>1, OneQueue
<1>2. b \in Books
  BY DEF Changes
<1>3. n = [q EXCEPT ![b][price][m].qty = @ - qty]
  BY <1>1
<1>4. Abstract!Reduce(q, n, b, price)
  BY <1>3 DEF Abstract!Reduce
<1> QED BY <1>2, <1>4 DEF Abstract!Step

LEMMA LeaveStep ==
    ASSUME NEW q, NEW n, NEW b, NEW f, Changes(q, n, b, f), NEW price \in Prices,
           NEW m \in 1 .. Len(q[b][price]), f[price] = Abstract!RemoveAt(q[b][price], m),
           \A p \in Prices : p # price => f[p] = q[b][p]
    PROVE  Abstract!Step(q, n)
<1>1. n = [q EXCEPT ![b][price] = Abstract!RemoveAt(q[b][price], m)]
  BY OneQueue
<1>2. b \in Books
  BY DEF Changes
<1>3. Abstract!Leave(q, n, b, price)
  BY <1>1 DEF Abstract!Leave
<1> QED BY <1>2, <1>3 DEF Abstract!Step

\* g are the queues of the book between the two halves of a replace.
LEMMA ReplaceStep ==
    ASSUME NEW q, NEW n, NEW b, NEW f, Changes(q, n, b, f), NEW g, g = [p \in Prices |-> g[p]],
           NEW price \in Prices, NEW m \in 1 .. Len(q[b][price]),
           g[price] = Abstract!RemoveAt(q[b][price], m),
           \A p \in Prices : p # price => g[p] = q[b][p],
           NEW other \in Prices, NEW ref \in Refs \ Abstract!Resting(q), NEW qty \in Qtys,
           f[other] = Append(g[other], [ref |-> ref, qty |-> qty]),
           \A p \in Prices : p # other => f[p] = g[p]
    PROVE  Abstract!Step(q, n)
<1> DEFINE left == [q EXCEPT ![b][price] = Abstract!RemoveAt(q[b][price], m)]
           mid == [q EXCEPT ![b] = g]
           x == Append(g[other], [ref |-> ref, qty |-> qty])
<1>1. Changes(q, mid, b, g) /\ b \in Books
  BY DEF Changes
<1>2. mid = left
  <2> HIDE DEF mid
  <2> QED BY <1>1, OneQueue
<1>3. mid[b] = g /\ mid = [c \in Books |-> mid[c]] /\ n = [mid EXCEPT ![b] = f]
  BY DEF Changes
<1>4. f = [p \in Prices |-> f[p]]
  BY DEF Changes
<1> HIDE DEF mid, left
<1>5. Changes(mid, n, b, f)
  BY <1>1, <1>3, <1>4 DEF Changes
<1>6. n = [mid EXCEPT ![b][other] = x]
  <2>1. f[other] = x /\ \A p \in Prices : p # other => f[p] = mid[b][p]
    BY <1>3
  <2> HIDE DEF x
  <2> QED BY <1>5, <2>1, OneQueue
<1>7. n = [left EXCEPT ![b][other] = Append(@, [ref |-> ref, qty |-> qty])]
  BY <1>1, <1>2, <1>3, <1>6
<1>8. Abstract!Replace(q, n, b, price)
  BY <1>7 DEF Abstract!Replace, left
<1> QED BY <1>1, <1>8 DEF Abstract!Step

\* What a message makes of one side decides what it does to the abstract book.
LEMMA MappedChanges ==
    ASSUME LOBInv, Filing, NEW b \in Books, NEW sd, SideOK(sd, b, {}), Filed(sd), Becomes(b, sd)
    PROVE  /\ Filing'
           /\ Changes(Mapped, Mapped', b, [p \in Prices |-> QueueOf(sd, p)])
           /\ \A p \in Prices : Mapped[b][p] = QueueOf(Side(b), p)
           /\ SideOK(Side(b), b, {}) /\ Filed(Side(b)) /\ Side(b).index = index
<1>1. /\ Filing'
      /\ Mapped' = [Mapped EXCEPT ![b] = [p \in Prices |-> QueueOf(sd, p)]]
  BY MappedChange
<1>2. Mapped = [c \in Books |-> Mapped[c]] /\ Mapped[b] = [p \in Prices |-> Mapped[b][p]]
  BY DEF Mapped
<1>3. \A p \in Prices : Mapped[b][p] = QueueOf(Side(b), p)
  BY MappedNow
<1>4. SideOK(Side(b), b, {}) /\ Filed(Side(b)) /\ Side(b).index = index
  BY SideNow DEF Filing
<1> DEFINE f == [p \in Prices |-> QueueOf(sd, p)]
<1>5. f = [p \in Prices |-> f[p]]
  OBVIOUS
<1> HIDE DEF f
<1>6. Changes(Mapped, Mapped', b, f)
  BY <1>1, <1>2, <1>5 DEF Changes, f
<1> QED BY <1>1, <1>3, <1>4, <1>6 DEF f

LEMMA JoinStep ==
    ASSUME LOBInv, Filing, NEW b \in Books, NEW sd, SideOK(sd, b, {}), Filed(sd), Becomes(b, sd),
           NEW price \in Prices, NEW ref \in Refs, index[ref] = Nowhere, NEW qty \in Qtys,
           Joins(Side(b), sd, price, ref, qty)
    PROVE  Filing' /\ Abstract!Step(Mapped, Mapped')
<1> DEFINE f == [p \in Prices |-> QueueOf(sd, p)]
           q == Mapped
           n == Mapped'
<1>1. Filing' /\ Changes(q, n, b, f) /\ \A p \in Prices : q[b][p] = QueueOf(Side(b), p)
  BY MappedChanges
<1>2. ref \in Refs \ Abstract!Resting(q)
  BY FreshRef
<1>3. /\ f[price] = Append(q[b][price], [ref |-> ref, qty |-> qty])
      /\ \A p \in Prices : p # price => f[p] = q[b][p]
  BY <1>1 DEF Joins
<1> HIDE DEF f, q, n
<1>4. Abstract!Step(q, n)
  BY <1>1, <1>2, <1>3, AddStep
<1> QED BY <1>1, <1>4 DEF q, n

LEMMA LeavesStep ==
    ASSUME LOBInv, Filing, NEW b \in Books, NEW sd, SideOK(sd, b, {}), Filed(sd), Becomes(b, sd),
           NEW price \in Prices, NEW ref \in Refs, Leaves(Side(b), sd, price, ref)
    PROVE  Filing' /\ Abstract!Step(Mapped, Mapped')
<1> DEFINE f == [p \in Prices |-> QueueOf(sd, p)]
           q == Mapped
           n == Mapped'
<1>1. Filing' /\ Changes(q, n, b, f) /\ \A p \in Prices : q[b][p] = QueueOf(Side(b), p)
  BY MappedChanges
<1>2. PICK m \in 1 .. Len(q[b][price]) : f[price] = Abstract!RemoveAt(q[b][price], m)
  BY <1>1 DEF Leaves
<1>3. \A p \in Prices : p # price => f[p] = q[b][p]
  BY <1>1 DEF Leaves
<1> HIDE DEF f, q, n
<1>4. Abstract!Step(q, n)
  BY <1>1, <1>2, <1>3, LeaveStep
<1> QED BY <1>1, <1>4 DEF q, n

LEMMA ShrinkStep ==
    ASSUME LOBInv, Filing, NEW b \in Books, NEW sd, SideOK(sd, b, {}), Filed(sd), Becomes(b, sd),
           NEW price \in Prices, NEW qty \in Qtys, Shrinks(Side(b), sd, price, qty)
    PROVE  Filing' /\ Abstract!Step(Mapped, Mapped')
<1> DEFINE f == [p \in Prices |-> QueueOf(sd, p)]
           q == Mapped
           n == Mapped'
<1>1. Filing' /\ Changes(q, n, b, f) /\ \A p \in Prices : q[b][p] = QueueOf(Side(b), p)
  BY MappedChanges
<1>2. PICK m \in 1 .. Len(QueueOf(Side(b), price)) :
          /\ qty < QueueOf(Side(b), price)[m].qty
          /\ QueueOf(sd, price) = [QueueOf(Side(b), price) EXCEPT ![m].qty = @ - qty]
  BY DEF Shrinks
<1>3. /\ q[b][price] = QueueOf(Side(b), price) /\ f[price] = QueueOf(sd, price)
      /\ \A p \in Prices : p # price => f[p] = q[b][p]
  BY <1>1 DEF Shrinks
<1> HIDE DEF f, q, n
<1>4. /\ m \in 1 .. Len(q[b][price]) /\ qty < q[b][price][m].qty
      /\ f[price] = [q[b][price] EXCEPT ![m].qty = @ - qty]
  BY <1>2, <1>3
<1>5. Abstract!Step(q, n)
  BY ONLY <1>1, <1>3, <1>4, ReduceStep, price \in Prices, qty \in Qtys
<1> QED BY <1>1, <1>5 DEF q, n

\* A replace, with the side between its two halves.
LEMMA LeaveJoinStep ==
    ASSUME LOBInv, Filing, NEW b \in Books, NEW sd, SideOK(sd, b, {}), Filed(sd), Becomes(b, sd),
           NEW left, NEW old \in Prices, NEW ref \in Refs, Leaves(Side(b), left, old, ref),
           NEW price \in Prices, NEW new \in Refs, index[new] = Nowhere, NEW qty \in Qtys,
           Joins(left, sd, price, new, qty)
    PROVE  Filing' /\ Abstract!Step(Mapped, Mapped')
<1> DEFINE f == [p \in Prices |-> QueueOf(sd, p)]
           g == [p \in Prices |-> QueueOf(left, p)]
           q == Mapped
           n == Mapped'
<1>1. Filing' /\ Changes(q, n, b, f) /\ \A p \in Prices : q[b][p] = QueueOf(Side(b), p)
  BY MappedChanges
<1>2. new \in Refs \ Abstract!Resting(q)
  BY FreshRef
<1>3. PICK m \in 1 .. Len(q[b][old]) : g[old] = Abstract!RemoveAt(q[b][old], m)
  BY <1>1 DEF Leaves
<1>4. g = [p \in Prices |-> g[p]] /\ \A p \in Prices : p # old => g[p] = q[b][p]
  BY <1>1 DEF Leaves
<1>5. /\ f[price] = Append(g[price], [ref |-> new, qty |-> qty])
      /\ \A p \in Prices : p # price => f[p] = g[p]
  BY DEF Joins
<1> HIDE DEF f, g, q, n
<1>6. Abstract!Step(q, n)
  BY <1>1, <1>2, <1>3, <1>4, <1>5, ReplaceStep
<1> QED BY <1>1, <1>6 DEF q, n

\* The queues of the book are the same: a stuttering step.
LEMMA SameQueues ==
    ASSUME LOBInv, Filing, NEW b \in Books, NEW sd, SideOK(sd, b, {}), Filed(sd), Becomes(b, sd),
           \A p : QueueOf(sd, p) = QueueOf(Side(b), p)
    PROVE  Filing' /\ Mapped' = Mapped
<1> DEFINE f == [p \in Prices |-> QueueOf(sd, p)]
<1>1. Filing' /\ Changes(Mapped, Mapped', b, f) /\ \A p \in Prices : Mapped[b][p] = QueueOf(Side(b), p)
  BY MappedChanges
<1>2. \A p \in Prices : f[p] = Mapped[b][p]
  BY <1>1
<1>3. f = Mapped[b]
  BY <1>1, <1>2 DEF Changes
<1>4. Mapped' = [Mapped EXCEPT ![b] = Mapped[b]] /\ Mapped = [c \in Books |-> Mapped[c]]
  BY <1>1, <1>3 DEF Changes
<1> QED BY <1>1, <1>4

\* Every message is a step of the abstract book or leaves it as it is.
Simulated == Filing' /\ (Mapped' = Mapped \/ Abstract!Step(Mapped, Mapped'))

LEMMA NextSimulated ==
    ASSUME LOBInv, Filing, [Next]_vars
    PROVE  Simulated
<1>1. CASE UNCHANGED vars
  <2>1. Filing'
    BY <1>1 DEF vars, Filing, Filed, Side
  <2>2. Mapped' = Mapped
    BY <1>1 DEF vars, Mapped, QueueAt
  <2> QED BY <2>1, <2>2 DEF Simulated
<1>2. ASSUME NEW b \in Books, NEW price \in Prices, NEW ref \in Refs, NEW qty \in Qtys,
             NEW room \in BOOLEAN, on_add_order(b, price, ref, qty, room)
      PROVE  Simulated
  <2> DEFINE sd == Side(b)
             new == Attached(sd, b, price, ref, qty)
  <2>1. /\ SideOK(sd, b, {}) /\ sd.index = index /\ Filed(sd)
        /\ index[ref] = Nowhere /\ Fits(sd, b, price) /\ Becomes(b, new)
    BY <1>2, SideNow DEF on_add_order, Filing
  <2>2. SideOK(new, b, {}) /\ Filed(new) /\ Joins(sd, new, price, ref, qty)
    BY <2>1, AttachedOK, AttachedQueues
  <2> HIDE DEF new
  <2> QED BY <2>1, <2>2, JoinStep DEF Simulated
<1>3. ASSUME NEW b \in Books, NEW price \in Prices, NEW ref \in Refs, NEW qty \in Qtys,
             NEW room \in BOOLEAN, on_add_order_rejected(b, price, ref, qty, room)
      PROVE  Simulated
  <2> DEFINE sd == Side(b)
             placed == Attached(sd, b, price, ref, qty)
             new == Detached(placed, b, ref)
  <2>1. SideOK(sd, b, {}) /\ sd.index = index /\ Filed(sd) /\ index[ref] = Nowhere
    BY <1>3, SideNow DEF on_add_order_rejected, Filing
  <2>2. CASE Fits(sd, b, price)
    <3>1. Becomes(b, new)
      BY <1>3, <2>2 DEF on_add_order_rejected, RolledBack
    <3>2. /\ SideOK(placed, b, {}) /\ Filed(placed) /\ Joins(sd, placed, price, ref, qty)
          /\ placed.index[ref] # Nowhere /\ placed.index[ref].book = b
      <4> HIDE DEF sd
      <4> QED BY <2>1, <2>2, AttachedOK, AttachedQueues
    <3> HIDE DEF placed
    <3>3. SideOK(new, b, {}) /\ Withdrawn(placed, new, b, ref)
      BY <3>2, DetachedOK
    <3> HIDE DEF new
    <3>4. Filed(new)
      BY <3>2, <3>3, WithdrawnQueues
    <3>5. PICK other \in Prices : Leaves(placed, new, other, ref)
      BY <3>2, <3>3, WithdrawnQueues
    <3>6. \A p : QueueOf(new, p) = QueueOf(sd, p)
      <4> HIDE DEF sd
      <4> QED BY <2>1, <3>2, <3>5, JoinedLeft
    <3> QED BY <3>1, <3>3, <3>4, <3>6, SameQueues DEF Simulated
  <2>3. CASE ~Fits(sd, b, price)
    <3>1. Becomes(b, sd)
      BY <1>3, <2>3 DEF on_add_order_rejected
    <3> QED BY <2>1, <3>1, SameQueues DEF Simulated
  <2> QED BY <2>2, <2>3
<1>4. ASSUME NEW ref \in Refs, NEW qty \in Qtys, on_order_executed(ref, qty)
      PROVE  Simulated
  <2> DEFINE b == index[ref].book
             sd == Side(b)
             row == index[ref].row
             place == index[ref].place
             rest == levels[b][row].orders[place].qty
             reduced == Reduced(sd, b, ref, clamped_qty(qty, rest))
             new == IF reduced.rows[row].orders[place].qty > 0 THEN reduced
                    ELSE TornDown(reduced, b, ref)
  <2>1. valid_location(ref) /\ Becomes(b, new)
    BY <1>4 DEF on_order_executed
  <2>2. index[ref] # Nowhere /\ b \in Books
    BY <2>1, BookOf
  <2>3. SideOK(sd, b, {}) /\ sd.index = index /\ sd.rows = levels[b] /\ Filed(sd)
    BY <2>2, SideNow DEF Side, Filing
  <2>4. SideOK(new, b, {}) /\ (Lessened(sd, new, ref, qty) \/ Withdrawn(sd, new, b, ref))
    BY <2>2, <2>3, ReducedOK
  <2> HIDE DEF new
  <2>5. CASE Lessened(sd, new, ref, qty)
    <3>1. Filed(new) /\ \E price \in Prices : Shrinks(sd, new, price, qty)
      <4> HIDE DEF sd
      <4> QED BY <2>2, <2>3, <2>4, <2>5, LessenedQueues
    <3> QED BY <2>1, <2>2, <2>4, <3>1, ShrinkStep DEF Simulated
  <2>6. CASE Withdrawn(sd, new, b, ref)
    <3>1. Filed(new) /\ \E price \in Prices : Leaves(sd, new, price, ref)
      <4> HIDE DEF sd
      <4> QED BY <2>2, <2>3, <2>4, <2>6, WithdrawnQueues
    <3> QED BY <2>1, <2>2, <2>4, <3>1, LeavesStep DEF Simulated
  <2> QED BY <2>4, <2>5, <2>6
\* A valid order taken out of its book.
<1>5. ASSUME NEW ref \in Refs, valid_location(ref)
      PROVE  LET b == index[ref].book
                 left == Detached(Side(b), b, ref)
             IN  /\ b \in Books /\ SideOK(left, b, {}) /\ Filed(left)
                 /\ NowhereKept(index, left.index)
                 /\ \E price \in Prices : Leaves(Side(b), left, price, ref)
  <2> DEFINE b == index[ref].book
             sd == Side(b)
             left == Detached(sd, b, ref)
  <2>1. index[ref] # Nowhere /\ b \in Books
    BY <1>5, BookOf
  <2>2. SideOK(sd, b, {}) /\ sd.index = index /\ Filed(sd)
    BY <2>1, SideNow DEF Filing
  <2> HIDE DEF sd
  <2>3. SideOK(left, b, {}) /\ NowhereKept(index, left.index) /\ Withdrawn(sd, left, b, ref)
    BY <2>1, <2>2, DetachedOK
  <2> HIDE DEF left
  <2>4. Filed(left) /\ \E price \in Prices : Leaves(sd, left, price, ref)
    BY <2>1, <2>2, <2>3, WithdrawnQueues
  <2> QED BY <2>1, <2>3, <2>4 DEF left, sd
<1>6. ASSUME NEW ref \in Refs, valid_location(ref),
             Becomes(index[ref].book, Detached(Side(index[ref].book), index[ref].book, ref))
      PROVE  Simulated
  <2> DEFINE b == index[ref].book
             left == Detached(Side(b), b, ref)
  <2>1. /\ b \in Books /\ SideOK(left, b, {}) /\ Filed(left) /\ Becomes(b, left)
        /\ \E price \in Prices : Leaves(Side(b), left, price, ref)
    BY <1>5, <1>6
  <2> HIDE DEF left
  <2> QED BY <2>1, LeavesStep DEF Simulated
<1>7. ASSUME NEW ref \in Refs, on_order_delete(ref) PROVE Simulated
  BY <1>6, <1>7 DEF on_order_delete
<1>8. ASSUME NEW ref \in Refs, NEW new \in Refs, NEW price \in Prices, NEW qty \in Qtys,
             NEW room \in BOOLEAN, on_order_replace(ref, new, price, qty, room)
      PROVE  Simulated
  <2> DEFINE b == index[ref].book
             left == Detached(Side(b), b, ref)
             placed == Attached(left, b, price, new, qty)
  <2>1. /\ valid_location(ref) /\ index[new] = Nowhere
        /\ Fits(left, b, price) /\ Becomes(b, placed)
    BY <1>8 DEF on_order_replace
  <2>2. /\ b \in Books /\ SideOK(left, b, {}) /\ Filed(left) /\ NowhereKept(index, left.index)
        /\ \E old \in Prices : Leaves(Side(b), left, old, ref)
    BY <1>5, <2>1
  <2> HIDE DEF left
  <2>3. left.index[new] = Nowhere
    BY <2>1, <2>2 DEF NowhereKept
  <2>4. SideOK(placed, b, {}) /\ Filed(placed) /\ Joins(left, placed, price, new, qty)
    BY <2>1, <2>2, <2>3, AttachedOK, AttachedQueues
  <2> HIDE DEF placed
  <2>5. PICK old \in Prices : Leaves(Side(b), left, old, ref)
    BY <2>2
  <2> QED BY <2>1, <2>2, <2>4, <2>5, LeaveJoinStep DEF Simulated
<1>9. ASSUME NEW ref \in Refs, NEW new \in Refs, NEW price \in Prices,
             NEW room \in BOOLEAN, replace_lost(ref, new, price, room)
      PROVE  Simulated
  BY <1>6, <1>9 DEF replace_lost
<1> QED BY <1>1, <1>2, <1>3, <1>4, <1>7, <1>8, <1>9 DEF Next, AddMessage, ReplaceMessage

LEMMA InitFiling == Init => Filing /\ Abstract!Init
<1> SUFFICES ASSUME Init PROVE Filing /\ Abstract!Init
  OBVIOUS
<1>1. ASSUME NEW b \in Books
      PROVE  /\ \A k \in Rows : Side(b).rows[k] = EmptyLevel
             /\ Side(b).depth = 0 /\ depth[b] = 0
  BY <1>1 DEF Init, Side
<1>2. \A k \in Rows : ~(k < 0)
  BY RowType
<1>3. Filing
  BY <1>1, <1>2, EmptyListed DEF Filing, Filed
<1>4. ASSUME NEW b \in Books, NEW p \in Prices PROVE QueueAt(b, p) = << >>
  <2>1. {k \in 0 .. depth[b] - 1 : levels[b][k].price = p} = {}
    BY <1>1
  <2> QED BY <2>1 DEF QueueAt
<1>5. Abstract!Init
  BY <1>4 DEF Abstract!Init
<1> QED BY <1>3, <1>5

\* Read along the lists of its slots, the engine's levels are the queues of a
\* book in time priority, whatever sequence of messages arrives: an add joins
\* the end of one queue, an execution or a cancellation shrinks one order in
\* place or takes it out, a delete takes one out, a replace moves one order to
\* the end of the queue of its new price, and an add that is rolled back
\* leaves every queue as it was.
THEOREM EngineImplementsOrderBook == Spec => ImplementsOrderBook
<1>1. LOBInv /\ Filing /\ [Next]_vars => LOBInv' /\ Filing'
  BY NextLOBInv, NextSimulated DEF Simulated
<1>2. Init => LOBInv /\ Filing /\ Abstract!Init
  BY InitLOBInv, InitFiling
<1>3. LOBInv /\ Filing /\ [Next]_vars => [Abstract!Next]_Mapped
  BY NextSimulated DEF Simulated, Abstract!Next, Mapped
<1> QED BY <1>1, <1>2, <1>3, PTL DEF Spec, ImplementsOrderBook, Abstract!Spec, Mapped
=============================================================================
