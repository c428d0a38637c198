---------------------------- MODULE Inputs_proofs ----------------------------
(***************************************************************************)
(* What comes in from outside and what threads share, for every value of   *)
(* the constants.  Only one reader moves in a behaviour of MCInputs, so a  *)
(* step of it is a step of that reader or leaves its state alone.          *)
(***************************************************************************)
EXTENDS MCInputs, Induction, FiniteSetTheorems, SequenceTheorems, TLAPS

-----------------------------------------------------------------------------
(***************************************************************************)
(* The feed: consecutive packets.                                          *)
(***************************************************************************)
LEMMA IngressSteps == [Next]_vars => [IngressNext]_ingressVars
BY DEF vars, Next, Reads, Shares, ingressVars

Tracker ==
    [initialized : BOOLEAN, next : Nat, gaps : Nat, gap_size : Nat,
     gap_class : {"none", "recoverable", "fatal"}, gap_pending : BOOLEAN, invalid : BOOLEAN]

\* Consecutive so far; while the feed is healthy the tracker has seen the packets
\* that were accepted and nothing else.
GapInv ==
    /\ tracker \in Tracker /\ seen.accepted \in Seq(Nat) /\ healthy \in BOOLEAN
    /\ seen = [accepted |-> seen.accepted, known |-> seen.known]
    /\ \A i \in 1 .. Len(seen.accepted) - 1 : seen.accepted[i + 1] = seen.accepted[i] + 1
    /\ healthy =>
          /\ tracker.gaps = 0
          /\ tracker.initialized <=> seen.accepted # << >>
          /\ seen.accepted # << >> => tracker.next = seen.accepted[Len(seen.accepted)] + 1

LEMMA GapStarts == IngressInit => GapInv
<1> SUFFICES ASSUME IngressInit PROVE GapInv
  OBVIOUS
<1>1. tracker \in Tracker /\ tracker.gaps = 0 /\ tracker.initialized = FALSE
  BY DEF IngressInit, NewTracker, Tracker
<1>2. seen.accepted = << >> /\ seen = [accepted |-> seen.accepted, known |-> seen.known]
      /\ healthy = TRUE
  BY DEF IngressInit
<1>3. seen.accepted \in Seq(Nat) /\ Len(seen.accepted) = 0
  BY <1>2
<1> QED BY <1>1, <1>2, <1>3 DEF GapInv

\* What observe() leaves of a tracker.
LEMMA ObserveIs ==
    ASSUME NEW t \in Tracker, NEW n \in Nat
    PROVE  /\ observe(t, n) \in Tracker
           /\ Classified(t, n) \in {"first", "next", "duplicate", "out_of_order", "gap"}
           /\ Classified(t, n) = "first" => ~t.initialized
           /\ Classified(t, n) = "next" => t.initialized /\ n = t.next
           /\ Classified(t, n) \in {"first", "next"} =>
                /\ observe(t, n).initialized /\ observe(t, n).next = n + 1
                /\ observe(t, n).gaps = t.gaps
<1>1. t.next \in Nat /\ t.initialized \in BOOLEAN /\ t.gaps \in Nat /\ MaxRecoverable \in Nat
  BY TrackerAssumption DEF Tracker
<1>2. /\ Classified(t, n) \in {"first", "next", "duplicate", "out_of_order", "gap"}
      /\ Classified(t, n) = "first" => ~t.initialized
      /\ Classified(t, n) = "next" => t.initialized /\ n = t.next
      /\ Classified(t, n) = "gap" => n > t.next
  BY <1>1 DEF Classified
<1>3. CASE Classified(t, n) \in {"first", "next"}
  <2> DEFINE after == n + 1
             o == observe(t, n)
  <2>1. o = [t EXCEPT !.initialized = TRUE, !.next = after] /\ after \in Nat
    BY <1>3 DEF observe
  <2> HIDE DEF after, o
  <2>2. o \in Tracker /\ o.initialized = TRUE /\ o.next = after /\ o.gaps = t.gaps
    BY <2>1 DEF Tracker
  <2> QED BY <1>2, <2>2 DEF after, o
<1>4. CASE Classified(t, n) \in {"duplicate", "out_of_order"}
  <2>1. observe(t, n) = t
    BY <1>4 DEF observe
  <2> QED BY <1>2, <1>4, <2>1
<1>5. CASE Classified(t, n) = "gap"
  <2> DEFINE gap == n - t.next
             class == IF gap <= MaxRecoverable THEN "recoverable" ELSE "fatal"
             total == t.gaps + gap
             after == n + 1
             pending == class = "recoverable"
             fatal == class = "fatal"
  <2>1. observe(t, n) = [t EXCEPT !.next = after, !.gaps = total, !.gap_size = gap,
                                  !.gap_class = class, !.gap_pending = pending, !.invalid = fatal]
    BY <1>5 DEF observe
  <2>2. gap \in Nat /\ total \in Nat /\ after \in Nat
    BY <1>1, <1>2, <1>5
  <2>3. class \in {"none", "recoverable", "fatal"} /\ pending \in BOOLEAN /\ fatal \in BOOLEAN
    OBVIOUS
  <2> HIDE DEF gap, class, total, after, pending, fatal
  <2>4. observe(t, n) \in Tracker
    BY <2>1, <2>2, <2>3 DEF Tracker
  <2> QED BY <1>2, <1>5, <2>4
<1> QED BY <1>2, <1>3, <1>4, <1>5

LEMMA GapKeeps == GapInv /\ [IngressNext]_ingressVars => GapInv'
<1> SUFFICES ASSUME GapInv, [IngressNext]_ingressVars PROVE GapInv'
  OBVIOUS
<1> DEFINE a == seen.accepted
<1>0. /\ tracker \in Tracker /\ a \in Seq(Nat) /\ Len(a) \in Nat
      /\ seen = [accepted |-> a, known |-> seen.known]
  BY DEF GapInv
<1>1. CASE UNCHANGED <<tracker, healthy>> /\ seen'.accepted = a
           /\ seen' = [accepted |-> seen'.accepted, known |-> seen'.known]
  BY <1>1 DEF GapInv
<1>2. CASE UNCHANGED ingressVars
  BY <1>0, <1>1, <1>2 DEF ingressVars
<1>3. CASE next_message \/ messages_dropped \/ take_tick
  BY <1>0, <1>1, <1>3 DEF next_message, messages_dropped, take_tick
<1>4. ASSUME NEW k, NEW idx, register_symbol(k, idx) PROVE GapInv'
  <2>1. UNCHANGED <<tracker, healthy>>
    BY <1>4 DEF register_symbol
  <2>2. seen' = seen \/ seen' = [seen EXCEPT !.known = [j \in {k} \cup DOMAIN @ |-> IF j = k THEN idx ELSE @[j]]]
    BY <1>4 DEF register_symbol
  <2>3. seen' = seen \/ \E x : seen' = [seen EXCEPT !.known = x]
    BY <2>2
  <2>4. seen'.accepted = a /\ seen' = [accepted |-> seen'.accepted, known |-> seen'.known]
    <3>1. CASE seen' = seen
      BY <1>0, <3>1
    <3>2. ASSUME NEW x, seen' = [seen EXCEPT !.known = x]
          PROVE  seen'.accepted = a /\ seen' = [accepted |-> seen'.accepted, known |-> seen'.known]
      <4>1. seen' = [accepted |-> a, known |-> x]
        BY <1>0, <3>2
      <4> QED BY <4>1
    <3> QED BY <2>3, <3>1, <3>2
  <2> QED BY <1>1, <2>1, <2>4
<1>5. ASSUME NEW p \in Packets, packet_refused(p) PROVE GapInv'
  <2>1. p.sequence \in Nat
    BY IngressAssumption
  <2>2. tracker' \in Tracker /\ healthy' = FALSE /\ seen' = seen
    BY <1>0, <1>5, <2>1, ObserveIs DEF packet_refused
  <2> QED BY <2>2 DEF GapInv
<1>6. ASSUME NEW p \in Packets, process_packet(p) PROVE GapInv'
  <2> DEFINE n == p.sequence
  <2>1. n \in Nat
    BY IngressAssumption
  <2>2. /\ healthy /\ healthy' = healthy /\ tracker' = observe(tracker, n)
        /\ seen' = [seen EXCEPT !.accepted = Append(@, n)]
        /\ Classified(tracker, n) \notin {"gap", "out_of_order", "duplicate"}
    BY <1>6 DEF process_packet, Looks, Stops, Refused
  <2>3. /\ tracker' \in Tracker /\ tracker'.initialized /\ tracker'.next = n + 1
        /\ tracker'.gaps = tracker.gaps
        /\ ~tracker.initialized \/ n = tracker.next
    BY <1>0, <2>1, <2>2, ObserveIs
  <2>4. seen' = [accepted |-> Append(a, n), known |-> seen.known]
    BY <1>0, <2>2
  <2> HIDE DEF n
  <2>5. /\ seen'.accepted = Append(a, n)
        /\ seen' = [accepted |-> seen'.accepted, known |-> seen'.known]
    BY <2>4
  <2> DEFINE b == seen'.accepted
  <2>6. /\ b \in Seq(Nat) /\ Len(b) = Len(a) + 1 /\ b[Len(a) + 1] = n
        /\ \A i \in 1 .. Len(a) : b[i] = a[i]
    BY <1>0, <2>1, <2>5, AppendProperties
  <2>7. b # << >>
    BY <1>0, <2>6, EmptySeq
  <2>8. ASSUME NEW i \in 1 .. Len(b) - 1 PROVE b[i + 1] = b[i] + 1
    <3>1. CASE i = Len(a)
      <4>1. a # << >> /\ i \in 1 .. Len(a)
        BY <1>0, <2>6, <3>1
      <4>2. n = a[Len(a)] + 1
        BY <2>2, <2>3, <4>1 DEF GapInv
      <4> QED BY <2>6, <3>1, <4>1, <4>2
    <3>2. CASE i \in 1 .. Len(a) - 1
      <4>1. a[i + 1] = a[i] + 1 /\ i \in 1 .. Len(a) /\ i + 1 \in 1 .. Len(a)
        BY <1>0, <3>2 DEF GapInv
      <4> QED BY <2>6, <4>1
    <3> QED BY <1>0, <2>6, <3>1, <3>2
  <2>9. b[Len(b)] = n
    BY <2>6
  <2>10. tracker'.gaps = 0
    BY <2>2, <2>3 DEF GapInv
  <2>11. healthy' \in BOOLEAN
    BY <2>2 DEF GapInv
  <2> QED BY <2>3, <2>5, <2>6, <2>7, <2>8, <2>9, <2>10, <2>11 DEF GapInv
<1> QED BY <1>2, <1>3, <1>4, <1>5, <1>6 DEF IngressNext

\* However the network repeats, reorders and loses packets, DpdkFeedSource applies
\* packets with consecutive numbers, each once, for every set of packets and every
\* size of the ring.
THEOREM FeedNeverSkips == Spec => []FeedGapFree
<1>1. Init => GapInv
  BY GapStarts DEF Init
<1>2. GapInv /\ [Next]_vars => GapInv'
  BY IngressSteps, GapKeeps
<1>3. GapInv => FeedGapFree
  BY DEF GapInv, FeedGapFree
<1> QED BY <1>1, <1>2, <1>3, PTL DEF Spec

-----------------------------------------------------------------------------
(***************************************************************************)
(* The symbol table.  Fewer than half of the slots are taken while there   *)
(* is room, so that the walk of an insertion, which passes only taken      *)
(* slots, ends before lookup gives up.                                     *)
(***************************************************************************)
Slots_ == 0 .. TableCap - 1

TableType == [val : [Slots_ -> 0 .. NotFound], key : [Slots_ -> Tickers \cup {0}], count : Nat]

Occupied(t) == {s \in Slots_ : t.val[s] # NotFound}

TableOK(t) == t \in TableType /\ IsFiniteSet(Occupied(t)) /\ t.count = Cardinality(Occupied(t))

\* lookup stops first where k is stored, with idx.
Placed(t, k, idx, n) ==
    /\ t.val[TableSlot(k, n)] = idx /\ t.key[TableSlot(k, n)] = k
    /\ \A m \in 0 .. n - 1 : t.val[TableSlot(k, m)] # NotFound /\ t.key[TableSlot(k, m)] # k

HasPlace(t, k, idx) == \E n \in 0 .. TableCap \div 2 - 1 : Placed(t, k, idx, n)

LEMMA HalfTable ==
    /\ TableCap \in Nat \ {0} /\ NumSymbols \in Nat \ {0} /\ TableCap = 2 * NumSymbols
    /\ NumSymbols = TableCap \div 2 /\ NumSymbols < TableCap /\ NotFound = TableCap
BY DecoderAssumption DEF NumSymbols, NotFound

LEMMA SlotIn ==
    ASSUME NEW k \in Tickers, NEW n \in Nat
    PROVE  TableSlot(k, n) \in Slots_ /\ TickerHash[k] \in 0 .. TableCap - 1
<1>1. TickerHash[k] \in 0 .. TableCap - 1 /\ TableCap \in Nat \ {0}
  BY DecoderAssumption DEF Tickers
<1>2. TickerHash[k] + n \in Nat
  BY <1>1
<1> QED BY <1>1, <1>2, PlaceIn DEF TableSlot, Slots_

LEMMA SlotDistinct ==
    ASSUME NEW k \in Tickers, NEW n \in 0 .. TableCap - 1, NEW m \in 0 .. TableCap - 1, n # m
    PROVE  TableSlot(k, n) # TableSlot(k, m)
<1> DEFINE h == TickerHash[k]
<1>1. h \in Nat /\ TableCap \in Nat \ {0}
  BY SlotIn, HalfTable
<1> HIDE DEF h
<1>2. ASSUME NEW p \in 0 .. TableCap - 1, NEW q \in 0 .. TableCap - 1, p < q
      PROVE  (h + p) % TableCap # (h + q) % TableCap
  <2>1. h + p \in Nat /\ h + q \in Nat /\ h + p < h + q /\ (h + q) - (h + p) < TableCap
    BY <1>1, <1>2
  <2> QED BY <1>1, <2>1, PlacesDistinct
<1>3. n < m \/ m < n
  BY <1>1
<1> QED BY <1>2, <1>3 DEF TableSlot, h

\* A walk that passed only taken slots passed fewer than half of the slots.
LEMMA WalkShort ==
    ASSUME NEW t, TableOK(t), HasRoom(t), NEW k \in Tickers, NEW n \in 0 .. TableCap - 1,
           \A m \in 0 .. n - 1 : t.val[TableSlot(k, m)] # NotFound
    PROVE  n \in 0 .. TableCap \div 2 - 1
<1> DEFINE passed == {TableSlot(k, m) : m \in 0 .. n - 1}
           walk == [m \in 0 .. n - 1 |-> TableSlot(k, m)]
<1>1. n \in Nat /\ \A m \in 0 .. n - 1 : m \in Nat /\ m \in 0 .. TableCap - 1
  BY HalfTable
<1>2. passed \subseteq Occupied(t)
  BY <1>1, SlotIn DEF Occupied
<1>3. walk \in Bijection(0 .. n - 1, passed)
  <2>1. walk \in [0 .. n - 1 -> passed]
    OBVIOUS
  <2>2. \A p, q \in 0 .. n - 1 : walk[p] = walk[q] => p = q
    BY <1>1, SlotDistinct
  <2>3. \A s \in passed : \E m \in 0 .. n - 1 : walk[m] = s
    OBVIOUS
  <2> HIDE DEF walk, passed
  <2> QED BY <2>1, <2>2, <2>3 DEF Bijection, Injection, Surjection, IsInjective
<1>4. IsFiniteSet(0 .. n - 1) /\ Cardinality(0 .. n - 1) = n
  <2>1. 0 \in Int /\ n - 1 \in Int /\ (0 > n - 1 => n = 0) /\ n = (n - 1) - 0 + 1
    BY <1>1
  <2>2. /\ IsFiniteSet(0 .. n - 1)
        /\ Cardinality(0 .. n - 1) = IF 0 > n - 1 THEN 0 ELSE (n - 1) - 0 + 1
    BY <2>1, FS_Interval
  <2> QED BY <2>1, <2>2
<1>5. Cardinality(passed) = n
  <2> HIDE DEF walk, passed
  <2>1. ExistsBijection(0 .. n - 1, passed)
    BY <1>3 DEF ExistsBijection
  <2> QED BY <1>4, <2>1, FS_Bijection
<1>6. Cardinality(passed) <= Cardinality(Occupied(t))
  BY <1>2, FS_Subset DEF TableOK
<1>7. t.count \in Nat /\ t.count < TableCap \div 2
  BY DEF TableOK, TableType, HasRoom
<1> QED BY <1>1, <1>5, <1>6, <1>7, HalfTable DEF TableOK

\* The walk of an insertion ends, before lookup would give up.
LEMMA WalkEnds ==
    ASSUME NEW t, TableOK(t), HasRoom(t), NEW k \in Tickers, NEW n,
           n = Min({m \in 0 .. TableCap - 1 :
                      t.val[TableSlot(k, m)] = NotFound \/ t.key[TableSlot(k, m)] = k})
    PROVE  /\ n \in 0 .. TableCap \div 2 - 1
           /\ t.val[TableSlot(k, n)] = NotFound \/ t.key[TableSlot(k, n)] = k
           /\ \A m \in 0 .. n - 1 : t.val[TableSlot(k, m)] # NotFound /\ t.key[TableSlot(k, m)] # k
<1> DEFINE E == {m \in 0 .. TableCap - 1 :
                    t.val[TableSlot(k, m)] = NotFound \/ t.key[TableSlot(k, m)] = k}
<1>1. \E s \in Slots_ : t.val[s] = NotFound
  <2> SUFFICES ASSUME \A s \in Slots_ : t.val[s] # NotFound PROVE FALSE
    OBVIOUS
  <2>1. Occupied(t) = 0 .. TableCap - 1
    BY DEF Occupied, Slots_
  <2>2. Cardinality(Occupied(t)) = TableCap
    BY <2>1, HalfTable, FS_Interval
  <2> QED BY <2>2, HalfTable DEF TableOK, HasRoom
<1>2. PICK s \in Slots_ : t.val[s] = NotFound
  BY <1>1
<1>3. PICK m \in 0 .. TableCap - 1 : TableSlot(k, m) = s
  BY SlotIn, HalfTable, PlaceFound DEF TableSlot, Slots_
<1>4. m \in E /\ E \subseteq Nat
  BY <1>2, <1>3
<1>5. n \in E /\ \A y \in E : n <= y
  <2> HIDE DEF E
  <2> QED BY <1>4, MinIn DEF E
<1>6. n \in 0 .. TableCap - 1 /\ (t.val[TableSlot(k, n)] = NotFound \/ t.key[TableSlot(k, n)] = k)
  BY <1>5
<1>7. ASSUME NEW j \in 0 .. n - 1
      PROVE  t.val[TableSlot(k, j)] # NotFound /\ t.key[TableSlot(k, j)] # k
  <2>1. j \in 0 .. TableCap - 1 /\ ~(n <= j)
    BY <1>6, HalfTable
  <2> QED BY <1>5, <2>1
<1>8. n \in 0 .. TableCap \div 2 - 1
  BY <1>6, <1>7, WalkShort
<1> QED BY <1>6, <1>7, <1>8

\* An insertion with room stores the ticker where lookup finds it, and moves no
\* other ticker.
LEMMA InsertPlaces ==
    ASSUME NEW t, TableOK(t), HasRoom(t), NEW k \in Tickers, NEW idx \in 0 .. NumSymbols - 1,
           NEW u, u = insert(t, k, idx)
    PROVE  /\ TableOK(u) /\ HasPlace(u, k, idx) /\ u.count <= t.count + 1
           /\ \A j \in Tickers \ {k} : \A x \in 0 .. NumSymbols - 1 :
                 HasPlace(t, j, x) => HasPlace(u, j, x)
<1> DEFINE n == Min({m \in 0 .. TableCap - 1 :
                        t.val[TableSlot(k, m)] = NotFound \/ t.key[TableSlot(k, m)] = k})
           slot == TableSlot(k, n)
           c == IF t.val[slot] = NotFound THEN t.count + 1 ELSE t.count
<1>1. /\ n \in 0 .. TableCap \div 2 - 1
      /\ t.val[slot] = NotFound \/ t.key[slot] = k
      /\ \A m \in 0 .. n - 1 : t.val[TableSlot(k, m)] # NotFound /\ t.key[TableSlot(k, m)] # k
  BY WalkEnds
<1>2. /\ idx \in 0 .. NotFound /\ idx # NotFound /\ ~(idx >= NumSymbols)
      /\ \A i \in 0 .. TableCap \div 2 - 1 : i \in Nat /\ i \in 0 .. TableCap - 1
  BY HalfTable
<1>3. u = [val |-> [t.val EXCEPT ![slot] = idx], key |-> [t.key EXCEPT ![slot] = k], count |-> c]
  BY <1>2 DEF insert
<1> HIDE DEF n
<1>4. slot \in Slots_
  BY <1>1, <1>2, SlotIn
<1>5. /\ t \in TableType /\ t.val \in [Slots_ -> 0 .. NotFound] /\ t.count \in Nat
      /\ t.key \in [Slots_ -> Tickers \cup {0}]
  BY DEF TableOK, TableType
<1> HIDE DEF slot
<1>6. /\ u.val[slot] = idx /\ u.key[slot] = k /\ u.count = c
      /\ \A s \in Slots_ : s # slot => u.val[s] = t.val[s] /\ u.key[s] = t.key[s]
  BY <1>3, <1>4, <1>5
<1>7. u \in TableType
  <2>1. [t.val EXCEPT ![slot] = idx] \in [Slots_ -> 0 .. NotFound]
    BY <1>2, <1>4, <1>5
  <2>2. [t.key EXCEPT ![slot] = k] \in [Slots_ -> Tickers \cup {0}]
    BY <1>4, <1>5
  <2>3. c \in Nat
    BY <1>5
  <2> QED BY <1>3, <2>1, <2>2, <2>3 DEF TableType
<1>8. IsFiniteSet(Occupied(u)) /\ u.count = Cardinality(Occupied(u))
  <2>1. IsFiniteSet(Occupied(t)) /\ t.count = Cardinality(Occupied(t))
    BY DEF TableOK
  <2>2. Occupied(u) = Occupied(t) \cup {slot}
    BY <1>2, <1>4, <1>6 DEF Occupied
  <2>3. slot \in Occupied(t) <=> t.val[slot] # NotFound
    BY <1>4 DEF Occupied
  <2>4. CASE t.val[slot] = NotFound
    BY <1>6, <2>1, <2>2, <2>3, <2>4, FS_AddElement
  <2>5. CASE t.val[slot] # NotFound
    <3>1. Occupied(u) = Occupied(t)
      BY <2>2, <2>3, <2>5
    <3> QED BY <1>6, <2>1, <2>5, <3>1
  <2> QED BY <2>4, <2>5
<1>9. HasPlace(u, k, idx)
  <2>1. ASSUME NEW m \in 0 .. n - 1 PROVE u.val[TableSlot(k, m)] # NotFound /\ u.key[TableSlot(k, m)] # k
    <3>1. m \in Nat /\ m \in 0 .. TableCap - 1 /\ n \in 0 .. TableCap - 1 /\ m # n
      BY <1>1, <1>2, HalfTable
    <3>2. TableSlot(k, m) \in Slots_ /\ TableSlot(k, m) # slot
      BY <3>1, SlotIn, SlotDistinct DEF slot
    <3> QED BY <1>1, <1>6, <3>2
  <2>2. Placed(u, k, idx, n)
    BY <1>6, <2>1 DEF Placed, slot
  <2> QED BY <1>1, <2>2 DEF HasPlace
<1>10. ASSUME NEW j \in Tickers \ {k}, NEW x \in 0 .. NumSymbols - 1, HasPlace(t, j, x)
       PROVE  HasPlace(u, j, x)
  <2>1. PICK p \in 0 .. TableCap \div 2 - 1 : Placed(t, j, x, p)
    BY <1>10 DEF HasPlace
  <2>2. p \in Nat /\ TableSlot(j, p) \in Slots_ /\ x # NotFound
    BY <1>2, SlotIn, HalfTable
  <2>3. TableSlot(j, p) # slot
    BY <1>1, <2>1, <2>2 DEF Placed
  <2>4. ASSUME NEW m \in 0 .. p - 1 PROVE u.val[TableSlot(j, m)] # NotFound /\ u.key[TableSlot(j, m)] # j
    <3>1. m \in Nat /\ TableSlot(j, m) \in Slots_
      BY SlotIn
    <3>2. t.val[TableSlot(j, m)] # NotFound /\ t.key[TableSlot(j, m)] # j
      BY <2>1 DEF Placed
    <3> QED BY <1>2, <1>6, <3>1, <3>2
  <2>5. Placed(u, j, x, p)
    BY <1>6, <2>1, <2>2, <2>3, <2>4 DEF Placed
  <2> QED BY <2>5 DEF HasPlace
<1>11. u.count <= t.count + 1
  BY <1>5, <1>6
<1> QED BY <1>7, <1>8, <1>9, <1>10, <1>11 DEF TableOK

LEMMA EmptyTableOK == TableOK(EmptyTable) /\ EmptyTable.count = 0
<1>1. EmptyTable \in TableType /\ EmptyTable.count = 0
  BY HalfTable DEF EmptyTable, TableType, Slots_
<1>2. Occupied(EmptyTable) = {}
  BY DEF Occupied, EmptyTable, Slots_
<1> QED BY <1>1, <1>2, FS_EmptySet DEF TableOK

\* lookup finds what has a place.
LEMMA LookupFinds ==
    ASSUME NEW t, NEW k \in Tickers, NEW idx, HasPlace(t, k, idx)
    PROVE  lookup(t, k) = idx
<1> DEFINE E == {m \in 0 .. TableCap \div 2 - 1 :
                    t.val[TableSlot(k, m)] = NotFound \/ t.key[TableSlot(k, m)] = k}
<1>1. PICK n \in 0 .. TableCap \div 2 - 1 : Placed(t, k, idx, n)
  BY DEF HasPlace
<1>2. n \in E /\ E \subseteq Nat /\ n \in Nat
  BY <1>1, HalfTable DEF Placed
<1>3. Min(E) \in E /\ \A y \in E : Min(E) <= y
  <2> HIDE DEF E
  <2> QED BY <1>2, MinIn
<1>4. Min(E) = n
  <2>1. Min(E) \in Nat /\ Min(E) <= n
    <3> HIDE DEF E
    <3> QED BY <1>2, <1>3
  <2>2. ~(Min(E) \in 0 .. n - 1)
    BY <1>1, <1>3 DEF Placed
  <2> QED BY <1>2, <2>1, <2>2
<1>5. lookup(t, k) = IF E = {} THEN NotFound ELSE t.val[TableSlot(k, Min(E))]
  BY DEF lookup
<1> HIDE DEF E
<1> QED BY <1>1, <1>2, <1>4, <1>5 DEF Placed

SymbolInv ==
    /\ TableOK(table)
    /\ seen = [accepted |-> seen.accepted, known |-> seen.known]
    /\ DOMAIN seen.known \subseteq Tickers
    /\ \A k \in DOMAIN seen.known :
          seen.known[k] \in 0 .. NumSymbols - 1 /\ HasPlace(table, k, seen.known[k])

LEMMA SymbolStarts == IngressInit => SymbolInv
<1> SUFFICES ASSUME IngressInit PROVE SymbolInv
  OBVIOUS
<1>1. table = EmptyTable /\ seen.known = << >> /\ seen = [accepted |-> seen.accepted, known |-> seen.known]
  BY DEF IngressInit
<1>2. DOMAIN seen.known = {}
  BY <1>1
<1> QED BY <1>1, <1>2, EmptyTableOK DEF SymbolInv

LEMMA RegisterKeeps ==
    ASSUME SymbolInv, NEW k \in Tickers, NEW idx \in 0 .. NotFound, register_symbol(k, idx)
    PROVE  SymbolInv'
<1> DEFINE old == seen.known
           new == seen'.known
<1>1. /\ table' = insert(table, k, idx) /\ table' # table
      /\ seen' = IF idx >= NumSymbols \/ ~HasRoom(table) THEN seen
                 ELSE [seen EXCEPT !.known = [j \in {k} \cup DOMAIN @ |-> IF j = k THEN idx ELSE @[j]]]
  BY DEF register_symbol
<1>2. ~(idx >= NumSymbols) /\ HasRoom(table)
  BY <1>1 DEF insert
<1>3. idx \in 0 .. NumSymbols - 1
  BY <1>2, HalfTable
<1>4. /\ TableOK(table') /\ HasPlace(table', k, idx)
      /\ \A j \in Tickers \ {k} : \A x \in 0 .. NumSymbols - 1 :
            HasPlace(table, j, x) => HasPlace(table', j, x)
  BY <1>1, <1>2, <1>3, InsertPlaces DEF SymbolInv
<1>5. seen' = [accepted |-> seen.accepted, known |-> [j \in {k} \cup DOMAIN old |-> IF j = k THEN idx ELSE old[j]]]
  BY <1>1, <1>2 DEF SymbolInv
<1>6. new = [j \in {k} \cup DOMAIN old |-> IF j = k THEN idx ELSE old[j]] /\ seen' = [accepted |-> seen'.accepted, known |-> new]
  BY <1>5
<1>7. /\ DOMAIN new = {k} \cup DOMAIN old /\ new[k] = idx
      /\ \A j \in DOMAIN old : j # k => new[j] = old[j]
  BY <1>6
<1>8. DOMAIN new \subseteq Tickers
  BY <1>7 DEF SymbolInv
<1>9. ASSUME NEW j \in DOMAIN new
      PROVE  new[j] \in 0 .. NumSymbols - 1 /\ HasPlace(table', j, new[j])
  <2>1. CASE j = k
    BY <1>3, <1>4, <1>7, <2>1
  <2>2. CASE j # k
    BY <1>4, <1>7, <2>2 DEF SymbolInv
  <2> QED BY <2>1, <2>2
<1> QED BY <1>4, <1>6, <1>8, <1>9 DEF SymbolInv, TableOK, HasPlace, Placed, Occupied

LEMMA SymbolKeeps == SymbolInv /\ [IngressNext]_ingressVars => SymbolInv'
<1> SUFFICES ASSUME SymbolInv, [IngressNext]_ingressVars PROVE SymbolInv'
  OBVIOUS
<1>1. CASE table' = table /\ seen'.known = seen.known
           /\ seen' = [accepted |-> seen'.accepted, known |-> seen'.known]
  BY <1>1 DEF SymbolInv, TableOK, HasPlace, Placed, Occupied
<1>2. CASE UNCHANGED ingressVars
  BY <1>1, <1>2 DEF ingressVars, SymbolInv
<1>3. CASE next_message \/ messages_dropped \/ take_tick
  BY <1>1, <1>3 DEF next_message, messages_dropped, take_tick, SymbolInv
<1>4. ASSUME NEW p \in Packets, packet_refused(p) PROVE SymbolInv'
  BY <1>1, <1>4 DEF packet_refused, SymbolInv
<1>5. ASSUME NEW p \in Packets, process_packet(p) PROVE SymbolInv'
  <2>1. table' = table /\ seen' = [seen EXCEPT !.accepted = Append(@, p.sequence)]
    BY <1>5 DEF process_packet
  <2>2. seen = [accepted |-> seen.accepted, known |-> seen.known]
    BY DEF SymbolInv
  <2>3. seen' = [accepted |-> Append(seen.accepted, p.sequence), known |-> seen.known]
    BY <2>1, <2>2
  <2> QED BY <1>1, <2>1, <2>3
<1>6. ASSUME NEW r \in Registrations, register_symbol(r[1], r[2]) PROVE SymbolInv'
  <2>1. r[1] \in Tickers /\ r[2] \in 0 .. NotFound
    BY IngressAssumption
  <2> QED BY <1>6, <2>1, RegisterKeeps
<1> QED BY <1>2, <1>3, <1>4, <1>5, <1>6 DEF IngressNext

\* SymbolTable: every ticker registered is found with the index it was last given,
\* although lookup gives up after half of the table, for every table size, every
\* hash and every order of registrations.
THEOREM SymbolsAreFound == Spec => []SymbolsFound
<1>1. Init => SymbolInv
  BY SymbolStarts DEF Init
<1>2. SymbolInv /\ [Next]_vars => SymbolInv'
  BY IngressSteps, SymbolKeeps
<1>3. SymbolInv => SymbolsFound
  BY LookupFinds DEF SymbolInv, SymbolsFound
<1> QED BY <1>1, <1>2, <1>3, PTL DEF Spec

-----------------------------------------------------------------------------
(***************************************************************************)
(* The risk engine.  Nothing is reserved for an approved order.  Of the    *)
(* threads that passed a check one left room for its own order; every      *)
(* other one may add an order of its own.                                  *)
(***************************************************************************)
LEMMA EngineSteps == [Next]_vars => [EngineNext]_engineVars
BY DEF vars, Next, Reads, Shares, engineVars, strategyVars

\* The threads in A may still add their orders, of w[t] <= m each, to level.
Slack(level, A, w, limit, m) ==
    /\ level <= limit + (Cardinality(Desks) - 1) * m
    /\ A # {} => \E t \in A : level + w[t] <= limit + (Cardinality(Desks) - Cardinality(A)) * m

SlackTypes(level, A, w, limit, m) ==
    /\ level \in Int /\ A \subseteq Desks /\ limit \in Nat /\ m \in Nat
    /\ \A t \in A : w[t] \in 0 .. m

LEMMA DeskCount ==
    ASSUME NEW A, A \subseteq Desks
    PROVE  /\ IsFiniteSet(A) /\ Cardinality(A) \in Nat /\ Cardinality(A) <= Cardinality(Desks)
           /\ Cardinality(Desks) \in Nat /\ Cardinality(Desks) >= 1
           /\ A # {} => Cardinality(A) >= 1
           /\ \A t \in A : Cardinality(A \ {t}) = Cardinality(A) - 1
           /\ \A t \in Desks \ A : Cardinality(A \cup {t}) = Cardinality(A) + 1
<1>1. IsFiniteSet(Desks) /\ Desks # {}
  BY RiskAssumption
<1>2. IsFiniteSet(A) /\ Cardinality(A) <= Cardinality(Desks)
  BY <1>1, FS_Subset
<1>3. Cardinality(A) \in Nat /\ Cardinality(Desks) \in Nat
  BY <1>1, <1>2, FS_CardinalityType
<1>4. Cardinality(Desks) # 0 /\ (A # {} => Cardinality(A) # 0)
  BY <1>1, <1>2, FS_EmptySet
<1>5. \A t \in A : Cardinality(A \ {t}) = Cardinality(A) - 1
  BY <1>2, FS_RemoveElement
<1>6. \A t \in Desks \ A : Cardinality(A \cup {t}) = Cardinality(A) + 1
  BY <1>2, FS_AddElement
<1> QED BY <1>2, <1>3, <1>4, <1>5, <1>6

\* One more factor adds m, and a larger factor gives no less.
LEMMA Products ==
    ASSUME NEW a \in Int, NEW b \in Int, NEW m \in Nat
    PROVE  /\ a * m \in Int /\ (a + 1) * m = a * m + m
           /\ a <= b => a * m <= b * m
           /\ 0 <= a => 0 <= a * m
<1>1. a * m \in Int /\ (a + 1) * m = a * m + m
  OBVIOUS
<1>2. ASSUME NEW d \in Nat PROVE d * m >= 0
  OBVIOUS
<1>3. ASSUME a <= b PROVE a * m <= b * m
  <2>1. b - a \in Nat /\ (b - a) * m = b * m - a * m
    BY <1>3
  <2>2. (b - a) * m >= 0
    BY <1>2, <2>1
  <2> QED BY <2>1, <2>2
<1>4. 0 <= a => 0 <= a * m
  BY <1>2
<1> QED BY <1>1, <1>3, <1>4

\* The weights of threads outside A do not matter, and a lower level is no worse.
LEMMA SlackLower ==
    ASSUME NEW level, NEW A, NEW w, NEW limit, NEW m, SlackTypes(level, A, w, limit, m),
           Slack(level, A, w, limit, m), NEW lower \in Int, lower <= level,
           NEW v, \A t \in A : v[t] = w[t]
    PROVE  Slack(lower, A, v, limit, m)
<1> DEFINE x == (Cardinality(Desks) - 1) * m
           y == (Cardinality(Desks) - Cardinality(A)) * m
<1>1. x \in Int /\ y \in Int
  <2>1. Cardinality(Desks) - 1 \in Int /\ Cardinality(Desks) - Cardinality(A) \in Int /\ m \in Nat
    BY DeskCount DEF SlackTypes
  <2> QED BY <2>1, Products
<1>2. /\ level \in Int /\ limit \in Nat /\ level <= limit + x
      /\ A # {} => \E t \in A : level + w[t] <= limit + y
      /\ \A t \in A : w[t] \in Int
  BY DEF SlackTypes, Slack
<1> HIDE DEF x, y
<1>3. lower <= limit + x /\ (A # {} => \E t \in A : lower + v[t] <= limit + y)
  BY <1>1, <1>2
<1> QED BY <1>3 DEF Slack, x, y

\* A thread whose check passed.
LEMMA SlackJoins ==
    ASSUME NEW level, NEW A, NEW w, NEW limit, NEW m, SlackTypes(level, A, w, limit, m),
           Slack(level, A, w, limit, m), NEW t \in Desks \ A,
           w[t] \in 0 .. m, level + w[t] <= limit
    PROVE  Slack(level, A \cup {t}, w, limit, m)
<1> DEFINE B == A \cup {t}
           z == (Cardinality(Desks) - Cardinality(B)) * m
<1>1. B \subseteq Desks
  BY DEF SlackTypes
<1>2. Cardinality(Desks) - Cardinality(B) \in Nat /\ m \in Nat /\ level \in Int /\ limit \in Nat
  BY <1>1, DeskCount DEF SlackTypes
<1>3. z \in Int /\ 0 <= z
  BY <1>2, Products
<1>4. level + w[t] <= limit + z
  <2> HIDE DEF z
  <2> QED BY <1>2, <1>3
<1> QED BY <1>4 DEF Slack

\* A thread that leaves, adding its order or not.
LEMMA SlackLeaves ==
    ASSUME NEW level, NEW A, NEW w, NEW limit, NEW m, SlackTypes(level, A, w, limit, m),
           Slack(level, A, w, limit, m), NEW t \in A, NEW after \in {level, level + w[t]}
    PROVE  Slack(after, A \ {t}, w, limit, m)
<1> DEFINE B == A \ {t}
           n == Cardinality(Desks)
           k == Cardinality(A)
           x == (n - 1) * m
           y == (n - k) * m
<1>1. n \in Nat /\ k \in Nat /\ 1 <= k /\ k <= n /\ Cardinality(B) = k - 1 /\ m \in Nat
  BY DeskCount DEF SlackTypes
<1>2. /\ level \in Int /\ limit \in Nat /\ level <= limit + x
      /\ \A u \in A : w[u] \in Int /\ 0 <= w[u] /\ w[u] <= m
  BY DEF SlackTypes, Slack
<1>3. PICK s \in A : level + w[s] <= limit + y
  BY DEF Slack
<1> HIDE DEF n, k
<1>4. x \in Int /\ y \in Int /\ y <= x /\ (n - (k - 1)) * m = y + m
  <2>1. n - 1 \in Int /\ n - k \in Int /\ n - k <= n - 1 /\ n - (k - 1) = (n - k) + 1
    BY <1>1
  <2> QED BY <1>1, <2>1, Products
<1>5. s # t => y + m <= x
  <2> SUFFICES ASSUME s # t PROVE y + m <= x
    OBVIOUS
  <2>1. B # {} /\ B \subseteq Desks
    BY DEF SlackTypes
  <2>2. Cardinality(B) >= 1
    BY <2>1, DeskCount
  <2>3. n - (k - 1) <= n - 1 /\ n - (k - 1) \in Int /\ n - 1 \in Int
    BY <1>1, <2>2
  <2>4. (n - (k - 1)) * m <= (n - 1) * m
    BY <1>1, <2>3, Products
  <2> QED BY <1>4, <2>4
<1> HIDE DEF x, y, B
<1>6. after <= limit + x
  <2>1. CASE after = level
    BY <1>2, <2>1
  <2>2. CASE after = level + w[t] /\ s = t
    BY <1>2, <1>3, <1>4, <2>2
  <2>3. CASE after = level + w[t] /\ s # t
    BY <1>1, <1>2, <1>3, <1>4, <1>5, <2>3
  <2> QED BY <2>1, <2>2, <2>3
<1>7. ASSUME B # {} PROVE \E u \in B : after + w[u] <= limit + (y + m)
  <2>1. PICK u \in B : s # t => u = s
    BY <1>3, <1>7 DEF B
  <2>2. u \in A
    BY DEF B
  <2>3. CASE s # t
    <3>1. after + w[s] <= limit + (y + m)
      BY <1>1, <1>2, <1>3, <1>4
    <3> QED BY <2>1, <2>3, <3>1
  <2>4. CASE s = t
    <3>1. after <= limit + y
      BY <1>2, <1>3, <1>4, <2>4
    <3>2. after \in Int
      BY <1>2
    <3> QED BY <1>1, <1>2, <1>4, <2>2, <3>1, <3>2
  <2> QED BY <2>3, <2>4
<1>8. /\ after <= limit + (Cardinality(Desks) - 1) * m
      /\ B # {} => \E u \in B : after + w[u] <= limit + (Cardinality(Desks) - Cardinality(B)) * m
  BY <1>1, <1>4, <1>6, <1>7 DEF n, x
<1> QED BY <1>8 DEF Slack, B

\* One thread joins, leaves or adds its order, or none does and the level falls.
LEMMA SlackStep ==
    ASSUME NEW level, NEW A, NEW w, NEW limit, NEW m, SlackTypes(level, A, w, limit, m),
           Slack(level, A, w, limit, m), NEW after, NEW B, NEW v,
           \A u \in A \cap B : v[u] = w[u],
           \/ B = A /\ after \in Int /\ after <= level
           \/ \E t \in Desks \ A : /\ B = A \cup {t} /\ after = level
                                   /\ v[t] \in 0 .. m /\ level + v[t] <= limit
           \/ \E t \in A : B = A \ {t} /\ after \in {level, level + w[t]}
    PROVE  Slack(after, B, v, limit, m)
<1>1. CASE B = A /\ after \in Int /\ after <= level
  BY <1>1, SlackLower
<1>2. ASSUME NEW t \in Desks \ A, B = A \cup {t}, after = level, v[t] \in 0 .. m, level + v[t] <= limit
      PROVE  Slack(after, B, v, limit, m)
  <2>1. level \in Int /\ level <= level /\ \A u \in A : v[u] = w[u]
    BY <1>2 DEF SlackTypes
  <2>2. Slack(level, A, v, limit, m)
    BY <2>1, SlackLower
  <2>3. SlackTypes(level, A, v, limit, m)
    BY <2>1 DEF SlackTypes
  <2> QED BY <1>2, <2>2, <2>3, SlackJoins
<1>3. ASSUME NEW t \in A, B = A \ {t}, after \in {level, level + w[t]}
      PROVE  Slack(after, B, v, limit, m)
  <2>1. Slack(after, B, w, limit, m)
    BY <1>3, SlackLeaves
  <2>2. after \in Int /\ after <= after /\ \A u \in B : v[u] = w[u]
    BY <1>3 DEF SlackTypes
  <2>3. SlackTypes(after, B, w, limit, m)
    BY <1>3, <2>2 DEF SlackTypes
  <2> QED BY <2>1, <2>2, <2>3, SlackLower
<1> QED BY <1>1, <1>2, <1>3

Places == {"idle", "gross", "net", "approved", "position", "loss", "trip"}

\* What the first checks let through.
Checked(o) ==
    /\ o \in RiskOrders
    /\ o.qty \in 1 .. RiskConfig.max_qty /\ o.price \in Nat
    /\ RiskConfig.max_notional > 0 => Notional(o) <= RiskConfig.max_notional

EngineTypes ==
    /\ engine \in [killed : BOOLEAN, gross : Int, loss : Int, net : [DeskSymbols -> Int],
                   halted : SUBSET DeskSymbols]
    /\ desk \in [Desks -> [at : Places, order : RiskOrders \cup {NoOrder}, pnl : Int]]
    /\ resetting \in BOOLEAN
    /\ \A t \in Desks : desk[t].at # "idle" => Checked(desk[t].order)

\* Thread t moves to place p, keeps its order, and no other thread moves.
DeskMoves(t, p) ==
    /\ desk' \in [Desks -> [at : Places, order : RiskOrders \cup {NoOrder}, pnl : Int]]
    /\ desk'[t].at = p /\ desk'[t].order = desk[t].order
    /\ \A u \in Desks \ {t} : desk'[u] = desk[u]

LEMMA GoMoves ==
    ASSUME EngineTypes, NEW t \in Desks, NEW p \in Places, Go(t, p)
    PROVE  DeskMoves(t, p)
<1>1. desk \in [Desks -> [at : Places, order : RiskOrders \cup {NoOrder}, pnl : Int]]
  BY DEF EngineTypes
<1> DEFINE d == [desk[t] EXCEPT !.at = p]
<1>2. d \in [at : Places, order : RiskOrders \cup {NoOrder}, pnl : Int] /\ d.at = p /\ d.order = desk[t].order
  BY <1>1
<1>3. desk' = [desk EXCEPT ![t] = d]
  BY <1>1 DEF Go
<1> HIDE DEF d
<1> QED BY <1>1, <1>2, <1>3 DEF DeskMoves

RiskNumbers ==
    /\ RiskConfig.max_notional \in Nat /\ RiskConfig.max_qty \in Nat /\ RiskConfig.max_gross \in Nat
    /\ RiskConfig.max_net \in Nat /\ RiskConfig.max_drawdown \in Nat

LEMMA RiskNumbersHold == RiskNumbers
BY RiskAssumption DEF RiskNumbers

LEMMA CheckedOrder ==
    ASSUME NEW o, Checked(o)
    PROVE  /\ o.symbol \in DeskSymbols /\ o.side \in {"buy", "sell"}
           /\ o.qty \in 0 .. RiskConfig.max_qty /\ o.price \in Nat /\ Notional(o) \in Nat
           /\ RiskConfig.max_notional > 0 => Notional(o) \in 0 .. RiskConfig.max_notional
           /\ Signed(o) = (IF o.side = "buy" THEN o.qty ELSE -o.qty) /\ Signed(o) \in Int
<1>1. o \in [symbol : DeskSymbols, side : {"buy", "sell"}, price : Int, qty : Int, ref : Int]
  BY RiskAssumption DEF Checked
<1>2. o.qty \in Nat /\ o.price \in Nat /\ o.qty \in 0 .. RiskConfig.max_qty
  BY <1>1 DEF Checked
<1>3. Notional(o) \in Nat
  BY <1>2, Products DEF Notional
<1>4. RiskConfig.max_notional > 0 => Notional(o) \in 0 .. RiskConfig.max_notional
  BY <1>3, RiskNumbersHold DEF Checked, RiskNumbers
<1> QED BY <1>1, <1>2, <1>3, <1>4 DEF Signed

\* The exposure stays as it is.
Exposed == engine'.gross = engine.gross /\ engine'.net = engine.net

Enters(t) ==
    /\ desk[t].at = "idle" /\ desk'[t].at = "gross" /\ Checked(desk'[t].order)
    /\ desk' \in [Desks -> [at : Places, order : RiskOrders \cup {NoOrder}, pnl : Int]]
    /\ \A u \in Desks \ {t} : desk'[u] = desk[u]

PassesGross(t) ==
    /\ desk[t].at = "gross" /\ DeskMoves(t, "net")
    /\ RiskConfig.max_gross > 0 => engine.gross + Notional(desk[t].order) <= RiskConfig.max_gross

PassesNet(t) ==
    /\ desk[t].at = "net" /\ DeskMoves(t, "approved")
    /\ RiskConfig.max_net > 0 => Magnitude(Proposed(desk[t].order)) <= RiskConfig.max_net

\* It leaves a place where nothing of its order is counted on, or gives the order up.
Rests(t) ==
    \/ desk[t].at \in {"gross", "net"} /\ DeskMoves(t, "idle")
    \/ desk[t].at \in {"loss", "trip"} /\ \E p \in {"idle", "trip"} : DeskMoves(t, p)

FillsGross(t) ==
    /\ desk[t].at = "approved" /\ DeskMoves(t, "position")
    /\ engine'.gross = engine.gross + Notional(desk[t].order) /\ engine'.net = engine.net

FillsNet(t) ==
    /\ desk[t].at = "position" /\ \E p \in {"idle", "loss"} : DeskMoves(t, p)
    /\ engine'.gross = engine.gross
    /\ engine'.net = [engine.net EXCEPT ![desk[t].order.symbol] = @ + Signed(desk[t].order)]

EngineShape ==
    \/ desk' = desk /\ Exposed
    \/ \E t \in Desks :
          \/ Exposed /\ (Enters(t) \/ PassesGross(t) \/ PassesNet(t) \/ Rests(t))
          \/ FillsGross(t) \/ FillsNet(t)

EngineRecord == [killed : BOOLEAN, gross : Int, loss : Int, net : [DeskSymbols -> Int], halted : SUBSET DeskSymbols]

LEMMA EngineIs == EngineTypes => /\ engine \in EngineRecord /\ engine.gross \in Int /\ engine.loss \in Int
                                 /\ engine.net \in [DeskSymbols -> Int] /\ engine.killed \in BOOLEAN
                                 /\ RiskNumbers
BY RiskNumbersHold DEF EngineTypes, EngineRecord

\* A move keeps the types.
LEMMA MovesTypes ==
    ASSUME EngineTypes, NEW t \in Desks, NEW p \in Places, DeskMoves(t, p),
           desk[t].at # "idle", engine' \in EngineRecord, resetting' \in BOOLEAN
    PROVE  EngineTypes'
<1>1. ASSUME NEW u \in Desks, desk'[u].at # "idle" PROVE Checked(desk'[u].order)
  <2>1. CASE u = t
    BY <2>1 DEF DeskMoves, EngineTypes
  <2>2. CASE u # t
    BY <1>1, <2>2 DEF DeskMoves, EngineTypes
  <2> QED BY <2>1, <2>2
<1> QED BY <1>1 DEF EngineTypes, DeskMoves, EngineRecord, Checked

LEMMA ControlShape ==
    ASSUME EngineTypes, \/ trip_kill_switch \/ reset_kill_switch
                        \/ \E s \in DeskSymbols : halt_symbol(s) \/ resume_symbol(s)
    PROVE  EngineTypes' /\ EngineShape
<1>1. desk' = desk /\ resetting' \in BOOLEAN
  BY DEF trip_kill_switch, reset_kill_switch, halt_symbol, resume_symbol, EngineTypes
<1>2. engine' \in EngineRecord /\ Exposed
  <2>1. engine \in EngineRecord
    BY EngineIs
  <2>2. CASE trip_kill_switch
    BY <2>1, <2>2 DEF trip_kill_switch, EngineRecord, Exposed
  <2>3. CASE reset_kill_switch
    <3>1. engine' = [engine EXCEPT !.loss = 0] \/ engine' = [engine EXCEPT !.killed = FALSE]
      BY <2>3 DEF reset_kill_switch, ResetStore
    <3>2. CASE engine' = [engine EXCEPT !.loss = 0]
      BY <2>1, <3>2 DEF EngineRecord, Exposed
    <3>3. CASE engine' = [engine EXCEPT !.killed = FALSE]
      BY <2>1, <3>3 DEF EngineRecord, Exposed
    <3> QED BY <3>1, <3>2, <3>3
  <2>4. ASSUME NEW s \in DeskSymbols, halt_symbol(s) PROVE engine' \in EngineRecord /\ Exposed
    BY <2>1, <2>4 DEF halt_symbol, EngineRecord, Exposed
  <2>5. ASSUME NEW s \in DeskSymbols, resume_symbol(s) PROVE engine' \in EngineRecord /\ Exposed
    BY <2>1, <2>5 DEF resume_symbol, EngineRecord, Exposed
  <2> QED BY <2>2, <2>3, <2>4, <2>5
<1>3. EngineTypes'
  BY <1>1, <1>2 DEF EngineTypes, EngineRecord, Checked
<1> QED BY <1>1, <1>2, <1>3 DEF EngineShape

LEMMA DeskShape ==
    ASSUME EngineTypes, NEW t \in Desks,
           \/ \E o \in RiskOrders : validate_pre_trade(t, o)
           \/ check_gross(t) \/ check_net(t)
           \/ \E pnl \in RiskPnls : fill_gross(t, pnl)
           \/ fill_position(t) \/ fill_loss(t) \/ fill_trip(t)
    PROVE  EngineTypes' /\ EngineShape
<1>1. /\ engine \in EngineRecord /\ engine.gross \in Int /\ engine.loss \in Int /\ resetting \in BOOLEAN
      /\ engine.net \in [DeskSymbols -> Int] /\ RiskNumbers
      /\ desk \in [Desks -> [at : Places, order : RiskOrders \cup {NoOrder}, pnl : Int]]
  BY EngineIs DEF EngineTypes
<1>2. desk[t].at # "idle" => Checked(desk[t].order)
  BY DEF EngineTypes
<1>3. ASSUME NEW o \in RiskOrders, validate_pre_trade(t, o) PROVE EngineTypes' /\ EngineShape
  <2>1. Checked(o)
    <3>1. o.qty \in Int /\ o.price \in Int
      BY RiskAssumption
    <3>2. o.qty > 0 /\ o.qty <= RiskConfig.max_qty /\ o.price > 0
          /\ (RiskConfig.max_notional > 0 => Notional(o) <= RiskConfig.max_notional)
      BY <1>3 DEF validate_pre_trade, FirstChecks
    <3> QED BY <1>1, <3>1, <3>2 DEF Checked, RiskNumbers
  <2>2. /\ desk[t].at = "idle" /\ engine' = engine /\ resetting' = resetting
        /\ desk' = [desk EXCEPT ![t] = [at |-> "gross", order |-> o, pnl |-> 0]]
    BY <1>3 DEF validate_pre_trade
  <2>3. Enters(t)
    <3> HIDE DEF Checked
    <3> QED BY <1>1, <2>1, <2>2 DEF Enters, Places
  <2>4. EngineTypes'
    BY <1>1, <2>2, <2>3 DEF EngineTypes, Enters, Checked
  <2> QED BY <2>2, <2>3, <2>4 DEF EngineShape, Exposed
<1>4. CASE check_gross(t)
  <2>1. desk[t].at = "gross" /\ engine' = engine /\ resetting' = resetting
    BY <1>4 DEF check_gross
  <2>2. CASE RiskConfig.max_gross > 0 /\ engine.gross + Notional(desk[t].order) > RiskConfig.max_gross
    <3>1. DeskMoves(t, "idle")
      BY <1>4, <2>2, GoMoves DEF check_gross, Places
    <3> QED BY <1>1, <2>1, <3>1, MovesTypes DEF EngineShape, Exposed, Rests, Places
  <2>3. CASE ~(RiskConfig.max_gross > 0 /\ engine.gross + Notional(desk[t].order) > RiskConfig.max_gross)
    <3>1. DeskMoves(t, "net")
      BY <1>4, <2>3, GoMoves DEF check_gross, Places
    <3>2. Notional(desk[t].order) \in Int
      BY <1>2, <2>1, CheckedOrder
    <3>3. PassesGross(t)
      BY <1>1, <2>1, <2>3, <3>1, <3>2 DEF PassesGross, RiskNumbers
    <3> QED BY <1>1, <2>1, <3>1, <3>3, MovesTypes DEF EngineShape, Exposed, Places
  <2> QED BY <2>2, <2>3
<1>5. CASE check_net(t)
  <2>1. desk[t].at = "net" /\ engine' = engine /\ resetting' = resetting
    BY <1>5 DEF check_net
  <2>2. CASE RiskConfig.max_net > 0 /\ Magnitude(Proposed(desk[t].order)) > RiskConfig.max_net
    <3>1. DeskMoves(t, "idle")
      BY <1>5, <2>2, GoMoves DEF check_net, Places
    <3> QED BY <1>1, <2>1, <3>1, MovesTypes DEF EngineShape, Exposed, Rests, Places
  <2>3. CASE ~(RiskConfig.max_net > 0 /\ Magnitude(Proposed(desk[t].order)) > RiskConfig.max_net)
    <3>1. DeskMoves(t, "approved")
      BY <1>5, <2>3, GoMoves DEF check_net, Places
    <3>2. Proposed(desk[t].order) \in Int
      BY <1>1, <1>2, <2>1, CheckedOrder DEF Proposed
    <3>3. PassesNet(t)
      BY <1>1, <2>1, <2>3, <3>1, <3>2 DEF PassesNet, RiskNumbers, Magnitude
    <3> QED BY <1>1, <2>1, <3>1, <3>3, MovesTypes DEF EngineShape, Exposed, Places
  <2> QED BY <2>2, <2>3
<1>6. ASSUME NEW pnl \in RiskPnls, fill_gross(t, pnl) PROVE EngineTypes' /\ EngineShape
  <2>1. /\ desk[t].at = "approved" /\ engine' = [engine EXCEPT !.gross = @ + Notional(desk[t].order)]
        /\ desk' = [desk EXCEPT ![t].at = "position", ![t].pnl = pnl] /\ resetting' = resetting
    BY <1>6 DEF fill_gross
  <2>2. pnl \in Int
    BY RiskAssumption
  <2>3. DeskMoves(t, "position")
    <3> DEFINE d == [desk[t] EXCEPT !.at = "position", !.pnl = pnl]
    <3>1. d \in [at : Places, order : RiskOrders \cup {NoOrder}, pnl : Int] /\ d.at = "position" /\ d.order = desk[t].order
      BY <1>1, <2>2 DEF Places
    <3>2. desk' = [desk EXCEPT ![t] = d]
      BY <1>1, <2>1
    <3> HIDE DEF d
    <3> QED BY <1>1, <3>1, <3>2 DEF DeskMoves
  <2>4. Notional(desk[t].order) \in Int
    BY <1>2, <2>1, CheckedOrder
  <2>5. engine' \in EngineRecord /\ engine'.gross = engine.gross + Notional(desk[t].order) /\ engine'.net = engine.net
    BY <1>1, <2>1, <2>4 DEF EngineRecord
  <2> QED BY <1>1, <2>1, <2>3, <2>5, MovesTypes DEF EngineShape, FillsGross, Places
<1>7. CASE fill_position(t)
  <2>1. /\ desk[t].at = "position" /\ resetting' = resetting
        /\ engine' = [engine EXCEPT !.net[desk[t].order.symbol] = @ + Signed(desk[t].order)]
    BY <1>7 DEF fill_position
  <2>2. PICK p \in {"idle", "loss"} : DeskMoves(t, p)
    BY <1>7, GoMoves DEF fill_position, Places
  <2>3. Signed(desk[t].order) \in Int /\ desk[t].order.symbol \in DeskSymbols
    BY <1>2, <2>1, CheckedOrder
  <2> DEFINE n == [engine.net EXCEPT ![desk[t].order.symbol] = @ + Signed(desk[t].order)]
  <2>4. n \in [DeskSymbols -> Int]
    BY <1>1, <2>3
  <2>5. engine' = [engine EXCEPT !.net = n]
    BY <1>1, <2>1 DEF EngineRecord
  <2>6. engine' \in EngineRecord /\ engine'.gross = engine.gross /\ engine'.net = n
    <3> HIDE DEF n
    <3> QED BY <1>1, <2>4, <2>5 DEF EngineRecord
  <2>7. FillsNet(t)
    BY <2>1, <2>2, <2>6 DEF FillsNet
  <2> QED BY <1>1, <2>1, <2>2, <2>6, <2>7, MovesTypes DEF EngineShape, Places
<1>8. CASE fill_loss(t)
  <2>1. /\ desk[t].at = "loss" /\ resetting' = resetting
        /\ engine' = [engine EXCEPT !.loss = engine.loss - desk[t].pnl]
    BY <1>8 DEF fill_loss
  <2>2. PICK p \in {"idle", "trip"} : DeskMoves(t, p)
    BY <1>8, GoMoves DEF fill_loss, Places
  <2>3. desk[t].pnl \in Int
    BY <1>1
  <2>4. engine' \in EngineRecord /\ Exposed
    BY <1>1, <2>1, <2>3 DEF EngineRecord, Exposed
  <2> QED BY <1>1, <2>1, <2>2, <2>4, MovesTypes DEF EngineShape, Rests, Places
<1>9. CASE fill_trip(t)
  <2>1. desk[t].at = "trip" /\ resetting' = resetting /\ engine' = [engine EXCEPT !.killed = TRUE]
    BY <1>9 DEF fill_trip
  <2>2. DeskMoves(t, "idle")
    BY <1>9, GoMoves DEF fill_trip, Places
  <2>3. engine' \in EngineRecord /\ Exposed
    BY <1>1, <2>1 DEF EngineRecord, Exposed
  <2> QED BY <1>1, <2>1, <2>2, <2>3, MovesTypes DEF EngineShape, Rests, Places
<1> QED BY <1>3, <1>4, <1>5, <1>6, <1>7, <1>8, <1>9

\* The threads whose order passed the gross check and is not counted yet, and
\* those whose order passed the check of symbol s's position on one side.
PastGross == {t \in Desks : desk[t].at \in {"net", "approved"}}
PastNet(s, side) ==
    {t \in Desks : /\ desk[t].at \in {"approved", "position"}
                   /\ desk[t].order.symbol = s /\ desk[t].order.side = side}

Notionals == [t \in Desks |-> Notional(desk[t].order)]
Quantities == [t \in Desks |-> desk[t].order.qty]

\* How far the position of s has gone to one side.
Toward(s, side) == IF side = "buy" THEN engine.net[s] ELSE -engine.net[s]

GrossSlack == Slack(engine.gross, PastGross, Notionals, RiskConfig.max_gross, RiskConfig.max_notional)
NetSlack(s, side) ==
    Slack(Toward(s, side), PastNet(s, side), Quantities, RiskConfig.max_net, RiskConfig.max_qty)

EngineInv ==
    /\ EngineTypes
    /\ RiskConfig.max_gross > 0 /\ RiskConfig.max_notional > 0 => GrossSlack
    /\ RiskConfig.max_net > 0 => \A s \in DeskSymbols, side \in {"buy", "sell"} : NetSlack(s, side)
    /\ /\ RiskConfig.max_drawdown > 0 /\ ~resetting
       /\ engine.loss >= RiskConfig.max_drawdown
       => engine.killed \/ \E t \in Desks : desk[t].at = "trip"

LEMMA GrossTypes ==
    ASSUME EngineTypes, RiskConfig.max_notional > 0
    PROVE  SlackTypes(engine.gross, PastGross, Notionals, RiskConfig.max_gross, RiskConfig.max_notional)
<1>1. ASSUME NEW t \in PastGross PROVE Notionals[t] \in 0 .. RiskConfig.max_notional
  <2>1. t \in Desks /\ Checked(desk[t].order)
    BY DEF PastGross, EngineTypes
  <2> QED BY <2>1, CheckedOrder DEF Notionals
<1> QED BY <1>1, EngineIs DEF SlackTypes, PastGross, RiskNumbers

LEMMA NetTypes ==
    ASSUME EngineTypes, NEW s \in DeskSymbols, NEW side \in {"buy", "sell"}
    PROVE  SlackTypes(Toward(s, side), PastNet(s, side), Quantities, RiskConfig.max_net, RiskConfig.max_qty)
<1>1. ASSUME NEW t \in PastNet(s, side) PROVE Quantities[t] \in 0 .. RiskConfig.max_qty
  <2>1. t \in Desks /\ Checked(desk[t].order)
    BY DEF PastNet, EngineTypes
  <2> QED BY <2>1, CheckedOrder DEF Quantities
<1>2. engine.net[s] \in Int
  BY EngineIs
<1> QED BY <1>1, <1>2, EngineIs DEF SlackTypes, PastNet, RiskNumbers, Toward

LEMMA GrossKeeps ==
    ASSUME EngineTypes, EngineShape, GrossSlack, RiskConfig.max_gross > 0, RiskConfig.max_notional > 0
    PROVE  GrossSlack'
<1> DEFINE A == PastGross
           B == PastGross'
           g == engine.gross
           h == engine'.gross
           m == RiskConfig.max_notional
           limit == RiskConfig.max_gross
           w == Notionals
           v == Notionals'
<1>1. SlackTypes(g, A, w, limit, m) /\ Slack(g, A, w, limit, m)
  BY GrossTypes DEF GrossSlack
<1>2. g \in Int /\ g <= g
  BY EngineIs
<1>3. /\ \A u \in Desks : (u \in A <=> desk[u].at \in {"net", "approved"}) /\ w[u] = Notional(desk[u].order)
      /\ A \subseteq Desks
  BY DEF PastGross, Notionals
<1>4. /\ \A u \in Desks : (u \in B <=> desk'[u].at \in {"net", "approved"}) /\ v[u] = Notional(desk'[u].order)
      /\ B \subseteq Desks
  BY DEF PastGross, Notionals, Notional
<1>5. SUFFICES Slack(h, B, v, limit, m)
  BY DEF GrossSlack, Slack
<1>6. CASE desk' = desk /\ Exposed
  <2>1. B = A /\ h = g /\ \A u \in A \cap B : v[u] = w[u]
    BY <1>3, <1>4, <1>6 DEF Exposed
  <2> HIDE DEF A, B, g, h, v, w
  <2> QED BY <1>1, <1>2, <2>1, SlackStep
<1>7. ASSUME NEW t \in Desks,
             \/ Exposed /\ (Enters(t) \/ PassesGross(t) \/ PassesNet(t) \/ Rests(t))
             \/ FillsGross(t) \/ FillsNet(t)
      PROVE  Slack(h, B, v, limit, m)
  <2>1. \A u \in Desks \ {t} : desk'[u] = desk[u]
    BY <1>7 DEF Enters, PassesGross, PassesNet, Rests, FillsGross, FillsNet, DeskMoves
  <2>2. ~Enters(t) => desk'[t].order = desk[t].order
    BY <1>7 DEF PassesGross, PassesNet, Rests, FillsGross, FillsNet, DeskMoves
  <2>3. Enters(t) => t \notin A /\ t \notin B
    BY <1>3, <1>4 DEF Enters
  <2>4. \A u \in A \cap B : v[u] = w[u]
    BY <1>3, <1>4, <2>1, <2>2, <2>3
  <2>5. B = A \/ B = A \cup {t} \/ B = A \ {t}
    BY <1>3, <1>4, <2>1
  <2>6. CASE PassesGross(t) /\ Exposed
    <3>1. t \in Desks \ A /\ B = A \cup {t} /\ h = g
      BY <1>3, <1>4, <2>1, <2>6 DEF PassesGross, Exposed, DeskMoves
    <3>2. v[t] = Notional(desk[t].order) /\ g + Notional(desk[t].order) <= limit
      BY <1>4, <2>6 DEF PassesGross, DeskMoves
    <3>3. Checked(desk[t].order)
      BY <2>6 DEF EngineTypes, PassesGross
    <3>4. v[t] \in 0 .. m
      BY <3>2, <3>3, CheckedOrder
    <3> HIDE DEF A, B, g, h, v, w, limit, m
    <3> QED BY <1>1, <2>4, <3>1, <3>2, <3>4, SlackStep
  <2>7. CASE FillsGross(t)
    <3>1. t \in A /\ B = A \ {t} /\ h = g + w[t]
      BY <1>3, <1>4, <2>1, <2>7 DEF FillsGross, DeskMoves
    <3> HIDE DEF A, B, g, h, v, w, limit, m
    <3> QED BY <1>1, <2>4, <3>1, SlackStep
  <2>8. CASE FillsNet(t) \/ (Exposed /\ (Enters(t) \/ PassesNet(t) \/ Rests(t)))
    <3>1. h = g
      BY <2>8 DEF FillsNet, Exposed
    <3>2. B = A \/ (t \in A /\ B = A \ {t})
      BY <1>3, <1>4, <2>1, <2>8 DEF FillsNet, Enters, PassesNet, Rests, DeskMoves
    <3> HIDE DEF A, B, g, h, v, w, limit, m
    <3>3. CASE B = A
      BY <1>1, <1>2, <2>4, <3>1, <3>3, SlackStep
    <3>4. CASE t \in A /\ B = A \ {t}
      BY <1>1, <2>4, <3>1, <3>4, SlackStep
    <3> QED BY <3>2, <3>3, <3>4
  <2> QED BY <1>7, <2>6, <2>7, <2>8
<1> QED BY <1>6, <1>7 DEF EngineShape

LEMMA NetKeeps ==
    ASSUME EngineTypes, EngineTypes', EngineShape, RiskConfig.max_net > 0,
           NEW s \in DeskSymbols, NEW side \in {"buy", "sell"}, NetSlack(s, side)
    PROVE  NetSlack(s, side)'
<1> DEFINE A == PastNet(s, side)
           B == PastNet(s, side)'
           g == Toward(s, side)
           h == Toward(s, side)'
           m == RiskConfig.max_qty
           limit == RiskConfig.max_net
           w == Quantities
           v == Quantities'
           In(d) == d.at \in {"approved", "position"} /\ d.order.symbol = s /\ d.order.side = side
<1>1. SlackTypes(g, A, w, limit, m) /\ Slack(g, A, w, limit, m)
  BY NetTypes DEF NetSlack
<1>2. /\ g \in Int /\ g <= g /\ engine.net \in [DeskSymbols -> Int]
      /\ g = (IF side = "buy" THEN engine.net[s] ELSE -engine.net[s])
      /\ h = (IF side = "buy" THEN engine'.net[s] ELSE -engine'.net[s])
  BY EngineIs DEF Toward
<1>3. A \subseteq Desks /\ \A u \in Desks : (u \in A <=> In(desk[u])) /\ w[u] = desk[u].order.qty
  BY DEF PastNet, Quantities
<1>4. B \subseteq Desks /\ \A u \in Desks : (u \in B <=> In(desk'[u])) /\ v[u] = desk'[u].order.qty
  BY DEF PastNet, Quantities
<1>5. SUFFICES Slack(h, B, v, limit, m)
  BY DEF NetSlack, Slack
<1>6. CASE desk' = desk /\ Exposed
  <2>1. B = A /\ h = g /\ \A u \in A \cap B : v[u] = w[u]
    BY <1>2, <1>3, <1>4, <1>6 DEF Exposed
  <2> HIDE DEF A, B, g, h, v, w
  <2> QED BY <1>1, <1>2, <2>1, SlackStep
<1>7. ASSUME NEW t \in Desks,
             \/ Exposed /\ (Enters(t) \/ PassesGross(t) \/ PassesNet(t) \/ Rests(t))
             \/ FillsGross(t) \/ FillsNet(t)
      PROVE  Slack(h, B, v, limit, m)
  <2>1. \A u \in Desks \ {t} : desk'[u] = desk[u]
    BY <1>7 DEF Enters, PassesGross, PassesNet, Rests, FillsGross, FillsNet, DeskMoves
  <2>2. ~Enters(t) => desk'[t].order = desk[t].order
    BY <1>7 DEF PassesGross, PassesNet, Rests, FillsGross, FillsNet, DeskMoves
  <2>3. Enters(t) => t \notin A /\ t \notin B
    BY <1>3, <1>4 DEF Enters
  <2>4. \A u \in A \cap B : v[u] = w[u]
    BY <1>3, <1>4, <2>1, <2>2, <2>3
  <2>5. CASE PassesNet(t) /\ Exposed /\ desk[t].order.symbol = s /\ desk[t].order.side = side
    <3>1. t \in Desks \ A /\ B = A \cup {t} /\ h = g
      BY <1>2, <1>3, <1>4, <2>1, <2>5 DEF PassesNet, Exposed, DeskMoves
    <3>2. v[t] = desk[t].order.qty /\ Magnitude(Proposed(desk[t].order)) <= limit
      BY <1>4, <2>5 DEF PassesNet, DeskMoves
    <3>3. Checked(desk[t].order)
      BY <2>5 DEF EngineTypes, PassesNet
    <3>4. /\ v[t] \in 0 .. m /\ limit \in Nat
          /\ Proposed(desk[t].order) = engine.net[s] + (IF side = "buy" THEN v[t] ELSE -v[t])
      BY <2>5, <3>2, <3>3, CheckedOrder, EngineIs DEF Proposed, RiskNumbers
    <3>5. g + v[t] <= limit
      <4> DEFINE q == v[t]
                 z == engine.net[s]
      <4>1. q \in Nat /\ z \in Int
        BY <1>2, <3>4, RiskNumbersHold DEF RiskNumbers
      <4>2. Magnitude(z + (IF side = "buy" THEN q ELSE -q)) <= limit
        BY <3>2, <3>4
      <4> HIDE DEF q, z, limit
      <4>3. (IF side = "buy" THEN z ELSE -z) + q <= limit
        BY <3>4, <4>1, <4>2 DEF Magnitude
      <4> QED BY <1>2, <4>3 DEF q, z
    <3> HIDE DEF A, B, g, h, v, w, limit, m
    <3> QED BY <1>1, <2>4, <3>1, <3>4, <3>5, SlackStep
  <2>6. CASE FillsNet(t) /\ desk[t].order.symbol = s
    <3>1. Checked(desk[t].order)
      BY <2>6 DEF EngineTypes, FillsNet
    <3> DEFINE q == desk[t].order.qty
    <3>2. /\ desk[t].order.side \in {"buy", "sell"} /\ q \in Nat
          /\ Signed(desk[t].order) = (IF desk[t].order.side = "buy" THEN q ELSE -q)
      BY <3>1, CheckedOrder, RiskNumbersHold DEF RiskNumbers
    <3>3. engine'.net[s] = engine.net[s] + Signed(desk[t].order) /\ engine.net[s] \in Int
      BY <1>2, <2>6 DEF FillsNet
    <3>4. t \notin B /\ \A u \in Desks \ {t} : u \in A <=> u \in B
      BY <1>3, <1>4, <2>1, <2>6 DEF FillsNet, DeskMoves
    <3>5. CASE desk[t].order.side = side
      <4>1. t \in A /\ B = A \ {t} /\ w[t] = q
        BY <1>3, <1>4, <2>6, <3>4, <3>5 DEF FillsNet
      <4>2. h = g + q
        <5> HIDE DEF q
        <5> QED BY <1>2, <3>2, <3>3, <3>5
      <4> HIDE DEF A, B, g, h, v, w, limit, m
      <4> QED BY <1>1, <2>4, <4>1, <4>2, SlackStep
    <3>6. CASE desk[t].order.side # side
      <4>1. B = A
        BY <1>3, <1>4, <3>4, <3>6
      <4>2. h \in Int /\ h <= g
        <5> HIDE DEF q
        <5> QED BY <1>2, <3>2, <3>3, <3>6
      <4> HIDE DEF A, B, g, h, v, w, limit, m
      <4> QED BY <1>1, <2>4, <4>1, <4>2, SlackStep
    <3> QED BY <3>5, <3>6
  <2>7. CASE ~(PassesNet(t) /\ desk[t].order.symbol = s /\ desk[t].order.side = side)
             /\ ~(FillsNet(t) /\ desk[t].order.symbol = s)
    <3>1. B = A
      <4>1. \A u \in Desks \ {t} : u \in A <=> u \in B
        BY <1>3, <1>4, <2>1
      <4>2. SUFFICES In(desk'[t]) <=> In(desk[t])
        <5>1. t \in A <=> t \in B
          BY <1>3, <1>4, <4>2
        <5> HIDE DEF A, B
        <5> QED BY <1>3, <1>4, <4>1, <5>1
      <4>3. CASE FillsNet(t)
        BY <2>7, <4>3 DEF FillsNet, DeskMoves
      <4>4. CASE FillsGross(t)
        BY <4>4 DEF FillsGross, DeskMoves
      <4>5. CASE PassesNet(t)
        BY <2>7, <4>5 DEF PassesNet, DeskMoves
      <4>6. CASE Enters(t)
        BY <4>6 DEF Enters
      <4>7. CASE PassesGross(t)
        BY <4>7 DEF PassesGross, DeskMoves
      <4>8. CASE Rests(t)
        BY <4>8 DEF Rests, DeskMoves
      <4> QED BY <1>7, <4>3, <4>4, <4>5, <4>6, <4>7, <4>8
    <3>2. h = g
      <4>1. CASE FillsNet(t)
        BY <1>2, <2>7, <4>1 DEF FillsNet
      <4>2. CASE ~FillsNet(t)
        BY <1>2, <1>7, <4>2 DEF FillsGross, Exposed
      <4> QED BY <4>1, <4>2
    <3> HIDE DEF A, B, g, h, v, w, limit, m
    <3> QED BY <1>1, <1>2, <2>4, <3>1, <3>2, SlackStep
  <2> QED BY <1>7, <2>5, <2>6, <2>7 DEF FillsNet, PassesNet, Rests, Enters, PassesGross, FillsGross
<1> QED BY <1>6, <1>7 DEF EngineShape

LEMMA LossKeeps ==
    ASSUME EngineInv, EngineTypes', EngineNext, RiskConfig.max_drawdown > 0, ~resetting',
           engine'.loss >= RiskConfig.max_drawdown
    PROVE  engine'.killed \/ \E t \in Desks : desk'[t].at = "trip"
<1> DEFINE limit == RiskConfig.max_drawdown
           Tripping == \E t \in Desks : desk[t].at = "trip"
<1>1. /\ engine \in EngineRecord /\ engine.loss \in Int /\ limit \in Nat /\ limit > 0 /\ resetting \in BOOLEAN
      /\ desk \in [Desks -> [at : Places, order : RiskOrders \cup {NoOrder}, pnl : Int]]
  BY EngineIs DEF EngineInv, EngineTypes, RiskNumbers
<1>2. ~resetting /\ engine.loss >= limit => engine.killed \/ Tripping
  BY DEF EngineInv
<1>3. CASE trip_kill_switch
  BY <1>1, <1>3 DEF trip_kill_switch, EngineRecord
<1>4. CASE reset_kill_switch
  <2>1. resetting /\ engine' = [engine EXCEPT !.loss = 0]
    BY <1>4 DEF reset_kill_switch, ResetStore
  <2>2. engine'.loss = 0
    BY <1>1, <2>1 DEF EngineRecord
  <2> QED BY <1>1, <2>2
<1>5. CASE engine'.loss = engine.loss /\ engine'.killed = engine.killed /\ resetting' = resetting
           /\ \A t \in Desks : desk[t].at = "trip" => desk'[t].at = "trip"
  BY <1>2, <1>5
<1>6. ASSUME NEW s \in DeskSymbols, halt_symbol(s) \/ resume_symbol(s)
      PROVE  engine'.killed \/ \E t \in Desks : desk'[t].at = "trip"
  <2>1. engine'.loss = engine.loss /\ engine'.killed = engine.killed
    BY <1>1, <1>6 DEF halt_symbol, resume_symbol, EngineRecord
  <2>2. resetting' = resetting /\ desk' = desk
    BY <1>6 DEF halt_symbol, resume_symbol
  <2> QED BY <1>5, <2>1, <2>2
<1>7. ASSUME NEW t \in Desks, \/ \E o \in RiskOrders : validate_pre_trade(t, o)
                              \/ check_gross(t) \/ check_net(t)
                              \/ \E pnl \in RiskPnls : fill_gross(t, pnl)
                              \/ fill_position(t)
      PROVE  engine'.killed \/ \E u \in Desks : desk'[u].at = "trip"
  <2>1. engine'.loss = engine.loss /\ engine'.killed = engine.killed
    <3>1. CASE engine' = engine
      BY <3>1
    <3>2. ASSUME NEW pnl \in RiskPnls, fill_gross(t, pnl)
          PROVE  engine'.loss = engine.loss /\ engine'.killed = engine.killed
      BY <1>1, <3>2 DEF fill_gross, EngineRecord
    <3>3. CASE fill_position(t)
      BY <1>1, <3>3 DEF fill_position, EngineRecord
    <3> QED BY <1>7, <3>1, <3>2, <3>3 DEF validate_pre_trade, check_gross, check_net
  <2>2. resetting' = resetting
    BY <1>7 DEF validate_pre_trade, check_gross, check_net, fill_gross, fill_position
  <2>3. desk[t].at # "trip" /\ \A u \in Desks \ {t} : desk'[u] = desk[u]
    BY <1>1, <1>7 DEF validate_pre_trade, check_gross, check_net, fill_gross, fill_position, Go
  <2> QED BY <1>5, <2>1, <2>2, <2>3
<1>8. ASSUME NEW t \in Desks, fill_loss(t) PROVE engine'.killed \/ \E u \in Desks : desk'[u].at = "trip"
  <2>1. engine'.loss = engine.loss - desk[t].pnl
    BY <1>1, <1>8 DEF fill_loss, EngineRecord
  <2>2. engine.loss - desk[t].pnl >= limit
    BY <2>1
  <2>3. desk'[t].at = "trip"
    BY <1>1, <1>8, <2>2 DEF fill_loss, Go
  <2> QED BY <2>3
<1>9. ASSUME NEW t \in Desks, fill_trip(t) PROVE engine'.killed \/ \E u \in Desks : desk'[u].at = "trip"
  <2>1. engine' = [engine EXCEPT !.killed = TRUE]
    BY <1>9 DEF fill_trip
  <2>2. engine'.killed = TRUE
    BY <1>1, <2>1 DEF EngineRecord
  <2> QED BY <2>2
<1> QED BY <1>3, <1>4, <1>6, <1>7, <1>8, <1>9 DEF EngineNext

LEMMA EngineStarts == EngineInit => EngineInv
<1> SUFFICES ASSUME EngineInit PROVE EngineInv
  OBVIOUS
<1>1. /\ engine = [killed |-> FALSE, gross |-> 0, loss |-> 0, net |-> [s \in DeskSymbols |-> 0], halted |-> {}]
      /\ desk = [t \in Desks |-> [at |-> "idle", order |-> NoOrder, pnl |-> 0]]
      /\ resetting = FALSE
  BY DEF EngineInit
<1>2. EngineTypes
  <2>1. engine \in [killed : BOOLEAN, gross : Int, loss : Int, net : [DeskSymbols -> Int],
                    halted : SUBSET DeskSymbols]
    BY <1>1
  <2>2. desk \in [Desks -> [at : Places, order : RiskOrders \cup {NoOrder}, pnl : Int]]
    BY <1>1 DEF Places
  <2>3. resetting \in BOOLEAN /\ \A t \in Desks : desk[t].at = "idle"
    BY <1>1
  <2> QED BY <2>1, <2>2, <2>3 DEF EngineTypes
<1>3. RiskNumbers /\ engine.gross = 0 /\ engine.loss = 0 /\ \A s \in DeskSymbols : engine.net[s] = 0
  BY <1>1, RiskNumbersHold
<1>4. PastGross = {} /\ \A s \in DeskSymbols, side \in {"buy", "sell"} : PastNet(s, side) = {}
  BY <1>1 DEF PastGross, PastNet
<1>5. Cardinality(Desks) - 1 \in Nat
  BY DeskCount
<1>6. ASSUME NEW m \in Nat, NEW limit \in Nat, NEW w PROVE Slack(0, {}, w, limit, m)
  <2> DEFINE x == (Cardinality(Desks) - 1) * m
  <2>1. x \in Int /\ 0 <= x
    BY <1>5, Products
  <2>2. 0 <= limit + x
    <3> HIDE DEF x
    <3> QED BY <2>1
  <2> QED BY <2>2 DEF Slack
<1>7. GrossSlack
  BY <1>3, <1>4, <1>6 DEF GrossSlack, RiskNumbers
<1>8. ASSUME NEW s \in DeskSymbols, NEW side \in {"buy", "sell"} PROVE NetSlack(s, side)
  <2>1. Toward(s, side) = 0
    BY <1>3 DEF Toward
  <2> QED BY <1>3, <1>4, <1>6, <2>1 DEF NetSlack, RiskNumbers
<1>9. RiskConfig.max_drawdown > 0 => ~(engine.loss >= RiskConfig.max_drawdown)
  BY <1>3 DEF RiskNumbers
<1> QED BY <1>2, <1>7, <1>8, <1>9 DEF EngineInv

LEMMA EngineKeeps == EngineInv /\ [EngineNext]_engineVars => EngineInv'
<1> SUFFICES ASSUME EngineInv, [EngineNext]_engineVars PROVE EngineInv'
  OBVIOUS
<1>1. EngineTypes
  BY DEF EngineInv
<1>2. CASE EngineNext
  <2>1. EngineTypes' /\ EngineShape
    BY <1>1, <1>2, ControlShape, DeskShape DEF EngineNext
  <2>2. RiskConfig.max_gross > 0 /\ RiskConfig.max_notional > 0 => GrossSlack'
    BY <1>1, <2>1, GrossKeeps DEF EngineInv
  <2>3. RiskConfig.max_net > 0 => \A s \in DeskSymbols, side \in {"buy", "sell"} : NetSlack(s, side)'
    BY <1>1, <2>1, NetKeeps DEF EngineInv
  <2>4. /\ RiskConfig.max_drawdown > 0 /\ ~resetting'
        /\ engine'.loss >= RiskConfig.max_drawdown
        => engine'.killed \/ \E t \in Desks : desk'[t].at = "trip"
    BY <1>2, <2>1, LossKeeps
  <2> QED BY <2>1, <2>2, <2>3, <2>4 DEF EngineInv
<1>3. CASE UNCHANGED engineVars
  BY <1>3 DEF engineVars, EngineInv, EngineTypes, Checked, GrossSlack, NetSlack, Slack, PastGross, PastNet,
              Notionals, Quantities, Toward, Notional
<1> QED BY <1>2, <1>3

LEMMA EngineKeepsLimits == EngineInv => ExposureBounded /\ DrawdownKills
<1> SUFFICES ASSUME EngineInv PROVE ExposureBounded /\ DrawdownKills
  OBVIOUS
<1> DEFINE x == Others * RiskConfig.max_qty
<1>1. EngineTypes /\ RiskNumbers /\ engine.net \in [DeskSymbols -> Int]
  BY EngineIs DEF EngineInv
<1>2. x \in Int
  <2>1. Others \in Int
    BY DeskCount DEF Others
  <2> QED BY <1>1, <2>1, Products DEF RiskNumbers
<1>3. ASSUME RiskConfig.max_net > 0, NEW s \in DeskSymbols
      PROVE  Magnitude(engine.net[s]) <= RiskConfig.max_net + x
  <2>1. NetSlack(s, "buy") /\ NetSlack(s, "sell")
    BY <1>3 DEF EngineInv
  <2>2. engine.net[s] <= RiskConfig.max_net + x /\ -engine.net[s] <= RiskConfig.max_net + x
    BY <2>1 DEF NetSlack, Slack, Toward, Others
  <2>3. engine.net[s] \in Int
    BY <1>1
  <2> HIDE DEF x
  <2> QED BY <1>1, <1>2, <2>2, <2>3 DEF Magnitude, RiskNumbers
<1>4. ASSUME RiskConfig.max_gross > 0, RiskConfig.max_notional > 0
      PROVE  engine.gross <= RiskConfig.max_gross + Others * RiskConfig.max_notional
  BY <1>4 DEF EngineInv, GrossSlack, Slack, Others
<1>5. DrawdownKills
  BY DEF EngineInv, DrawdownKills
<1> QED BY <1>3, <1>4, <1>5 DEF ExposureBounded

-----------------------------------------------------------------------------
(***************************************************************************)
(* The strategies' plans.                                                  *)
(***************************************************************************)
LEMMA SandboxSteps == [Next]_vars => [SandboxNext]_sandboxVars
BY DEF vars, Next, Reads, Shares, sandboxVars, strategyVars

TotalOf(orders) == FoldLeft(LAMBDA sum, o : sum + o.qty, 0, orders)

\* The fold over a plan adds its quantities up, one order after the other.
LEMMA SumOfQuantities ==
    ASSUME NEW N \in Nat, NEW orders, DOMAIN orders = 1 .. N, \A i \in 1 .. N : orders[i].qty \in Int
    PROVE  \E F \in [0 .. N -> Int] :
              /\ F[0] = 0 /\ \A n \in 1 .. N : F[n] = F[n - 1] + orders[n].qty
              /\ TotalOf(orders) = F[N]
<1> DEFINE step == [i \in 1 .. N |-> [a \in Int |-> a + orders[i].qty]]
           body(g) == [s \in SUBSET (1 .. N) |->
                          IF s = {} THEN 0 ELSE g[s \ {Max(s)}] + orders[Max(s)].qty]
           fold == CHOOSE g : g = body(g)
<1>1. TotalOf(orders) = fold[1 .. N]
  BY DEF TotalOf, FoldLeft, MapThenFoldSet
<1>2. step \in [1 .. N -> [Int -> Int]]
  OBVIOUS
<1>3. PICK f : Folds(f, step, 0, Int, N)
  <2>1. 0 \in Int
    OBVIOUS
  <2> HIDE DEF step
  <2> QED BY ONLY <1>2, <2>1, N \in Nat, FoldsExist
<1>4. \A s \in SUBSET (1 .. N) : s # {} => Max(s) \in s
  <2> TAKE s \in SUBSET (1 .. N)
  <2>1. s \subseteq 0 .. N
    OBVIOUS
  <2> QED BY <2>1, MaxIn
<1>5. f = body(f)
  <2>1. ASSUME NEW s \in SUBSET (1 .. N) PROVE f[s] = body(f)[s]
    <3>1. CASE s = {}
      BY <1>3, <3>1 DEF Folds
    <3>2. CASE s # {}
      <4>1. Max(s) \in 1 .. N /\ s \ {Max(s)} \in SUBSET (1 .. N)
        BY <1>4, <3>2
      <4>2. f[s \ {Max(s)}] \in Int /\ f[s] = step[Max(s)][f[s \ {Max(s)}]]
        BY <1>3, <3>2, <4>1 DEF Folds
      <4>3. step[Max(s)][f[s \ {Max(s)}]] = f[s \ {Max(s)}] + orders[Max(s)].qty
        BY <4>1, <4>2
      <4> QED BY <3>2, <4>2, <4>3
    <3> QED BY <3>1, <3>2
  <2> QED BY <1>3, <2>1 DEF Folds
<1>6. fold = body(fold)
  <2> HIDE DEF body
  <2> QED BY <1>5
<1> HIDE DEF fold
<1>7. fold[{}] = 0
  BY <1>6
<1>8. ASSUME NEW n \in 1 .. N PROVE fold[1 .. n] = fold[1 .. (n - 1)] + orders[n].qty
  <2>1. \A i \in 1 .. n : i \in 1 .. N
    OBVIOUS
  <2>2. n \in 1 .. n /\ n \in Nat \ {0}
    OBVIOUS
  <2>3. fold[1 .. n] = fold[(1 .. n) \ {Max(1 .. n)}] + orders[Max(1 .. n)].qty
    BY <1>6, <2>1, <2>2
  <2> QED BY <2>2, <2>3, MaxPrefix
<1> DEFINE S == {n \in Nat : n <= N => fold[1 .. n] \in Int}
<1>9. 0 \in S
  <2>1. 1 .. 0 = {}
    OBVIOUS
  <2> QED BY <1>7, <2>1
<1>10. \A n \in Nat : n \in S => n + 1 \in S
  <2> SUFFICES ASSUME NEW n \in Nat, n \in S, n + 1 <= N PROVE fold[1 .. (n + 1)] \in Int
    OBVIOUS
  <2>1. n + 1 \in 1 .. N /\ (n + 1) - 1 = n
    OBVIOUS
  <2>2. fold[1 .. (n + 1)] = fold[1 .. n] + orders[n + 1].qty
    BY <1>8, <2>1
  <2> QED BY <2>1, <2>2
<1>11. \A n \in Nat : n \in S
  <2> HIDE DEF S
  <2> QED BY <1>9, <1>10, NatSetInduction
<1> DEFINE F == [n \in 0 .. N |-> fold[1 .. n]]
<1>12. F \in [0 .. N -> Int]
  BY <1>11
<1>13. F[0] = 0
  <2>1. 1 .. 0 = {}
    OBVIOUS
  <2> QED BY <1>7, <2>1
<1>14. \A n \in 1 .. N : F[n] = F[n - 1] + orders[n].qty
  BY <1>8
<1>15. F[N] = fold[1 .. N]
  OBVIOUS
<1> QED BY <1>1, <1>12, <1>13, <1>14, <1>15

\* Slices of q, the last with r more, add up to N times q and r.
LEMMA SlicesAddUp ==
    ASSUME NEW N \in Nat \ {0}, NEW q \in Nat, NEW r \in Nat, NEW F \in [0 .. N -> Int], F[0] = 0,
           \A n \in 1 .. N : F[n] = F[n - 1] + (q + (IF n - 1 = N - 1 THEN r ELSE 0))
    PROVE  F[N] = N * q + r
<1> DEFINE S == {n \in Nat : n < N => F[n] = n * q}
<1>1. 0 \in S
  OBVIOUS
<1>2. ASSUME NEW n \in Nat, n \in S PROVE n + 1 \in S
  <2> SUFFICES ASSUME n + 1 < N PROVE F[n + 1] = (n + 1) * q
    OBVIOUS
  <2>1. n + 1 \in 1 .. N /\ (n + 1) - 1 = n /\ n # N - 1 /\ F[n] = n * q
    BY <1>2
  <2>2. F[n + 1] = F[n] + (q + 0)
    BY <2>1
  <2>3. (n + 1) * q = n * q + q /\ n * q \in Int
    BY Products
  <2> QED BY <2>1, <2>2, <2>3
<1>3. \A n \in Nat : n \in S
  <2> HIDE DEF S
  <2> QED BY <1>1, <1>2, NatSetInduction
<1>4. N - 1 \in Nat /\ N - 1 < N /\ (N - 1) + 1 = N /\ N \in 1 .. N
  OBVIOUS
<1>5. F[N - 1] = (N - 1) * q
  BY <1>3, <1>4
<1>6. F[N] = F[N - 1] + (q + r)
  BY <1>4
<1>7. ((N - 1) + 1) * q = (N - 1) * q + q /\ (N - 1) * q \in Int
  BY <1>4, Products
<1> QED BY <1>4, <1>5, <1>6, <1>7

\* A plan's slices add up to the total and have ids of their own.
WholePlan(total, orders) ==
    /\ orders # <<>> => TotalOf(orders) = total
    /\ \A i, j \in DOMAIN orders : i # j => orders[i].id # orders[j].id

LEMMA DivMod ==
    ASSUME NEW a \in Nat, NEW n \in Nat \ {0}
    PROVE  a \div n \in Nat /\ a % n \in Nat /\ a = n * (a \div n) + (a % n)
OBVIOUS

LEMMA SlicedPlan ==
    ASSUME NEW request \in StrategyConfigs, request.total > 0, request.slices # 0,
           NEW price, NEW orders,
           orders = [i \in 1 .. request.slices |-> Slice(request, i - 1, price[i])]
    PROVE  WholePlan(request.total, orders)
<1> DEFINE N == request.slices
           total == request.total
           first == request.base_id
           q == total \div N
           r == total % N
<1>1. total \in Nat /\ N \in Nat \ {0} /\ first \in Nat /\ DOMAIN orders = 1 .. N
  BY RiskAssumption
<1>2. \A i \in 1 .. N : /\ orders[i].qty = q + (IF i - 1 = N - 1 THEN r ELSE 0)
                        /\ orders[i].id = first + (i - 1)
  BY DEF Slice, SliceQty
<1> HIDE DEF N, total, first
<1>3. q \in Nat /\ r \in Nat /\ total = N * q + r
  BY <1>1, DivMod
<1> HIDE DEF q, r
<1>4. \A i \in 1 .. N : orders[i].qty \in Int
  BY <1>2, <1>3
<1>5. TotalOf(orders) = total
  <2>1. PICK F \in [0 .. N -> Int] :
              /\ F[0] = 0 /\ \A n \in 1 .. N : F[n] = F[n - 1] + orders[n].qty
              /\ TotalOf(orders) = F[N]
    <3>1. N \in Nat
      BY <1>1
    <3> QED BY ONLY <1>1, <1>4, <3>1, SumOfQuantities
  <2>2. \A n \in 1 .. N : F[n] = F[n - 1] + (q + (IF n - 1 = N - 1 THEN r ELSE 0))
    BY <1>2, <2>1
  <2>3. F[N] = N * q + r
    <3>1. F \in [0 .. N -> Int] /\ F[0] = 0
      BY <2>1
    <3> QED BY ONLY <1>1, <1>3, <2>2, <3>1, SlicesAddUp
  <2> QED BY <1>3, <2>1, <2>3
<1>6. \A i, j \in 1 .. N : i # j => orders[i].id # orders[j].id
  BY ONLY <1>1, <1>2
<1> QED BY ONLY <1>1, <1>5, <1>6 DEF WholePlan, total

LEMMA PlanIsWhole ==
    ASSUME NEW request \in StrategyConfigs, NEW plan \in Plans(request)
    PROVE  WholePlan(request.total, plan)
<1>1. request.total \in Int /\ request.slices \in Nat /\ request.price \in Int
  BY RiskAssumption
<1>2. CASE plan = <<>>
  BY <1>2 DEF WholePlan
<1>3. CASE plan = TWAPStrategy(request) /\ plan # <<>>
  <2>1. request.total > 0 /\ request.slices # 0
    BY <1>1, <1>3 DEF TWAPStrategy
  <2>2. plan = [i \in 1 .. request.slices |-> Slice(request, i - 1, request.price)]
    BY <1>3 DEF TWAPStrategy
  <2> DEFINE price == [i \in 1 .. request.slices |-> request.price]
  <2>3. plan = [i \in 1 .. request.slices |-> Slice(request, i - 1, price[i])]
    BY <2>2
  <2> HIDE DEF price
  <2> QED BY <2>1, <2>3, SlicedPlan
<1>4. CASE plan = VWAPStrategy(request) /\ plan # <<>>
  <2>1. request.total > 0 /\ request.slices # 0
    BY <1>1, <1>4 DEF VWAPStrategy
  <2>2. plan = [i \in 1 .. request.slices |-> Slice(request, i - 1, request.price + (i - 1) * 100)]
    BY <1>4 DEF VWAPStrategy
  <2> DEFINE price == [i \in 1 .. request.slices |-> request.price + (i - 1) * 100]
  <2>3. plan = [i \in 1 .. request.slices |-> Slice(request, i - 1, price[i])]
    BY <2>2
  <2> HIDE DEF price
  <2> QED BY <2>1, <2>3, SlicedPlan
<1>5. CASE plan = IOCStrategy(request) /\ plan # <<>>
  <2>1. plan = <<[qty |-> request.total, price |-> request.price, at |-> 0, id |-> request.base_id]>>
    BY <1>5 DEF IOCStrategy
  <2>2. DOMAIN plan = 1 .. 1 /\ plan[1].qty = request.total /\ 1 .. 1 = {1}
    BY <2>1
  <2>3. \A i \in 1 .. 1 : plan[i].qty \in Int
    BY <1>1, <2>2
  <2>4. PICK F \in [0 .. 1 -> Int] :
              /\ F[0] = 0 /\ \A n \in 1 .. 1 : F[n] = F[n - 1] + plan[n].qty
              /\ TotalOf(plan) = F[1]
    BY <2>2, <2>3, SumOfQuantities
  <2>5. F[1] = request.total
    <3>1. F[1] = F[0] + plan[1].qty
      BY <2>4
    <3> QED BY <1>1, <2>2, <2>4, <3>1
  <2>6. TotalOf(plan) = request.total
    BY <2>4, <2>5
  <2> QED BY <2>2, <2>6 DEF WholePlan
<1> QED BY <1>2, <1>3, <1>4, <1>5 DEF Plans

SandboxInv ==
    /\ WholePlan(emitted.total, emitted.orders)
    /\ emitted.total <= StrategyBudget.max_qty /\ Len(emitted.orders) <= StrategyBudget.max_orders

LEMMA SandboxKeepsPlans == SandboxInv => PlansWhole
BY DEF SandboxInv, WholePlan, TotalOf, PlansWhole

LEMMA EmptyPlan == emitted = NoPlan => SandboxInv
<1> SUFFICES ASSUME emitted = NoPlan PROVE SandboxInv
  OBVIOUS
<1>1. emitted.total = 0 /\ emitted.orders = <<>>
  BY DEF NoPlan
<1>2. StrategyBudget.max_qty \in Nat /\ StrategyBudget.max_orders \in Nat /\ Len(<<>>) = 0
  BY RiskAssumption
<1> QED BY <1>1, <1>2 DEF SandboxInv, WholePlan

LEMMA SandboxKeeps == SandboxInv /\ [SandboxNext]_sandboxVars => SandboxInv'
<1> SUFFICES ASSUME SandboxInv, [SandboxNext]_sandboxVars PROVE SandboxInv'
  OBVIOUS
<1>1. CASE emitted' = emitted
  BY <1>1 DEF SandboxInv, WholePlan
<1>2. CASE emitted' = NoPlan
  <2>1. emitted'.total = 0 /\ emitted'.orders = <<>>
    BY <1>2 DEF NoPlan
  <2>2. StrategyBudget.max_qty \in Nat /\ StrategyBudget.max_orders \in Nat /\ Len(<<>>) = 0
    BY RiskAssumption
  <2> QED BY <2>1, <2>2 DEF SandboxInv, WholePlan
<1>3. ASSUME NEW request \in StrategyConfigs, NEW plan \in Plans(request), NEW throws \in BOOLEAN,
             execute_safe(request, plan, throws)
      PROVE  SandboxInv'
  <2>1. CASE ~(emitted' = NoPlan)
    <3>1. /\ emitted' = [total |-> request.total, orders |-> plan]
          /\ ~(request.total > StrategyBudget.max_qty) /\ ~(Len(plan) > StrategyBudget.max_orders)
      BY <1>3, <2>1 DEF execute_safe, quarantine
    <3>2. emitted'.total = request.total /\ emitted'.orders = plan
      BY <3>1
    <3>3. WholePlan(request.total, plan)
      BY PlanIsWhole
    <3>4. request.total \in Int /\ StrategyBudget.max_qty \in Nat /\ StrategyBudget.max_orders \in Nat
      BY RiskAssumption
    <3>5. Len(plan) \in Nat
      <4>1. request.slices \in Nat
        BY RiskAssumption
      <4>2. plan = <<>> \/ DOMAIN plan = 1 .. request.slices \/ DOMAIN plan = 1 .. 1
        BY DEF Plans, TWAPStrategy, VWAPStrategy, IOCStrategy
      <4> QED BY <4>1, <4>2
    <3>6. request.total <= StrategyBudget.max_qty /\ Len(plan) <= StrategyBudget.max_orders
      BY <3>1, <3>4, <3>5
    <3> QED BY <3>2, <3>3, <3>6 DEF SandboxInv, WholePlan
  <2> QED BY <1>2, <2>1
<1>4. CASE quarantine
  BY <1>2, <1>4 DEF quarantine
<1>5. CASE sandbox_reset
  BY <1>1, <1>5 DEF sandbox_reset
<1>6. CASE UNCHANGED sandboxVars
  BY <1>1, <1>6 DEF sandboxVars
<1> QED BY <1>3, <1>4, <1>5, <1>6 DEF SandboxNext

\* AutonomousRiskEngine and the strategies, however the steps of their threads
\* interleave and for every number of threads, every limit and every order: the
\* exposure exceeds its limits by no more than one order of every other thread, a
\* loss at the drawdown limit has the kill switch on, and a plan that leaves the
\* sandbox adds up to what was asked for.
THEOREM RiskStaysBounded == Spec => []StrategiesSound
<1>1. Init => EngineInv /\ SandboxInv
  BY EngineStarts, EmptyPlan DEF Init, StrategiesInit, SandboxInit
<1>2. EngineInv /\ SandboxInv /\ [Next]_vars => EngineInv' /\ SandboxInv'
  BY EngineSteps, EngineKeeps, SandboxSteps, SandboxKeeps
<1>3. EngineInv /\ SandboxInv => StrategiesSound
  BY EngineKeepsLimits, SandboxKeepsPlans DEF StrategiesSound
<1> QED BY <1>1, <1>2, <1>3, PTL DEF Spec

-----------------------------------------------------------------------------
(***************************************************************************)
(* The rings.  Each side works on a view of the other's index that may     *)
(* lag behind; a lagging view leaves out free slots or items and never     *)
(* invents one.                                                            *)
(***************************************************************************)
LEMMA RingSteps == [Next]_vars => [BurstNext \/ ShardNext]_ringVars
BY DEF vars, Next, Reads, Shares, bufferVars, ringVars, poolVars

RingType == [head : Nat, tail : Nat, slots : [0 .. RingSize - 1 -> Nat]]
TxType == [at : {"idle", "write", "publish"}, tail : Nat, items : Seq(Nat)]
RxType == [at : {"idle", "read", "publish"}, head : Nat, want : Nat]

\* The slots between the indices hold what was accepted and not yet read.
Stored(buf, taken) ==
    /\ Len(taken) = buf.head
    /\ buf.tail <= buf.head /\ buf.head - buf.tail <= RingSize
    /\ \A p \in buf.tail .. buf.head - 1 : buf.slots[p % RingSize] = taken[p + 1]

\* The producer's view is no newer than the index; what it wrote fits.
Writing(buf, writer) ==
    /\ writer.at = "write" => writer.tail <= buf.tail /\ buf.head - writer.tail <= RingSize
    /\ writer.at = "publish" =>
          /\ buf.head + Len(writer.items) - buf.tail <= RingSize
          /\ \A k \in 1 .. Len(writer.items) : buf.slots[(buf.head + k - 1) % RingSize] = writer.items[k]

\* The consumer has got a prefix of what was accepted, up to the index it publishes.
Reading(buf, consumer, taken, got) ==
    /\ Len(got) = buf.tail + (IF consumer.at = "publish" THEN consumer.want ELSE 0)
    /\ Len(got) <= buf.head
    /\ consumer.at = "read" => buf.tail <= consumer.head /\ consumer.head <= buf.head
    /\ \A i \in 1 .. Len(got) : got[i] = taken[i]

Sharded(r, items) == r # NetRing => \A i \in 1 .. Len(items) : get_shard_index(items[i]) = r

RingTypes(buf, writer, consumer, taken, got) ==
    buf \in RingType /\ writer \in TxType /\ consumer \in RxType /\ taken \in Seq(Nat) /\ got \in Seq(Nat)

RingOK(r, buf, writer, consumer, taken, got) ==
    /\ RingTypes(buf, writer, consumer, taken, got)
    /\ Stored(buf, taken) /\ Writing(buf, writer) /\ Reading(buf, consumer, taken, got)
    /\ Sharded(r, writer.items) /\ Sharded(r, taken)

RingInv ==
    /\ rings \in [Rings -> RingType] /\ tx \in [Rings -> TxType] /\ rx \in [Rings -> RxType]
    /\ accepted \in [Rings -> Seq(Nat)] /\ received \in [Rings -> Seq(Nat)]
    /\ \A r \in Rings : RingOK(r, rings[r], tx[r], rx[r], accepted[r], received[r])

\* A step changes what belongs to ring r.
RingMoves(r, buf, writer, consumer, taken, got) ==
    /\ rings' = [rings EXCEPT ![r] = buf] /\ tx' = [tx EXCEPT ![r] = writer]
    /\ rx' = [rx EXCEPT ![r] = consumer] /\ accepted' = [accepted EXCEPT ![r] = taken]
    /\ received' = [received EXCEPT ![r] = got]

LEMMA RingFrame ==
    ASSUME RingInv, NEW r \in Rings, NEW buf, NEW writer, NEW consumer, NEW taken, NEW got,
           RingMoves(r, buf, writer, consumer, taken, got),
           RingOK(r, buf, writer, consumer, taken, got)
    PROVE  RingInv'
<1>0. /\ rings' = [rings EXCEPT ![r] = buf] /\ tx' = [tx EXCEPT ![r] = writer]
      /\ rx' = [rx EXCEPT ![r] = consumer] /\ accepted' = [accepted EXCEPT ![r] = taken]
      /\ received' = [received EXCEPT ![r] = got]
  BY DEF RingMoves
<1>1. RingTypes(buf, writer, consumer, taken, got)
  BY DEF RingOK
<1>2. /\ rings' \in [Rings -> RingType] /\ tx' \in [Rings -> TxType] /\ rx' \in [Rings -> RxType]
      /\ accepted' \in [Rings -> Seq(Nat)] /\ received' \in [Rings -> Seq(Nat)]
  BY <1>0, <1>1 DEF RingInv, RingTypes
<1>3. ASSUME NEW u \in Rings PROVE RingOK(u, rings'[u], tx'[u], rx'[u], accepted'[u], received'[u])
  <2>1. CASE u = r
    <3>1. rings'[u] = buf /\ tx'[u] = writer /\ rx'[u] = consumer /\ accepted'[u] = taken /\ received'[u] = got
      BY <1>0, <2>1 DEF RingInv
    <3> QED BY <2>1, <3>1
  <2>2. CASE u # r
    <3>1. rings'[u] = rings[u] /\ tx'[u] = tx[u] /\ rx'[u] = rx[u] /\ accepted'[u] = accepted[u] /\ received'[u] = received[u]
      BY <1>0, <2>2 DEF RingInv
    <3> QED BY <3>1 DEF RingInv
  <2> QED BY <2>1, <2>2
<1> QED BY <1>2, <1>3 DEF RingInv

LEMMA RingSizeIs == RingSize \in Nat \ {0} /\ NumShards \in Nat \ {0}
BY BuffersAssumption

LEMMA SequenceOver ==
    ASSUME NEW f, NEW n \in Nat, f \in [1 .. n -> Nat]
    PROVE  f \in Seq(Nat) /\ Len(f) = n
BY DEF Seq

LEMMA Joined ==
    ASSUME NEW a \in Seq(Nat), NEW b \in Seq(Nat)
    PROVE  /\ a \o b \in Seq(Nat) /\ Len(a \o b) = Len(a) + Len(b)
           /\ \A i \in 1 .. Len(a) : (a \o b)[i] = a[i]
           /\ \A i \in 1 .. Len(b) : (a \o b)[Len(a) + i] = b[i]
           /\ \A i \in 1 .. Len(a) + Len(b) : i \in 1 .. Len(a) \/ \E j \in 1 .. Len(b) : i = Len(a) + j
<1> DEFINE m == Len(a)
           n == Len(b)
<1>1. m \in Nat /\ n \in Nat
  OBVIOUS
<1>2. /\ a \o b \in Seq(Nat) /\ Len(a \o b) = m + n
      /\ \A i \in 1 .. m + n : (a \o b)[i] = IF i <= m THEN a[i] ELSE b[i - m]
  BY ConcatProperties
<1> HIDE DEF m, n
<1>3. ASSUME NEW i \in 1 .. m PROVE (a \o b)[i] = a[i]
  <2>1. i \in 1 .. m + n /\ i <= m
    BY ONLY <1>1, <1>3
  <2> QED BY <1>2, <2>1
<1>4. ASSUME NEW i \in 1 .. n PROVE (a \o b)[m + i] = b[i]
  <2>1. m + i \in 1 .. m + n /\ ~(m + i <= m) /\ (m + i) - m = i
    BY ONLY <1>1, <1>4
  <2> QED BY <1>2, <2>1
<1>5. ASSUME NEW i \in 1 .. m + n, i \notin 1 .. m PROVE \E j \in 1 .. n : i = m + j
  <2>1. i - m \in 1 .. n /\ i = m + (i - m)
    BY ONLY <1>1, <1>5
  <2> QED BY <2>1
<1> QED BY <1>2, <1>3, <1>4, <1>5 DEF m, n

LEMMA BeginOK ==
    ASSUME NEW r, NEW buf, NEW writer, NEW consumer, NEW taken, NEW got,
           RingOK(r, buf, writer, consumer, taken, got),
           NEW items \in Seq(Nat), Sharded(r, items)
    PROVE  RingOK(r, buf, [at |-> "write", tail |-> buf.tail, items |-> items], consumer, taken, got)
<1> DEFINE w == [at |-> "write", tail |-> buf.tail, items |-> items]
<1>1. buf.tail \in Nat
  BY DEF RingOK, RingTypes, RingType
<1>2. w \in TxType /\ w.at = "write" /\ w.tail = buf.tail /\ w.items = items
  BY <1>1 DEF TxType
<1>3. buf.tail <= buf.tail /\ buf.head - buf.tail <= RingSize
  BY <1>1 DEF RingOK, Stored
<1> HIDE DEF w
<1>4. RingTypes(buf, w, consumer, taken, got) /\ Writing(buf, w)
  BY <1>2, <1>3 DEF RingOK, RingTypes, Writing
<1>5. RingOK(r, buf, w, consumer, taken, got)
  BY <1>2, <1>4 DEF RingOK
<1> QED BY <1>5 DEF w

LEMMA BeginReadOK ==
    ASSUME NEW r, NEW buf, NEW writer, NEW consumer, NEW taken, NEW got,
           RingOK(r, buf, writer, consumer, taken, got), consumer.at = "idle", NEW want \in Nat
    PROVE  RingOK(r, buf, writer, [at |-> "read", head |-> buf.head, want |-> want], taken, got)
<1> DEFINE x == [at |-> "read", head |-> buf.head, want |-> want]
<1>1. buf.head \in Nat /\ buf.tail \in Nat
  BY DEF RingOK, RingTypes, RingType
<1>2. x \in RxType /\ x.at = "read" /\ x.head = buf.head
  BY <1>1 DEF RxType
<1>3. buf.tail <= buf.head /\ buf.head <= buf.head
  BY <1>1 DEF RingOK, Stored
<1> HIDE DEF x
<1>4. RingTypes(buf, writer, x, taken, got) /\ Reading(buf, x, taken, got)
  BY <1>2, <1>3 DEF RingOK, RingTypes, Reading
<1>5. RingOK(r, buf, writer, x, taken, got)
  BY <1>4 DEF RingOK
<1> QED BY <1>5 DEF x

LEMMA PublishTailOK ==
    ASSUME NEW r, NEW buf, NEW writer, NEW consumer, NEW taken, NEW got,
           RingOK(r, buf, writer, consumer, taken, got), consumer.at = "publish",
           NEW after, after = [buf EXCEPT !.tail = @ + consumer.want],
           NEW x, x = [consumer EXCEPT !.at = "idle", !.head = 0, !.want = 0]
    PROVE  RingOK(r, after, writer, x, taken, got)
<1>1. /\ buf.head \in Nat /\ buf.tail \in Nat /\ buf \in RingType /\ consumer.want \in Nat
      /\ RingSize \in Nat
  BY RingSizeIs DEF RingOK, RingTypes, RingType, RxType
<1>2. x \in RxType /\ x.at = "idle"
  <2>1. consumer \in [at : {"idle", "read", "publish"}, head : Nat, want : Nat]
    BY DEF RingOK, RingTypes, RxType
  <2>2. x = [consumer EXCEPT !.at = "idle", !.head = 0, !.want = 0]
    OBVIOUS
  <2> QED BY ONLY <2>1, <2>2 DEF RxType
<1>3. /\ after \in RingType /\ after.head = buf.head /\ after.slots = buf.slots
      /\ after.tail = buf.tail + consumer.want
  BY <1>1 DEF RingType
<1>4. Len(got) = buf.tail + consumer.want /\ Len(got) <= buf.head
  BY DEF RingOK, Reading
<1>5. Stored(after, taken)
  BY <1>1, <1>3, <1>4 DEF RingOK, Stored
<1>6. Writing(after, writer)
  <2>1. writer.tail \in Nat /\ Len(writer.items) \in Nat
    BY DEF RingOK, RingTypes, TxType
  <2>2. writer.at = "write" => writer.tail <= after.tail /\ after.head - writer.tail <= RingSize
    BY <1>1, <1>3, <2>1 DEF RingOK, Writing
  <2>3. writer.at = "publish" =>
          /\ after.head + Len(writer.items) - after.tail <= RingSize
          /\ \A k \in 1 .. Len(writer.items) : after.slots[(after.head + k - 1) % RingSize] = writer.items[k]
    BY <1>1, <1>3, <2>1 DEF RingOK, Writing
  <2> QED BY <2>2, <2>3 DEF Writing
<1>7. Reading(after, x, taken, got)
  BY <1>1, <1>2, <1>3, <1>4 DEF RingOK, Reading
<1> QED BY <1>2, <1>3, <1>5, <1>6, <1>7 DEF RingOK, RingTypes

LEMMA ReadSlotsOK ==
    ASSUME NEW r, NEW buf, NEW writer, NEW consumer, NEW taken, NEW got,
           RingOK(r, buf, writer, consumer, taken, got), consumer.at = "read",
           NEW count \in Nat, count <= consumer.head - buf.tail,
           NEW x, x = [consumer EXCEPT !.at = "publish", !.want = count],
           NEW more, more = [i \in 1 .. count |-> buf.slots[(buf.tail + i - 1) % RingSize]]
    PROVE  RingOK(r, buf, writer, x, taken, got \o more)
<1>1. /\ buf.head \in Nat /\ buf.tail \in Nat /\ buf \in RingType /\ consumer \in RxType
      /\ consumer.head \in Nat /\ RingSize \in Nat \ {0} /\ got \in Seq(Nat) /\ taken \in Seq(Nat)
      /\ buf.slots \in [0 .. RingSize - 1 -> Nat]
  BY RingSizeIs DEF RingOK, RingTypes, RingType, RxType
<1>2. x \in RxType /\ x.at = "publish" /\ x.want = count
  BY <1>1 DEF RxType
<1>3. /\ Len(got) = buf.tail /\ consumer.head <= buf.head
      /\ \A i \in 1 .. Len(got) : got[i] = taken[i]
  BY <1>1 DEF RingOK, Reading
<1>4. more \in Seq(Nat) /\ Len(more) = count
  <2>1. \A i \in 1 .. count : buf.tail + i - 1 \in Nat
    BY <1>1
  <2>2. \A i \in 1 .. count : (buf.tail + i - 1) % RingSize \in 0 .. RingSize - 1
    BY <1>1, <2>1, PlaceIn
  <2>3. more \in [1 .. count -> Nat]
    BY <1>1, <2>2
  <2> QED BY <2>3, SequenceOver
<1>5. \A i \in 1 .. count : more[i] = taken[buf.tail + i]
  <2> TAKE i \in 1 .. count
  <2>1. /\ buf.tail + i - 1 \in buf.tail .. buf.head - 1
        /\ (buf.tail + i - 1) + 1 = buf.tail + i
    BY <1>1, <1>3
  <2>2. buf.slots[(buf.tail + i - 1) % RingSize] = taken[(buf.tail + i - 1) + 1]
    BY <2>1 DEF RingOK, Stored
  <2> QED BY <2>1, <2>2
<1> DEFINE all == got \o more
<1>6. /\ all \in Seq(Nat) /\ Len(all) = buf.tail + count
      /\ \A i \in 1 .. buf.tail : all[i] = got[i]
      /\ \A i \in 1 .. count : all[buf.tail + i] = more[i]
      /\ \A i \in 1 .. buf.tail + count : i \in 1 .. buf.tail \/ \E j \in 1 .. count : i = buf.tail + j
  <2>1. buf.tail = Len(got) /\ count = Len(more)
    BY <1>3, <1>4
  <2>2. /\ all \in Seq(Nat) /\ Len(all) = Len(got) + Len(more)
        /\ \A i \in 1 .. Len(got) : all[i] = got[i]
        /\ \A i \in 1 .. Len(more) : all[Len(got) + i] = more[i]
        /\ \A i \in 1 .. Len(got) + Len(more) : i \in 1 .. Len(got) \/ \E j \in 1 .. Len(more) : i = Len(got) + j
    BY ONLY <1>1, <1>4, Joined DEF all
  <2> HIDE DEF all
  <2> QED BY ONLY <2>1, <2>2
<1> HIDE DEF all
<1>7. ASSUME NEW i \in 1 .. Len(all) PROVE all[i] = taken[i]
  <2>1. CASE i \in 1 .. buf.tail
    BY ONLY <1>3, <1>6, <2>1
  <2>2. ASSUME NEW j \in 1 .. count, i = buf.tail + j PROVE all[i] = taken[i]
    BY ONLY <1>5, <1>6, <2>2
  <2> QED BY ONLY <1>6, <1>7, <2>1, <2>2
<1>8. Reading(buf, x, taken, all)
  BY <1>1, <1>2, <1>3, <1>6, <1>7 DEF Reading
<1>9. RingOK(r, buf, writer, x, taken, all)
  BY <1>2, <1>6, <1>8 DEF RingOK, RingTypes
<1> QED BY <1>9 DEF all

LEMMA PublishHeadOK ==
    ASSUME NEW r, NEW buf, NEW writer, NEW consumer, NEW taken, NEW got,
           RingOK(r, buf, writer, consumer, taken, got), writer.at = "publish",
           NEW after, after = [buf EXCEPT !.head = @ + Len(writer.items)],
           NEW w, w = [writer EXCEPT !.at = "idle", !.items = <<>>]
    PROVE  RingOK(r, after, w, consumer, taken \o writer.items, got)
<1> DEFINE items == writer.items
           n == Len(items)
           all == taken \o items
<1>1. /\ buf.head \in Nat /\ buf.tail \in Nat /\ buf \in RingType /\ writer \in TxType
      /\ RingSize \in Nat \ {0} /\ got \in Seq(Nat) /\ taken \in Seq(Nat) /\ items \in Seq(Nat) /\ n \in Nat
      /\ consumer \in RxType /\ consumer.head \in Nat
  BY RingSizeIs DEF RingOK, RingTypes, RingType, TxType, RxType
<1>2. w \in TxType /\ w.at = "idle" /\ w.items = <<>>
  <2>1. <<>> \in Seq(Nat)
    OBVIOUS
  <2>2. writer \in [at : {"idle", "write", "publish"}, tail : Nat, items : Seq(Nat)]
    BY <1>1 DEF TxType
  <2>3. w = [writer EXCEPT !.at = "idle", !.items = <<>>]
    OBVIOUS
  <2> QED BY ONLY <2>1, <2>2, <2>3 DEF TxType
<1>3. /\ after \in RingType /\ after.tail = buf.tail /\ after.slots = buf.slots
      /\ after.head = buf.head + n
  <2>1. buf.head + n \in Nat
    BY ONLY <1>1
  <2>2. after = [buf EXCEPT !.head = buf.head + n]
    OBVIOUS
  <2> HIDE DEF n
  <2> QED BY ONLY <1>1, <2>1, <2>2 DEF RingType
<1>4. /\ Len(taken) = buf.head /\ buf.head + n - buf.tail <= RingSize /\ buf.tail <= buf.head
      /\ \A p \in buf.tail .. buf.head - 1 : buf.slots[p % RingSize] = taken[p + 1]
      /\ \A k \in 1 .. n : buf.slots[(buf.head + k - 1) % RingSize] = items[k]
  BY DEF RingOK, Stored, Writing
<1>5. /\ all \in Seq(Nat) /\ Len(all) = buf.head + n
      /\ \A i \in 1 .. buf.head : all[i] = taken[i]
      /\ \A i \in 1 .. n : all[buf.head + i] = items[i]
      /\ \A i \in 1 .. buf.head + n : i \in 1 .. buf.head \/ \E j \in 1 .. n : i = buf.head + j
  <2>1. buf.head = Len(taken) /\ n = Len(items)
    BY <1>4
  <2> HIDE DEF items, n
  <2>2. /\ all \in Seq(Nat) /\ Len(all) = Len(taken) + Len(items)
        /\ \A i \in 1 .. Len(taken) : all[i] = taken[i]
        /\ \A i \in 1 .. Len(items) : all[Len(taken) + i] = items[i]
        /\ \A i \in 1 .. Len(taken) + Len(items) : i \in 1 .. Len(taken) \/ \E j \in 1 .. Len(items) : i = Len(taken) + j
    BY ONLY <1>1, Joined DEF all
  <2> HIDE DEF all
  <2>3. all \in Seq(Nat) /\ Len(all) = buf.head + n /\ \A i \in 1 .. buf.head : all[i] = taken[i]
    BY ONLY <2>1, <2>2
  <2>4. \A i \in 1 .. n : all[buf.head + i] = items[i]
    BY ONLY <2>1, <2>2
  <2>5. \A i \in 1 .. buf.head + n : i \in 1 .. buf.head \/ \E j \in 1 .. n : i = buf.head + j
    BY ONLY <2>1, <2>2
  <2> QED BY ONLY <2>3, <2>4, <2>5
<1> HIDE DEF all, n, items
<1>6. Stored(after, all)
  <2>1. ASSUME NEW p \in buf.tail .. buf.head + n - 1 PROVE buf.slots[p % RingSize] = all[p + 1]
    <3>1. p \in Nat /\ buf.tail <= p /\ p <= buf.head + n - 1
      BY ONLY <1>1, <2>1
    <3>2. CASE p < buf.head
      <4>1. p \in buf.tail .. buf.head - 1 /\ p + 1 \in 1 .. buf.head
        BY ONLY <1>1, <3>1, <3>2
      <4> QED BY ONLY <1>4, <1>5, <4>1
    <3>3. CASE ~(p < buf.head)
      <4>1. p + 1 - buf.head \in 1 .. n /\ buf.head + (p + 1 - buf.head) - 1 = p
            /\ buf.head + (p + 1 - buf.head) = p + 1
        BY ONLY <1>1, <3>1, <3>3
      <4>2. PICK k \in 1 .. n : buf.head + k - 1 = p /\ buf.head + k = p + 1
        BY ONLY <4>1
      <4>3. buf.slots[p % RingSize] = items[k] /\ all[p + 1] = items[k]
        BY ONLY <1>4, <1>5, <4>2
      <4> QED BY <4>3
    <3> QED BY <3>2, <3>3
  <2>2. /\ Len(all) = after.head /\ after.tail <= after.head /\ after.head - after.tail <= RingSize
    BY <1>1, <1>3, <1>4, <1>5
  <2>3. \A p \in after.tail .. after.head - 1 : after.slots[p % RingSize] = all[p + 1]
    <3> TAKE p \in after.tail .. after.head - 1
    <3>1. p \in buf.tail .. buf.head + n - 1
      BY ONLY <1>1, <1>3, p \in after.tail .. after.head - 1
    <3> QED BY ONLY <1>3, <2>1, <3>1
  <2> QED BY <2>2, <2>3 DEF Stored
<1>7. Writing(after, w)
  BY <1>2 DEF Writing
<1>8. Reading(after, consumer, all, got)
  <2>1. /\ Len(got) = buf.tail + (IF consumer.at = "publish" THEN consumer.want ELSE 0)
        /\ Len(got) <= buf.head /\ Len(got) \in Nat
        /\ consumer.at = "read" => buf.tail <= consumer.head /\ consumer.head <= buf.head
        /\ \A i \in 1 .. Len(got) : got[i] = taken[i]
    BY <1>1 DEF RingOK, Reading
  <2>2. \A i \in 1 .. Len(got) : got[i] = all[i]
    <3>1. \A i \in 1 .. Len(got) : i \in 1 .. buf.head
      BY ONLY <1>1, <2>1
    <3> QED BY ONLY <1>5, <2>1, <3>1
  <2>3. Len(got) <= after.head /\ (consumer.at = "read" => consumer.head <= after.head)
    BY <1>1, <1>3, <2>1
  <2> QED BY <1>3, <2>1, <2>2, <2>3 DEF Reading
<1>9. Sharded(r, w.items) /\ Sharded(r, all)
  <2>1. Sharded(r, w.items)
    BY <1>2 DEF Sharded
  <2>2. ASSUME r # NetRing, NEW i \in 1 .. buf.head + n PROVE get_shard_index(all[i]) = r
    <3>1. \A k \in 1 .. buf.head : get_shard_index(taken[k]) = r
      BY <1>4, <2>2 DEF RingOK, Sharded
    <3>2. \A k \in 1 .. n : get_shard_index(items[k]) = r
      BY <2>2 DEF RingOK, Sharded, n, items
    <3>3. ASSUME NEW j \in 1 .. n, i = buf.head + j PROVE get_shard_index(all[i]) = r
      BY <1>5, <3>2, <3>3
    <3> QED BY <1>5, <3>1, <3>3
  <2> QED BY <1>5, <2>1, <2>2 DEF Sharded
<1>10. RingTypes(after, w, consumer, all, got)
  BY <1>1, <1>2, <1>3, <1>5 DEF RingTypes
<1>11. RingOK(r, after, w, consumer, all, got)
  BY <1>6, <1>7, <1>8, <1>9, <1>10 DEF RingOK
<1> QED BY <1>11 DEF all, items

\* The slots written are distinct, and none of them is still to be read.
LEMMA WriteSlotsOK ==
    ASSUME NEW r, NEW buf, NEW writer, NEW consumer, NEW taken, NEW got,
           RingOK(r, buf, writer, consumer, taken, got), writer.at = "write",
           NEW items \in Seq(Nat), buf.head + Len(items) - writer.tail <= RingSize, Sharded(r, items),
           NEW new, new = [i \in 0 .. RingSize - 1 |->
                IF \E k \in DOMAIN items : (buf.head + k - 1) % RingSize = i
                THEN items[CHOOSE k \in DOMAIN items : (buf.head + k - 1) % RingSize = i]
                ELSE buf.slots[i]],
           NEW after, after = [buf EXCEPT !.slots = new],
           NEW w, w = [writer EXCEPT !.at = "publish", !.items = items]
    PROVE  RingOK(r, after, w, consumer, taken, got)
<1> DEFINE n == Len(items)
           h == buf.head
<1>1. /\ h \in Nat /\ buf.tail \in Nat /\ buf \in RingType /\ writer \in TxType /\ writer.tail \in Nat
      /\ RingSize \in Nat \ {0} /\ got \in Seq(Nat) /\ taken \in Seq(Nat) /\ n \in Nat
      /\ consumer \in RxType /\ consumer.head \in Nat /\ buf.slots \in [0 .. RingSize - 1 -> Nat]
      /\ DOMAIN items = 1 .. n /\ \A k \in 1 .. n : items[k] \in Nat
  <2>1. /\ buf \in RingType /\ writer \in TxType /\ consumer \in RxType
        /\ got \in Seq(Nat) /\ taken \in Seq(Nat)
    BY DEF RingOK, RingTypes
  <2>2. h \in Nat /\ buf.tail \in Nat /\ buf.slots \in [0 .. RingSize - 1 -> Nat]
    BY ONLY <2>1 DEF RingType
  <2>3. writer.tail \in Nat /\ consumer.head \in Nat
    BY ONLY <2>1 DEF TxType, RxType
  <2>4. n \in Nat /\ DOMAIN items = 1 .. n /\ \A k \in 1 .. n : items[k] \in Nat
    BY ONLY items \in Seq(Nat)
  <2> QED BY ONLY <2>1, <2>2, <2>3, <2>4, RingSizeIs
<1>2. /\ Len(taken) = h /\ buf.tail <= h /\ writer.tail <= buf.tail
      /\ h + n - writer.tail <= RingSize
      /\ \A p \in buf.tail .. h - 1 : buf.slots[p % RingSize] = taken[p + 1]
  BY DEF RingOK, Stored, Writing
<1> HIDE DEF n
<1>3. n <= RingSize /\ h + n - buf.tail <= RingSize
  BY <1>1, <1>2
<1>4. \A k \in 1 .. n : h + k - 1 \in Nat /\ (h + k - 1) % RingSize \in 0 .. RingSize - 1
  <2> TAKE k \in 1 .. n
  <2>1. h + k - 1 \in Nat
    BY <1>1
  <2> QED BY <1>1, <2>1, PlaceIn
<1>5. ASSUME NEW k \in 1 .. n, NEW j \in 1 .. n, (h + k - 1) % RingSize = (h + j - 1) % RingSize
      PROVE  j = k
  <2> DEFINE a == h + k - 1
             b == h + j - 1
  <2>1. a \in Nat /\ b \in Nat /\ (k < j => a < b /\ b - a < RingSize) /\ (j < k => b < a /\ a - b < RingSize)
    <3> HIDE DEF h
    <3> QED BY ONLY <1>1, <1>3, k \in 1 .. n, j \in 1 .. n DEF a, b
  <2>2. a % RingSize = b % RingSize
    BY <1>5
  <2> HIDE DEF a, b
  <2>3. ~(k < j) /\ ~(j < k)
    BY <1>1, <2>1, <2>2, PlacesDistinct
  <2> QED BY <2>3
<1>6. \A k \in 1 .. n : new[(h + k - 1) % RingSize] = items[k]
  <2> TAKE k \in 1 .. n
  <2> DEFINE i == (h + k - 1) % RingSize
             c == CHOOSE j \in 1 .. n : (h + j - 1) % RingSize = i
  <2>1. i \in 0 .. RingSize - 1
    BY <1>4
  <2>2. new[i] = items[c]
    BY <1>1, <2>1
  <2>3. c \in 1 .. n /\ (h + c - 1) % RingSize = i
    OBVIOUS
  <2>4. c = k
    <3> HIDE DEF c
    <3> QED BY <1>5, <2>3
  <2> QED BY <2>2, <2>4
<1>7. ASSUME NEW p \in buf.tail .. h - 1 PROVE new[p % RingSize] = buf.slots[p % RingSize]
  <2>1. p \in Nat /\ p % RingSize \in 0 .. RingSize - 1
    BY <1>1, PlaceIn
  <2>2. ASSUME NEW k \in 1 .. n PROVE (h + k - 1) % RingSize # p % RingSize
    <3>1. p < h + k - 1 /\ (h + k - 1) - p < RingSize
      <4>1. h \in Int /\ buf.tail \in Int /\ n \in Int /\ RingSize \in Int /\ h + n - buf.tail <= RingSize
        BY ONLY <1>1, <1>3
      <4>2. p \in Int /\ buf.tail <= p /\ p <= h - 1 /\ k \in Int /\ 1 <= k /\ k <= n
        BY <4>1
      <4> HIDE DEF h
      <4> QED BY ONLY <4>1, <4>2
    <3> QED BY <1>1, <1>4, <2>1, <3>1, PlacesDistinct
  <2> QED BY <1>1, <2>1, <2>2
<1>8. new \in [0 .. RingSize - 1 -> Nat]
  <2> SUFFICES ASSUME NEW i \in 0 .. RingSize - 1 PROVE new[i] \in Nat
    OBVIOUS
  <2>1. CASE \E k \in DOMAIN items : (h + k - 1) % RingSize = i
    <3>1. PICK k \in 1 .. n : (h + k - 1) % RingSize = i
      BY <1>1, <2>1
    <3> QED BY <1>1, <1>6, <3>1
  <2>2. CASE ~\E k \in DOMAIN items : (h + k - 1) % RingSize = i
    BY <1>1, <2>2
  <2> QED BY <2>1, <2>2
<1>9. w \in TxType /\ w.at = "publish" /\ w.items = items /\ w.tail = writer.tail
  BY <1>1 DEF TxType
<1>10. /\ after \in RingType /\ after.tail = buf.tail /\ after.head = h /\ after.slots = new
  <2> HIDE DEF h
  <2> QED BY <1>1, <1>8 DEF RingType, h
<1>11. Stored(after, taken)
  BY <1>2, <1>7, <1>10 DEF Stored, RingOK
<1>12. Writing(after, w)
  BY <1>3, <1>6, <1>9, <1>10 DEF Writing, n
<1>13. Reading(after, consumer, taken, got)
  BY <1>10 DEF Reading, RingOK
<1>14. RingTypes(after, w, consumer, taken, got)
  BY <1>9, <1>10 DEF RingTypes, RingOK
<1> QED BY <1>9, <1>11, <1>12, <1>13, <1>14 DEF RingOK

\* An update of a function at r that leaves f[r] as it is leaves f as it is.
LEMMA SameAt ==
    ASSUME NEW S, NEW T, NEW f \in [S -> T], NEW r \in S
    PROVE  f = [f EXCEPT ![r] = f[r]]
OBVIOUS

LEMMA RingParts ==
    ASSUME RingInv, NEW r \in Rings
    PROVE  /\ RingOK(r, rings[r], tx[r], rx[r], accepted[r], received[r])
           /\ rings[r] \in RingType /\ tx[r] \in TxType /\ rx[r] \in RxType
           /\ accepted[r] \in Seq(Nat) /\ received[r] \in Seq(Nat)
           /\ rings = [rings EXCEPT ![r] = rings[r]] /\ tx = [tx EXCEPT ![r] = tx[r]]
           /\ rx = [rx EXCEPT ![r] = rx[r]] /\ accepted = [accepted EXCEPT ![r] = accepted[r]]
           /\ received = [received EXCEPT ![r] = received[r]]
<1>1. /\ rings \in [Rings -> RingType] /\ tx \in [Rings -> TxType] /\ rx \in [Rings -> RxType]
      /\ accepted \in [Rings -> Seq(Nat)] /\ received \in [Rings -> Seq(Nat)]
      /\ RingOK(r, rings[r], tx[r], rx[r], accepted[r], received[r])
  BY DEF RingInv
<1>2. /\ rings = [rings EXCEPT ![r] = rings[r]] /\ tx = [tx EXCEPT ![r] = tx[r]]
      /\ rx = [rx EXCEPT ![r] = rx[r]] /\ accepted = [accepted EXCEPT ![r] = accepted[r]]
      /\ received = [received EXCEPT ![r] = received[r]]
  BY <1>1, SameAt
<1> QED BY <1>1, <1>2

LEMMA BeginKeeps ==
    ASSUME RingInv, NEW r \in Rings, NEW items \in Seq(Nat), Sharded(r, items), Begin(r, items)
    PROVE  RingInv'
<1> DEFINE w == [at |-> "write", tail |-> rings[r].tail, items |-> items]
<1>1. tx' = [tx EXCEPT ![r] = w] /\ UNCHANGED <<rings, rx, accepted, received>>
  BY DEF Begin
<1>2. RingOK(r, rings[r], w, rx[r], accepted[r], received[r])
  BY RingParts, BeginOK
<1> HIDE DEF w
<1>3. RingMoves(r, rings[r], w, rx[r], accepted[r], received[r])
  BY <1>1, RingParts DEF RingMoves
<1> QED BY <1>2, <1>3, RingFrame

LEMMA BeginReadKeeps ==
    ASSUME RingInv, NEW r \in Rings, NEW want \in Nat, BeginRead(r, want)
    PROVE  RingInv'
<1> DEFINE x == [at |-> "read", head |-> rings[r].head, want |-> want]
<1>1. rx[r].at = "idle" /\ rx' = [rx EXCEPT ![r] = x] /\ UNCHANGED <<rings, tx, accepted, received>>
  BY DEF BeginRead
<1>2. RingOK(r, rings[r], tx[r], x, accepted[r], received[r])
  BY <1>1, RingParts, BeginReadOK
<1> HIDE DEF x
<1>3. RingMoves(r, rings[r], tx[r], x, accepted[r], received[r])
  BY <1>1, RingParts DEF RingMoves
<1> QED BY <1>2, <1>3, RingFrame

LEMMA PublishTailKeeps ==
    ASSUME RingInv, NEW r \in Rings, publish_tail(r)
    PROVE  RingInv'
<1> DEFINE after == [rings[r] EXCEPT !.tail = @ + rx[r].want]
           x == [rx[r] EXCEPT !.at = "idle", !.head = 0, !.want = 0]
<1>1. /\ rx[r].at = "publish" /\ rings' = [rings EXCEPT ![r].tail = @ + rx[r].want]
      /\ rx' = [rx EXCEPT ![r].at = "idle", ![r].head = 0, ![r].want = 0]
      /\ UNCHANGED <<tx, accepted, received>>
  BY DEF publish_tail
<1>2. rings' = [rings EXCEPT ![r] = after]
  BY <1>1
<1>3. rx' = [rx EXCEPT ![r] = x]
  <2>1. rx \in [Rings -> RxType]
    BY DEF RingInv
  <2> QED BY ONLY <1>1, <2>1, r \in Rings DEF x
<1>4. RingOK(r, after, tx[r], x, accepted[r], received[r])
  BY <1>1, RingParts, PublishTailOK
<1> HIDE DEF after, x
<1>5. RingMoves(r, after, tx[r], x, accepted[r], received[r])
  BY <1>1, <1>2, <1>3, RingParts DEF RingMoves
<1> QED BY <1>4, <1>5, RingFrame

LEMMA ReadSlotsKeeps ==
    ASSUME RingInv, NEW r \in Rings, read_slots(r)
    PROVE  RingInv'
<1> DEFINE tail == rings[r].tail
           available == rx[r].head - tail
           count == IF rx[r].want < available THEN rx[r].want ELSE available
           more == [i \in 1 .. count |-> rings[r].slots[(tail + i - 1) % RingSize]]
           x == [rx[r] EXCEPT !.at = "publish", !.want = count]
<1>1. /\ rx[r].at = "read" /\ received' = [received EXCEPT ![r] = @ \o more]
      /\ rx' = [rx EXCEPT ![r].at = "publish", ![r].want = count]
      /\ UNCHANGED <<rings, tx, accepted>>
  BY DEF read_slots
<1>2. received' = [received EXCEPT ![r] = received[r] \o more]
  <2> HIDE DEF more
  <2> QED BY <1>1
<1>3. rx' = [rx EXCEPT ![r] = x]
  <2>1. rx \in [Rings -> RxType]
    BY DEF RingInv
  <2> HIDE DEF count
  <2> QED BY ONLY <1>1, <2>1, r \in Rings DEF x
<1>4. count \in Nat /\ count <= rx[r].head - rings[r].tail
  <2>1. /\ rx[r].head \in Nat /\ rx[r].want \in Nat /\ rings[r].tail \in Nat
    BY RingParts DEF RxType, RingType
  <2>2. rings[r].tail <= rx[r].head
    BY <1>1, RingParts DEF RingOK, Reading
  <2> QED BY <2>1, <2>2
<1> HIDE DEF count
<1>5. RingOK(r, rings[r], tx[r], x, accepted[r], received[r] \o more)
  BY <1>1, <1>4, RingParts, ReadSlotsOK
<1> HIDE DEF more, x
<1>6. RingMoves(r, rings[r], tx[r], x, accepted[r], received[r] \o more)
  BY <1>1, <1>2, <1>3, RingParts DEF RingMoves
<1> QED BY <1>5, <1>6, RingFrame

LEMMA PublishHeadKeeps ==
    ASSUME RingInv, NEW r \in Rings, publish_head(r)
    PROVE  RingInv'
<1> DEFINE after == [rings[r] EXCEPT !.head = @ + Len(tx[r].items)]
           w == [tx[r] EXCEPT !.at = "idle", !.items = <<>>]
<1>1. /\ tx[r].at = "publish" /\ rings' = [rings EXCEPT ![r].head = @ + Len(tx[r].items)]
      /\ accepted' = [accepted EXCEPT ![r] = @ \o tx[r].items]
      /\ tx' = [tx EXCEPT ![r].at = "idle", ![r].items = <<>>]
      /\ UNCHANGED <<rx, received>>
  BY DEF publish_head
<1>2. rings' = [rings EXCEPT ![r] = after] /\ accepted' = [accepted EXCEPT ![r] = accepted[r] \o tx[r].items]
  BY <1>1
<1>3. tx' = [tx EXCEPT ![r] = w]
  <2>1. tx \in [Rings -> TxType]
    BY DEF RingInv
  <2> QED BY ONLY <1>1, <2>1, r \in Rings DEF w
<1>4. RingOK(r, after, w, rx[r], accepted[r] \o tx[r].items, received[r])
  BY <1>1, RingParts, PublishHeadOK
<1> HIDE DEF after, w
<1>5. RingMoves(r, after, w, rx[r], accepted[r] \o tx[r].items, received[r])
  BY <1>1, <1>2, <1>3, RingParts DEF RingMoves
<1> QED BY <1>4, <1>5, RingFrame

LEMMA FittingFits ==
    ASSUME RingInv, NEW r \in Rings, tx[r].at = "write"
    PROVE  /\ Fitting(r) \in Seq(Nat) /\ rings[r].head + Len(Fitting(r)) - tx[r].tail <= RingSize
           /\ Sharded(r, Fitting(r))
<1> DEFINE all == tx[r].items
           room == FreeSlots(rings[r].head, tx[r].tail)
           n == IF Len(all) < room THEN Len(all) ELSE room
<1>1. /\ rings[r].head \in Nat /\ tx[r].tail \in Nat /\ RingSize \in Nat
      /\ all \in Seq(Nat) /\ Len(all) \in Nat
  BY RingParts, RingSizeIs DEF RingType, TxType
<1>2. rings[r].head - tx[r].tail <= RingSize /\ Sharded(r, all)
  BY RingParts DEF RingOK, Writing
<1>3. room \in Nat /\ rings[r].head + room - tx[r].tail = RingSize
  BY <1>1, <1>2 DEF FreeSlots
<1> HIDE DEF room
<1>4. n \in Nat /\ n <= Len(all) /\ n <= room
  BY <1>1, <1>3
<1>5. Fitting(r) = SubSeq(all, 1, n)
  BY DEF Fitting, room
<1> HIDE DEF n, all
<1>6. /\ SubSeq(all, 1, n) \in Seq(Nat) /\ Len(SubSeq(all, 1, n)) = n
      /\ \A i \in 1 .. n : SubSeq(all, 1, n)[i] = all[i]
  <2>1. \A i \in 1 .. n : all[i] \in Nat
    BY <1>1, <1>4
  <2>2. 1 \in Int /\ n \in Int /\ n - 1 + 1 = n /\ (\A i \in 1 .. n : 1 + i - 1 = i) /\ (1 <= n \/ n = 0)
    BY <1>4
  <2> QED BY <2>1, <2>2, SubSeqProperties
<1>7. rings[r].head + n - tx[r].tail <= RingSize
  BY <1>1, <1>3, <1>4
<1>8. Sharded(r, SubSeq(all, 1, n))
  <2>1. \A i \in 1 .. n : i \in 1 .. Len(all)
    BY <1>1, <1>4
  <2> QED BY <1>2, <1>6, <2>1 DEF Sharded
<1> QED BY <1>5, <1>6, <1>7, <1>8

LEMMA WriteSlotsKeeps ==
    ASSUME RingInv, NEW r \in Rings, write_slots(r)
    PROVE  RingInv'
<1> DEFINE items == Fitting(r)
           head == rings[r].head
           new == [i \in 0 .. RingSize - 1 |->
                IF \E k \in DOMAIN items : (head + k - 1) % RingSize = i
                THEN items[CHOOSE k \in DOMAIN items : (head + k - 1) % RingSize = i] ELSE rings[r].slots[i]]
           after == [rings[r] EXCEPT !.slots = new]
           w == [tx[r] EXCEPT !.at = "publish", !.items = items]
<1>1. /\ tx[r].at = "write"
      /\ rings' = [rings EXCEPT ![r].slots = [i \in DOMAIN @ |->
                IF \E k \in DOMAIN items : (head + k - 1) % RingSize = i
                THEN items[CHOOSE k \in DOMAIN items : (head + k - 1) % RingSize = i] ELSE @[i]]]
      /\ tx' = [tx EXCEPT ![r].at = "publish", ![r].items = items]
      /\ UNCHANGED <<rx, accepted, received>>
  BY DEF write_slots
<1>2. rings' = [rings EXCEPT ![r] = after]
  <2>1. rings[r] \in RingType
    BY RingParts
  <2>2. DOMAIN rings[r].slots = 0 .. RingSize - 1
    BY <2>1 DEF RingType
  <2> HIDE DEF items
  <2> QED BY <1>1, <2>2
<1>3. tx' = [tx EXCEPT ![r] = w]
  <2>1. tx \in [Rings -> TxType]
    BY DEF RingInv
  <2> HIDE DEF items
  <2> QED BY ONLY <1>1, <2>1, r \in Rings DEF w
<1>4. items \in Seq(Nat) /\ head + Len(items) - tx[r].tail <= RingSize /\ Sharded(r, items)
  BY <1>1, FittingFits
<1> HIDE DEF items
<1>5. RingOK(r, after, w, rx[r], accepted[r], received[r])
  BY <1>1, <1>4, RingParts, WriteSlotsOK
<1> HIDE DEF after, w
<1>6. RingMoves(r, after, w, rx[r], accepted[r], received[r])
  BY <1>1, <1>2, <1>3, RingParts DEF RingMoves
<1> QED BY <1>5, <1>6, RingFrame

LEMMA RingKeeps == RingInv /\ [BurstNext \/ ShardNext]_ringVars => RingInv'
<1> SUFFICES ASSUME RingInv, [BurstNext \/ ShardNext]_ringVars PROVE RingInv'
  OBVIOUS
<1>1. CASE UNCHANGED ringVars
  <2>1. rings' = rings /\ tx' = tx /\ rx' = rx /\ accepted' = accepted /\ received' = received
    BY <1>1 DEF ringVars
  <2>2. PICK r : r \in Rings
    BY RingSizeIs DEF Rings
  <2>3. RingMoves(r, rings[r], tx[r], rx[r], accepted[r], received[r])
    BY <2>1, <2>2, RingParts DEF RingMoves
  <2> QED BY <2>2, <2>3, RingParts, RingFrame
<1>2. ASSUME NEW r \in Rings, Moves(r) PROVE RingInv'
  BY <1>2, WriteSlotsKeeps, PublishHeadKeeps, ReadSlotsKeeps, PublishTailKeeps DEF Moves
<1>3. NetRing \in Rings
  BY RingSizeIs DEF NetRing, Rings
<1>4. ASSUME NEW count \in Bursts, burst_enqueue(count) PROVE RingInv'
  <2> DEFINE items == [i \in 1 .. count |-> Len(accepted[NetRing]) + i]
  <2>1. count \in Nat /\ Len(accepted[NetRing]) \in Nat
    BY <1>3, RingParts, BuffersAssumption
  <2>2. items \in [1 .. count -> Nat]
    BY <2>1
  <2>3. items \in Seq(Nat)
    BY <2>1, <2>2, SequenceOver
  <2>4. Begin(NetRing, items)
    BY <1>4 DEF burst_enqueue
  <2> HIDE DEF items
  <2> QED BY <1>3, <2>3, <2>4, BeginKeeps DEF Sharded
<1>5. ASSUME NEW count \in Bursts, burst_dequeue(count) PROVE RingInv'
  <2>1. count \in Nat
    BY BuffersAssumption
  <2> QED BY <1>3, <1>5, <2>1, BeginReadKeeps DEF burst_dequeue
<1>6. ASSUME NEW symbol \in ShardSymbols, dispatch(symbol) PROVE RingInv'
  <2> DEFINE r == get_shard_index(symbol)
  <2>1. symbol \in Nat
    BY BuffersAssumption
  <2>2. r \in Rings
    <3>1. symbol % NumShards \in 0 .. NumShards - 1
      BY <2>1, RingSizeIs, PlaceIn
    <3> QED BY <3>1, RingSizeIs DEF get_shard_index, Rings
  <2>3. <<symbol>> \in Seq(Nat) /\ Len(<<symbol>>) = 1 /\ <<symbol>>[1] = symbol
    BY <2>1
  <2>4. Sharded(r, <<symbol>>)
    BY <2>3 DEF Sharded
  <2>5. Begin(r, <<symbol>>)
    BY <1>6 DEF dispatch
  <2> HIDE DEF r
  <2> QED BY <2>2, <2>3, <2>4, <2>5, BeginKeeps
<1>7. ASSUME NEW r \in Rings \ {NetRing}, poll_shard(r) PROVE RingInv'
  BY <1>7, BeginReadKeeps DEF poll_shard
<1> QED BY <1>1, <1>2, <1>3, <1>4, <1>5, <1>6, <1>7 DEF BurstNext, ShardNext

LEMMA RingStarts == RingsInit => RingInv
<1> SUFFICES ASSUME RingsInit PROVE RingInv
  OBVIOUS
<1> DEFINE w == [at |-> "idle", tail |-> 0, items |-> <<>>]
           x == [at |-> "idle", head |-> 0, want |-> 0]
<1>1. /\ rings = [r \in Rings |-> EmptyRing] /\ tx = [r \in Rings |-> w] /\ rx = [r \in Rings |-> x]
      /\ accepted = [r \in Rings |-> <<>>] /\ received = [r \in Rings |-> <<>>]
  BY DEF RingsInit
<1>2. /\ EmptyRing \in RingType /\ EmptyRing.head = 0 /\ EmptyRing.tail = 0
      /\ w \in TxType /\ w.at = "idle" /\ w.items = <<>> /\ x \in RxType /\ x.at = "idle"
      /\ <<>> \in Seq(Nat) /\ Len(<<>>) = 0 /\ RingSize \in Nat
  BY RingSizeIs DEF EmptyRing, RingType, TxType, RxType
<1> HIDE DEF w, x
<1>3. ASSUME NEW r \in Rings PROVE RingOK(r, EmptyRing, w, x, <<>>, <<>>)
  <2>1. RingTypes(EmptyRing, w, x, <<>>, <<>>)
    BY <1>2 DEF RingTypes
  <2>2. Stored(EmptyRing, <<>>) /\ Writing(EmptyRing, w) /\ Reading(EmptyRing, x, <<>>, <<>>)
    BY <1>2 DEF Stored, Writing, Reading
  <2>3. Sharded(r, w.items) /\ Sharded(r, <<>>)
    BY <1>2 DEF Sharded
  <2> QED BY <2>1, <2>2, <2>3 DEF RingOK
<1>4. /\ rings \in [Rings -> RingType] /\ tx \in [Rings -> TxType] /\ rx \in [Rings -> RxType]
      /\ accepted \in [Rings -> Seq(Nat)] /\ received \in [Rings -> Seq(Nat)]
  BY <1>1, <1>2
<1>5. ASSUME NEW r \in Rings PROVE RingOK(r, rings[r], tx[r], rx[r], accepted[r], received[r])
  BY <1>1, <1>3
<1> QED BY <1>4, <1>5 DEF RingInv

LEMMA RingsDeliver == RingInv => RingsInOrder
<1> SUFFICES ASSUME RingInv, NEW r \in Rings
             PROVE  /\ IsPrefix(received[r], accepted[r])
                    /\ r # NetRing => \A i \in DOMAIN received[r] : get_shard_index(received[r][i]) = r
  BY DEF RingsInOrder
<1> DEFINE a == accepted[r]
           c == received[r]
<1>1. RingOK(r, rings[r], tx[r], rx[r], a, c) /\ a \in Seq(Nat) /\ c \in Seq(Nat)
  BY RingParts
<1>2. /\ Len(c) <= Len(a) /\ \A i \in 1 .. Len(c) : c[i] = a[i]
  BY <1>1 DEF RingOK, Stored, Reading
<1>3. r # NetRing => \A i \in 1 .. Len(a) : get_shard_index(a[i]) = r
  BY <1>1 DEF RingOK, Sharded
<1> HIDE DEF a, c
<1>4. Len(c) \in Nat /\ Len(a) \in Nat /\ DOMAIN c = 1 .. Len(c) /\ \A i \in 1 .. Len(c) : i \in 1 .. Len(a)
  BY <1>1, <1>2
<1>5. SubSeq(c, 1, Len(c)) = SubSeq(a, 1, Len(c))
  <2> DEFINE n == Len(c)
             s == SubSeq(c, 1, n)
             t == SubSeq(a, 1, n)
  <2>1. /\ \A i \in 1 .. n : c[i] \in Nat /\ a[i] \in Nat
        /\ 1 \in Int /\ n \in Int /\ n - 1 + 1 = n /\ (\A i \in 1 .. n : 1 + i - 1 = i) /\ (1 <= n \/ n = 0)
    BY <1>1, <1>4
  <2>2. s \in Seq(Nat) /\ Len(s) = n /\ \A i \in 1 .. n : s[i] = c[i]
    <3> HIDE DEF n
    <3> QED BY <2>1, SubSeqProperties
  <2>3. t \in Seq(Nat) /\ Len(t) = n /\ \A i \in 1 .. n : t[i] = a[i]
    <3> HIDE DEF n
    <3> QED BY <2>1, SubSeqProperties
  <2> HIDE DEF s, t, n
  <2>4. \A i \in 1 .. n : s[i] = t[i]
    BY <1>2, <2>2, <2>3 DEF n
  <2>5. s = t
    BY <2>2, <2>3, <2>4, SeqEqual
  <2> QED BY <2>5 DEF s, t, n
<1>6. IsPrefix(c, a)
  BY <1>2, <1>5 DEF IsPrefix
<1>7. r # NetRing => \A i \in DOMAIN c : get_shard_index(c[i]) = r
  BY <1>2, <1>3, <1>4
<1> QED BY <1>6, <1>7 DEF a, c

\* ZeroCopyPacketRing and the shards' rings, for every ring size, every burst and
\* every interleaving of the two sides: each consumer gets what its ring accepted,
\* in that order, and a shard only the orders of its own symbols.
THEOREM RingsKeepOrder == Spec => []RingsInOrder
<1>1. Init => RingInv
  BY RingStarts DEF Init, BuffersInit
<1>2. RingInv /\ [Next]_vars => RingInv'
  BY RingSteps, RingKeeps
<1> QED BY <1>1, <1>2, RingsDeliver, PTL DEF Spec

-----------------------------------------------------------------------------
(***************************************************************************)
(* The block pool.  The free list is a list L of distinct blocks; a thread *)
(* whose tag is the head's has the head itself, and then the successor it  *)
(* read still is the head's.                                               *)
(***************************************************************************)
LEMMA PoolSteps == [Next]_vars => [PoolNext]_poolVars
BY DEF vars, Next, Reads, Shares, bufferVars, poolVars

Indices == 0 .. PoolCapacity
HeadType == [index : Indices, tag : Nat]
PoolType == [head : HeadType, freelist : [Blocks -> Indices]]
CallerType == [at : {"idle", "pop", "pop_swap", "push", "push_swap"}, old : HeadType, next : Indices, idx : Indices]

\* L lists n distinct blocks, from the head on.
FreeList(p, n, L) ==
    /\ L \in [1 .. n -> Blocks] /\ n \in Nat
    /\ \A i, j \in 1 .. n : i # j => L[i] # L[j]
    /\ p.head.index = IF n = 0 THEN kInvalidIndex ELSE L[1]
    /\ \A i \in 1 .. n : p.freelist[L[i]] = IF i = n THEN kInvalidIndex ELSE L[i + 1]

\* The block thread c is giving back, and all that it holds.
Returned(c) == IF c.at \in {"push", "push_swap"} THEN {c.idx} ELSE {}
Holds(c, mine) == mine \cup Returned(c)

\* Every block is free or held, and in one place only.
Parted(free, C, O) ==
    /\ \A b \in Blocks : b \in free \/ \E t \in PoolThreads : b \in Holds(C[t], O[t])
    /\ \A t \in PoolThreads : /\ Holds(C[t], O[t]) \subseteq Blocks /\ Holds(C[t], O[t]) \cap free = {}
                              /\ Returned(C[t]) \cap O[t] = {}
    /\ \A t, u \in PoolThreads : t # u => Holds(C[t], O[t]) \cap Holds(C[u], O[u]) = {}

ThreadOK(p, c) ==
    /\ c.old.tag <= p.head.tag
    /\ c.old.tag = p.head.tag => c.old = p.head
    /\ c.at = "pop_swap" =>
          c.old.index \in Blocks /\ (c.old.tag = p.head.tag => c.next = p.freelist[c.old.index])
    /\ c.at = "push_swap" => p.freelist[c.idx] = c.old.index

PoolTypes ==
    /\ pool \in PoolType /\ caller \in [PoolThreads -> CallerType]
    /\ owned \in [PoolThreads -> SUBSET Blocks]

Elements(n, L) == {L[i] : i \in 1 .. n}

PoolInv ==
    /\ PoolTypes
    /\ \A t \in PoolThreads : ThreadOK(pool, caller[t])
    /\ \E n, L : FreeList(pool, n, L) /\ Parted(Elements(n, L), caller, owned)

LEMMA PoolNumbers ==
    /\ PoolCapacity \in Nat \ {0} /\ kInvalidIndex = PoolCapacity /\ kInvalidIndex \notin Blocks
    /\ Blocks = 0 .. PoolCapacity - 1 /\ Blocks \subseteq Indices /\ kInvalidIndex \in Indices
    /\ \A i \in Indices : i # kInvalidIndex => i \in Blocks
BY BuffersAssumption DEF kInvalidIndex, Blocks, Indices

\* No list of distinct blocks is longer than the pool.
LEMMA ListFits ==
    ASSUME NEW p, NEW n, NEW L, FreeList(p, n, L)
    PROVE  n <= PoolCapacity
<1> SUFFICES ASSUME ~(n <= PoolCapacity) PROVE FALSE
  OBVIOUS
<1>1. n \in Nat /\ L \in [1 .. n -> Blocks] /\ \A i, j \in 1 .. n : i # j => L[i] # L[j]
  BY DEF FreeList
<1>2. IsFiniteSet(1 .. n) /\ Cardinality(1 .. n) = n
  <2>1. 1 \in Int /\ n \in Int /\ (1 > n => n = 0) /\ n = n - 1 + 1
    BY <1>1
  <2>2. IsFiniteSet(1 .. n) /\ Cardinality(1 .. n) = IF 1 > n THEN 0 ELSE n - 1 + 1
    BY ONLY <2>1, FS_Interval
  <2> QED BY ONLY <2>1, <2>2
<1>3. IsFiniteSet(Blocks) /\ Cardinality(Blocks) = PoolCapacity
  <2>1. 0 \in Int /\ PoolCapacity - 1 \in Int /\ ~(0 > PoolCapacity - 1) /\ PoolCapacity = (PoolCapacity - 1) - 0 + 1
    BY PoolNumbers
  <2>2. /\ IsFiniteSet(0 .. PoolCapacity - 1)
        /\ Cardinality(0 .. PoolCapacity - 1) = IF 0 > PoolCapacity - 1 THEN 0 ELSE (PoolCapacity - 1) - 0 + 1
    BY ONLY <2>1, FS_Interval
  <2> QED BY <2>1, <2>2, PoolNumbers
<1>4. Cardinality(Blocks) < Cardinality(1 .. n)
  BY <1>1, <1>2, <1>3, PoolNumbers
<1>5. \E x, y \in 1 .. n : x # y /\ L[x] = L[y]
  BY ONLY <1>1, <1>2, <1>3, <1>4, FS_PigeonHole
<1> QED BY <1>1, <1>5

\* The list is what NthFree walks.
LEMMA ListIsWalked ==
    ASSUME NEW n, NEW L, FreeList(pool, n, L)
    PROVE  \A k \in 0 .. PoolCapacity : NthFree[k] = IF k < n THEN L[k + 1] ELSE kInvalidIndex
<1> DEFINE body(g) == [k \in 0 .. PoolCapacity |->
                          IF k = 0 THEN pool.head.index
                          ELSE IF g[k - 1] = kInvalidIndex THEN kInvalidIndex ELSE pool.freelist[g[k - 1]]]
           f == [k \in 0 .. PoolCapacity |-> IF k < n THEN L[k + 1] ELSE kInvalidIndex]
           N == NthFree
<1>1. /\ n \in Nat /\ L \in [1 .. n -> Blocks] /\ n <= PoolCapacity /\ PoolCapacity \in Nat \ {0}
      /\ pool.head.index = (IF n = 0 THEN kInvalidIndex ELSE L[1])
      /\ \A i \in 1 .. n : pool.freelist[L[i]] = IF i = n THEN kInvalidIndex ELSE L[i + 1]
  <2>1. n <= PoolCapacity
    BY ListFits
  <2> QED BY <2>1, PoolNumbers DEF FreeList
<1>2. f = body(f)
  <2>1. ASSUME NEW k \in 0 .. PoolCapacity PROVE f[k] = body(f)[k]
    <3>1. CASE k = 0
      BY <1>1, <3>1
    <3>2. CASE k # 0 /\ k - 1 < n
      <4>1. k \in 1 .. n /\ k - 1 \in 0 .. PoolCapacity /\ (k - 1) + 1 = k
        BY <1>1, <3>2
      <4>2. f[k - 1] = L[k] /\ L[k] \in Blocks /\ L[k] # kInvalidIndex
        BY <1>1, <3>2, <4>1, PoolNumbers
      <4>3. body(f)[k] = pool.freelist[L[k]]
        <5> HIDE DEF f
        <5> QED BY <3>2, <4>2
      <4>4. k < n <=> k # n
        BY <1>1, <4>1
      <4> QED BY <1>1, <4>1, <4>3, <4>4
    <3>3. CASE k # 0 /\ ~(k - 1 < n)
      <4>1. k - 1 \in 0 .. PoolCapacity /\ ~(k < n)
        BY <1>1, <3>3
      <4>2. f[k - 1] = kInvalidIndex /\ f[k] = kInvalidIndex
        BY <3>3, <4>1
      <4>3. body(f)[k] = kInvalidIndex
        <5> HIDE DEF f
        <5> QED BY <3>3, <4>2
      <4> QED BY <4>2, <4>3
    <3> QED BY <3>1, <3>2, <3>3
  <2> QED BY <2>1
<1>3. N = CHOOSE g : g = body(g)
  BY DEF NthFree
<1>4. N = body(N)
  <2> HIDE DEF body, N, f
  <2> QED BY <1>2, <1>3
<1> HIDE DEF N
<1>5. /\ N[0] = pool.head.index
      /\ \A k \in 1 .. PoolCapacity :
            N[k] = IF N[k - 1] = kInvalidIndex THEN kInvalidIndex ELSE pool.freelist[N[k - 1]]
  <2>1. 0 \in 0 .. PoolCapacity /\ \A k \in 1 .. PoolCapacity : k \in 0 .. PoolCapacity /\ k # 0
    BY <1>1
  <2> QED BY <1>4, <2>1
<1> DEFINE S == {k \in Nat : k <= PoolCapacity => N[k] = f[k]}
<1>6. 0 \in S
  BY <1>1, <1>5
<1>7. ASSUME NEW k \in Nat, k \in S PROVE k + 1 \in S
  <2> SUFFICES ASSUME k + 1 <= PoolCapacity PROVE N[k + 1] = f[k + 1]
    OBVIOUS
  <2>1. k + 1 \in 1 .. PoolCapacity /\ (k + 1) - 1 = k /\ N[k] = f[k] /\ k + 1 \in 0 .. PoolCapacity /\ k + 1 # 0
    BY <1>1, <1>7
  <2>2. N[k + 1] = IF f[k] = kInvalidIndex THEN kInvalidIndex ELSE pool.freelist[f[k]]
    BY ONLY <1>5, <2>1
  <2>3. f[k + 1] = IF f[k] = kInvalidIndex THEN kInvalidIndex ELSE pool.freelist[f[k]]
    <3> HIDE DEF f
    <3> QED BY <1>2, <2>1
  <2> QED BY ONLY <2>2, <2>3
<1>8. \A k \in Nat : k \in S
  <2> HIDE DEF S
  <2> QED BY <1>6, <1>7, NatSetInduction
<1>9. ASSUME NEW k \in 0 .. PoolCapacity PROVE N[k] = f[k]
  <2>1. k \in Nat /\ k <= PoolCapacity
    BY <1>1
  <2> HIDE DEF f
  <2> QED BY ONLY <1>8, <2>1 DEF S
<1> QED BY <1>9 DEF N

LEMMA PoolKeepsBlocks == PoolInv => BlocksOwnedOnce
<1> SUFFICES ASSUME PoolInv PROVE BlocksOwnedOnce
  OBVIOUS
<1>1. PICK n, L : FreeList(pool, n, L) /\ Parted(Elements(n, L), caller, owned)
  BY DEF PoolInv
<1> DEFINE free == {NthFree[k] : k \in 0 .. PoolCapacity} \ {kInvalidIndex}
           held == [t \in PoolThreads |-> owned[t] \cup Returning(t)]
           F == Elements(n, L)
<1>2. \A k \in 0 .. PoolCapacity : NthFree[k] = IF k < n THEN L[k + 1] ELSE kInvalidIndex
  BY <1>1, ListIsWalked
<1>3. n \in Nat /\ n <= PoolCapacity /\ L \in [1 .. n -> Blocks] /\ PoolCapacity \in Nat \ {0}
  <2>1. n <= PoolCapacity
    BY <1>1, ListFits
  <2> QED BY <1>1, <2>1, PoolNumbers DEF FreeList
<1>4. NthFree[PoolCapacity] = kInvalidIndex
  <2>1. PoolCapacity \in 0 .. PoolCapacity /\ ~(PoolCapacity < n)
    BY <1>3
  <2> QED BY <1>2, <2>1
<1>5. free = F
  <2>1. ASSUME NEW b \in F PROVE b \in free
    <3>1. PICK i \in 1 .. n : b = L[i]
      BY DEF Elements
    <3>2. i - 1 \in 0 .. PoolCapacity /\ i - 1 < n /\ (i - 1) + 1 = i
      BY <1>3
    <3>3. NthFree[i - 1] = L[i] /\ L[i] # kInvalidIndex
      BY <1>2, <1>3, <3>2, PoolNumbers
    <3> QED BY <3>1, <3>2, <3>3
  <2>2. ASSUME NEW k \in 0 .. PoolCapacity, NthFree[k] # kInvalidIndex PROVE NthFree[k] \in F
    <3>1. k < n /\ NthFree[k] = L[k + 1]
      BY <1>2, <2>2
    <3>2. k + 1 \in 1 .. n
      BY <1>3, <3>1
    <3> QED BY <3>1, <3>2 DEF Elements
  <2> QED BY <2>1, <2>2
<1> HIDE DEF free, F
<1>6. \A t \in PoolThreads : Returning(t) = Returned(caller[t]) /\ held[t] = Holds(caller[t], owned[t])
  BY DEF Returning, Returned, Holds
<1>7. F \subseteq Blocks /\ Parted(F, caller, owned)
  BY <1>1, <1>3 DEF Elements, F
<1> HIDE DEF held
<1>8. F \cup UNION {held[t] : t \in PoolThreads} = Blocks
  BY <1>6, <1>7 DEF Parted
<1>9. ASSUME NEW t \in PoolThreads
      PROVE  /\ held[t] \cap F = {} /\ Returning(t) \cap owned[t] = {}
             /\ \A u \in PoolThreads \ {t} : held[t] \cap held[u] = {}
  BY <1>6, <1>7 DEF Parted
<1> QED BY <1>4, <1>5, <1>8, <1>9 DEF BlocksOwnedOnce, free, held

LEMMA PoolStarts == PoolInit => PoolInv
<1> SUFFICES ASSUME PoolInit PROVE PoolInv
  OBVIOUS
<1> DEFINE c == [at |-> "idle", old |-> [index |-> 0, tag |-> 0], next |-> 0, idx |-> 0]
           n == PoolCapacity
           L == [i \in 1 .. n |-> i - 1]
<1>1. /\ pool = [head |-> [index |-> 0, tag |-> 0], freelist |-> [i \in Blocks |-> i + 1]]
      /\ caller = [t \in PoolThreads |-> c] /\ owned = [t \in PoolThreads |-> {}]
  BY DEF PoolInit
<1>2. n \in Nat \ {0} /\ 0 \in Indices /\ \A i \in Blocks : i + 1 \in Indices
  BY PoolNumbers DEF Indices
<1>3. c \in CallerType /\ c.at = "idle" /\ c.old = [index |-> 0, tag |-> 0]
  BY <1>2 DEF CallerType, HeadType
<1>4. /\ pool \in PoolType /\ pool.head = [index |-> 0, tag |-> 0]
      /\ \A i \in Blocks : pool.freelist[i] = i + 1
  BY <1>1, <1>2 DEF PoolType, HeadType
<1> HIDE DEF c
<1>5. PoolTypes
  BY <1>1, <1>3, <1>4 DEF PoolTypes
<1>6. ASSUME NEW t \in PoolThreads PROVE ThreadOK(pool, caller[t])
  <2>1. caller[t] = c
    BY <1>1
  <2> QED BY <1>3, <1>4, <2>1 DEF ThreadOK
<1>7. FreeList(pool, n, L)
  <2>1. L \in [1 .. n -> Blocks] /\ L[1] = 0 /\ \A i \in 1 .. n : L[i] = i - 1
    BY <1>2, PoolNumbers
  <2>2. \A i, j \in 1 .. n : i # j => L[i] # L[j]
    BY <1>2, <2>1
  <2>3. pool.head.index = IF n = 0 THEN kInvalidIndex ELSE L[1]
    BY <1>2, <1>4, <2>1
  <2>4. ASSUME NEW i \in 1 .. n PROVE pool.freelist[L[i]] = IF i = n THEN kInvalidIndex ELSE L[i + 1]
    <3>1. L[i] \in Blocks /\ L[i] = i - 1 /\ pool.freelist[L[i]] = L[i] + 1 /\ (i - 1) + 1 = i
      BY <1>2, <1>4, <2>1
    <3>2. i # n => i + 1 \in 1 .. n /\ L[i + 1] = i
      BY <1>2, <2>1
    <3> QED BY <3>1, <3>2, PoolNumbers
  <2> HIDE DEF L
  <2> QED BY <1>2, <2>1, <2>2, <2>3, <2>4 DEF FreeList
<1>8. Elements(n, L) = Blocks
  <2>1. \A b \in Blocks : b + 1 \in 1 .. n /\ L[b + 1] = b
    BY <1>2, PoolNumbers
  <2>2. \A i \in 1 .. n : L[i] \in Blocks
    BY <1>2, PoolNumbers
  <2> QED BY <2>1, <2>2 DEF Elements
<1>9. Parted(Blocks, caller, owned)
  <2>1. \A t \in PoolThreads : Holds(caller[t], owned[t]) = {} /\ Returned(caller[t]) = {}
    BY <1>1, <1>3 DEF Holds, Returned
  <2> QED BY <2>1 DEF Parted
<1> QED BY <1>5, <1>6, <1>7, <1>8, <1>9 DEF PoolInv

\* A step of thread t that leaves the pool and what the thread holds alone.
LEMMA ThreadMoves ==
    ASSUME PoolInv, NEW t \in PoolThreads, NEW c \in CallerType, pool' = pool,
           NEW mine \in SUBSET Blocks, owned' = [owned EXCEPT ![t] = mine],
           caller' = [caller EXCEPT ![t] = c], ThreadOK(pool, c),
           Holds(c, mine) = Holds(caller[t], owned[t]), Returned(c) \cap mine = {}
    PROVE  PoolInv'
<1>1. caller \in [PoolThreads -> CallerType] /\ owned \in [PoolThreads -> SUBSET Blocks] /\ pool \in PoolType
  BY DEF PoolInv, PoolTypes
<1>2. PoolTypes'
  BY <1>1 DEF PoolTypes
<1>3. /\ caller'[t] = c /\ owned'[t] = mine
      /\ \A u \in PoolThreads \ {t} : caller'[u] = caller[u] /\ owned'[u] = owned[u]
  BY <1>1
<1>4. \A u \in PoolThreads : ThreadOK(pool', caller'[u])
  BY <1>3 DEF PoolInv
<1>5. PICK n, L : FreeList(pool, n, L) /\ Parted(Elements(n, L), caller, owned)
  BY DEF PoolInv
<1>6. \A u \in PoolThreads : Holds(caller'[u], owned'[u]) = Holds(caller[u], owned[u])
                             /\ Returned(caller'[u]) \cap owned'[u] = {}
  <2>1. \A u \in PoolThreads : Returned(caller[u]) \cap owned[u] = {}
    BY <1>5 DEF Parted
  <2> QED BY <1>3, <2>1
<1>7. Parted(Elements(n, L), caller', owned')
  BY <1>5, <1>6 DEF Parted
<1>8. FreeList(pool', n, L)
  BY <1>5
<1> QED BY <1>2, <1>4, <1>7, <1>8 DEF PoolInv

\* What a thread that is not in a swap remembers can be replaced.
LEMMA LoadedOK ==
    ASSUME NEW p \in PoolType, NEW c \in CallerType, c.at \in {"idle", "pop", "push"},
           c.old = p.head \/ (c.old.tag <= p.head.tag /\ (c.old.tag = p.head.tag => c.old = p.head))
    PROVE  ThreadOK(p, c)
<1>1. p.head.tag \in Nat
  BY DEF PoolType, HeadType
<1>2. c.old.tag <= p.head.tag /\ (c.old.tag = p.head.tag => c.old = p.head)
  BY <1>1
<1> QED BY <1>2 DEF ThreadOK

LEMMA CallerParts ==
    ASSUME PoolInv, NEW t \in PoolThreads
    PROVE  /\ caller[t] \in CallerType /\ owned[t] \in SUBSET Blocks /\ pool \in PoolType
           /\ pool.head \in HeadType /\ pool.freelist \in [Blocks -> Indices] /\ pool.head.tag \in Nat
           /\ caller[t].old \in HeadType /\ caller[t].idx \in Indices /\ caller[t].next \in Indices
           /\ caller[t].old.index \in Indices /\ caller[t].old.tag \in Nat /\ pool.head.index \in Indices
           /\ ThreadOK(pool, caller[t]) /\ owned = [owned EXCEPT ![t] = owned[t]]
           /\ caller \in [PoolThreads -> CallerType] /\ owned \in [PoolThreads -> SUBSET Blocks]
           /\ Returned(caller[t]) \cap owned[t] = {}
<1>1. caller \in [PoolThreads -> CallerType] /\ owned \in [PoolThreads -> SUBSET Blocks] /\ pool \in PoolType
  BY DEF PoolInv, PoolTypes
<1>2. caller[t] \in CallerType /\ owned[t] \in SUBSET Blocks /\ owned = [owned EXCEPT ![t] = owned[t]]
  BY <1>1
<1>3. pool.head \in HeadType /\ pool.freelist \in [Blocks -> Indices] /\ pool.head.tag \in Nat /\ pool.head.index \in Indices
  BY <1>1 DEF PoolType, HeadType
<1>4. /\ caller[t].old \in HeadType /\ caller[t].idx \in Indices /\ caller[t].next \in Indices
      /\ caller[t].old.index \in Indices /\ caller[t].old.tag \in Nat
  BY <1>2 DEF CallerType, HeadType
<1>5. Returned(caller[t]) \cap owned[t] = {}
  BY DEF PoolInv, Parted
<1> QED BY <1>1, <1>2, <1>3, <1>4, <1>5 DEF PoolInv

LEMMA LoadKeeps ==
    ASSUME PoolInv, NEW t \in PoolThreads, NEW at \in {"pop", "push"}, Load(t, at),
           UNCHANGED <<pool, owned>>,
           at = "pop" => caller[t].at \in {"idle", "pop_swap"}, at = "push" => caller[t].at = "push_swap"
    PROVE  PoolInv'
<1> DEFINE c == [caller[t] EXCEPT !.at = at, !.old = pool.head]
<1>1. /\ caller[t] \in CallerType /\ pool.head \in HeadType /\ caller \in [PoolThreads -> CallerType]
      /\ owned' = [owned EXCEPT ![t] = owned[t]] /\ owned[t] \in SUBSET Blocks /\ pool' = pool /\ pool \in PoolType
  BY CallerParts
<1>2. caller' = [caller EXCEPT ![t] = c]
  BY <1>1 DEF Load
<1>3. c \in CallerType /\ c.at = at /\ c.old = pool.head /\ c.idx = caller[t].idx
  BY <1>1 DEF CallerType
<1> HIDE DEF c
<1>4. ThreadOK(pool, c)
  BY <1>1, <1>3, LoadedOK
<1>5. Returned(c) = Returned(caller[t])
  BY <1>3 DEF Returned
<1>6. Holds(c, owned[t]) = Holds(caller[t], owned[t]) /\ Returned(c) \cap owned[t] = {}
  BY <1>5, CallerParts DEF Holds
<1> QED BY <1>1, <1>2, <1>3, <1>4, <1>6, ThreadMoves

LEMMA ReadNextKeeps ==
    ASSUME PoolInv, NEW t \in PoolThreads, read_next(t)
    PROVE  PoolInv'
<1>1. /\ caller[t] \in CallerType /\ caller \in [PoolThreads -> CallerType] /\ caller[t].at = "pop"
      /\ owned' = [owned EXCEPT ![t] = owned[t]] /\ owned[t] \in SUBSET Blocks /\ pool' = pool /\ pool \in PoolType
      /\ pool.freelist \in [Blocks -> Indices] /\ caller[t].old.index \in Indices /\ ThreadOK(pool, caller[t])
  BY CallerParts DEF read_next
<1>2. ASSUME NEW c \in CallerType, caller' = [caller EXCEPT ![t] = c], ThreadOK(pool, c), c.at \in {"idle", "pop_swap"}
      PROVE  PoolInv'
  <2>1. Returned(c) = {} /\ Returned(caller[t]) = {}
    BY <1>1, <1>2 DEF Returned
  <2>2. Holds(c, owned[t]) = Holds(caller[t], owned[t]) /\ Returned(c) \cap owned[t] = {}
    BY <2>1 DEF Holds
  <2> QED BY <1>1, <1>2, <2>2, ThreadMoves
<1>3. CASE caller[t].old.index = kInvalidIndex
  <2> DEFINE c == [caller[t] EXCEPT !.at = "idle"]
  <2>1. caller' = [caller EXCEPT ![t] = c]
    BY <1>1, <1>3 DEF read_next, Leave
  <2>2. c \in CallerType /\ c.at = "idle" /\ c.old = caller[t].old
    BY <1>1 DEF CallerType
  <2> HIDE DEF c
  <2>3. ThreadOK(pool, c)
    BY <1>1, <2>2, LoadedOK DEF ThreadOK
  <2> QED BY <1>2, <2>1, <2>2, <2>3
<1>4. CASE caller[t].old.index # kInvalidIndex
  <2> DEFINE k == caller[t].old.index
             v == pool.freelist[k]
             c == [caller[t] EXCEPT !.at = "pop_swap", !.next = v]
  <2>1. k \in Blocks /\ v \in Indices
    BY <1>1, <1>4, PoolNumbers
  <2>2. caller' = [caller EXCEPT ![t] = c]
    BY <1>1, <1>4 DEF read_next
  <2>3. c \in CallerType /\ c.at = "pop_swap" /\ c.old = caller[t].old /\ c.next = v
    <3> HIDE DEF v
    <3> QED BY <1>1, <2>1 DEF CallerType
  <2> HIDE DEF c
  <2>4. ThreadOK(pool, c)
    BY <1>1, <2>1, <2>3 DEF ThreadOK
  <2> QED BY <1>2, <2>2, <2>3, <2>4
<1> QED BY <1>3, <1>4

LEMMA DeallocateKeeps ==
    ASSUME PoolInv, NEW t \in PoolThreads, NEW block \in owned[t], deallocate(t, block)
    PROVE  PoolInv'
<1> DEFINE c == [caller[t] EXCEPT !.at = "push", !.old = pool.head, !.idx = block]
           mine == owned[t] \ {block}
<1>1. /\ caller[t] \in CallerType /\ caller \in [PoolThreads -> CallerType] /\ caller[t].at = "idle"
      /\ owned \in [PoolThreads -> SUBSET Blocks] /\ owned[t] \in SUBSET Blocks /\ pool' = pool /\ pool \in PoolType
      /\ pool.head \in HeadType
  BY CallerParts DEF deallocate
<1>2. owned' = [owned EXCEPT ![t] = mine] /\ mine \in SUBSET Blocks /\ block \in Indices
  BY <1>1, PoolNumbers DEF deallocate
<1>3. caller' = [caller EXCEPT ![t] = c]
  BY <1>1 DEF deallocate
<1>4. c \in CallerType /\ c.at = "push" /\ c.old = pool.head /\ c.idx = block
  BY <1>1, <1>2 DEF CallerType
<1> HIDE DEF c
<1>5. ThreadOK(pool, c)
  BY <1>1, <1>4, LoadedOK
<1>6. Returned(c) = {block} /\ Returned(caller[t]) = {}
  BY <1>1, <1>4 DEF Returned
<1>7. Holds(c, mine) = Holds(caller[t], owned[t]) /\ Returned(c) \cap mine = {}
  BY <1>6 DEF Holds
<1> HIDE DEF mine
<1> QED BY <1>1, <1>2, <1>3, <1>4, <1>5, <1>7, ThreadMoves

\* The block linked is held by this thread, so no list and no other thread sees it.
LEMMA LinkKeeps ==
    ASSUME PoolInv, NEW t \in PoolThreads, link_block(t)
    PROVE  PoolInv'
<1> DEFINE k == caller[t].idx
           v == caller[t].old.index
           c == [caller[t] EXCEPT !.at = "push_swap"]
           fl == [pool.freelist EXCEPT ![k] = v]
<1>1. /\ caller[t] \in CallerType /\ caller \in [PoolThreads -> CallerType] /\ caller[t].at = "push"
      /\ owned' = owned /\ owned \in [PoolThreads -> SUBSET Blocks] /\ pool \in PoolType
      /\ pool.freelist \in [Blocks -> Indices] /\ v \in Indices /\ ThreadOK(pool, caller[t])
      /\ pool.head \in HeadType
      /\ pool' = [pool EXCEPT !.freelist[k] = v] /\ caller' = [caller EXCEPT ![t].at = "push_swap"]
  BY CallerParts DEF link_block
<1>2. PICK n, L : FreeList(pool, n, L) /\ Parted(Elements(n, L), caller, owned)
  BY DEF PoolInv
<1>3. /\ k \in Returned(caller[t]) /\ k \in Holds(caller[t], owned[t]) /\ k \in Blocks
      /\ k \notin Elements(n, L)
      /\ \A u \in PoolThreads \ {t} : k \notin Holds(caller[u], owned[u])
  <2>1. k \in Returned(caller[t]) /\ k \in Holds(caller[t], owned[t])
    BY <1>1 DEF Returned, Holds
  <2> HIDE DEF k
  <2> QED BY <1>2, <2>1 DEF Parted
<1>4. /\ pool' \in PoolType /\ pool'.head = pool.head /\ pool'.freelist = fl
      /\ fl \in [Blocks -> Indices] /\ fl[k] = v /\ \A b \in Blocks \ {k} : fl[b] = pool.freelist[b]
  <2>1. fl \in [Blocks -> Indices] /\ fl[k] = v /\ \A b \in Blocks \ {k} : fl[b] = pool.freelist[b]
    BY <1>1, <1>3
  <2>2. pool' = [pool EXCEPT !.freelist = fl]
    BY <1>1 DEF PoolType
  <2> HIDE DEF fl
  <2> QED BY <1>1, <2>1, <2>2 DEF PoolType
<1>5. caller' = [caller EXCEPT ![t] = c]
  BY <1>1
<1>6. c \in CallerType /\ c.at = "push_swap" /\ c.old = caller[t].old /\ c.idx = k
  BY <1>1 DEF CallerType
<1> HIDE DEF c, fl
<1>7. PoolTypes'
  BY <1>1, <1>4, <1>5, <1>6 DEF PoolTypes
<1>8. caller'[t] = c /\ \A u \in PoolThreads \ {t} : caller'[u] = caller[u]
  BY <1>1, <1>5
<1>9. FreeList(pool', n, L)
  <2>1. /\ L \in [1 .. n -> Blocks] /\ n \in Nat
        /\ \A i \in 1 .. n : pool.freelist[L[i]] = IF i = n THEN kInvalidIndex ELSE L[i + 1]
    BY <1>2 DEF FreeList
  <2>2. \A i \in 1 .. n : L[i] # k /\ L[i] \in Blocks
    BY <1>3, <2>1 DEF Elements
  <2>3. \A i \in 1 .. n : pool'.freelist[L[i]] = IF i = n THEN kInvalidIndex ELSE L[i + 1]
    <3> HIDE DEF k
    <3> QED BY <1>4, <2>1, <2>2
  <2> QED BY <1>2, <1>4, <2>3 DEF FreeList
<1>10. Parted(Elements(n, L), caller', owned')
  <2>1. Returned(c) = Returned(caller[t])
    BY <1>1, <1>6 DEF Returned
  <2>2. \A u \in PoolThreads : Returned(caller'[u]) = Returned(caller[u]) /\ Holds(caller'[u], owned'[u]) = Holds(caller[u], owned[u])
    BY <1>1, <1>8, <2>1 DEF Holds
  <2> QED BY <1>1, <1>2, <2>2 DEF Parted
<1>11. ASSUME NEW u \in PoolThreads PROVE ThreadOK(pool', caller'[u])
  <2>1. CASE u = t
    BY <1>1, <1>4, <1>6, <1>8, <2>1 DEF ThreadOK
  <2>2. CASE u # t
    <3> DEFINE d == caller[u]
    <3>1. caller'[u] = d /\ ThreadOK(pool, d)
      BY <1>8, <2>2, CallerParts
    <3>2. d.at = "push_swap" => d.idx # k /\ d.idx \in Blocks
      <4>1. d.at = "push_swap" => d.idx \in Holds(d, owned[u])
        BY DEF Holds, Returned
      <4> QED BY <1>2, <1>3, <2>2, <4>1 DEF Parted
    <3>3. d.at = "pop_swap" /\ d.old.tag = pool.head.tag => d.old.index # k
      <4> SUFFICES ASSUME d.at = "pop_swap", d.old.tag = pool.head.tag PROVE d.old.index # k
        OBVIOUS
      <4>1. d.old.index = pool.head.index /\ d.old.index \in Blocks
        BY <3>1 DEF ThreadOK
      <4>2. n # 0 /\ pool.head.index = L[1]
        BY <1>2, <4>1, PoolNumbers DEF FreeList
      <4>3. 1 \in 1 .. n
        BY <1>2, <4>2 DEF FreeList
      <4> QED BY <1>3, <4>1, <4>2, <4>3 DEF Elements
    <3> HIDE DEF d, k
    <3> QED BY <1>4, <3>1, <3>2, <3>3 DEF ThreadOK
  <2> QED BY <2>1, <2>2
<1> QED BY <1>7, <1>9, <1>10, <1>11 DEF PoolInv

\* A successful exchange: the tag is new to every thread.
LEMMA SwapTypes ==
    ASSUME PoolInv, NEW t \in PoolThreads, NEW index \in Indices, Swapped(t, index),
           owned' \in [PoolThreads -> SUBSET Blocks]
    PROVE  /\ PoolTypes' /\ \A u \in PoolThreads : ThreadOK(pool', caller'[u])
           /\ pool'.head.index = index /\ pool'.freelist = pool.freelist
           /\ caller'[t].at = "idle" /\ \A u \in PoolThreads \ {t} : caller'[u] = caller[u]
<1> DEFINE h == [index |-> index, tag |-> caller[t].old.tag + 1]
           c == [caller[t] EXCEPT !.at = "idle"]
<1>1. /\ caller[t] \in CallerType /\ caller \in [PoolThreads -> CallerType] /\ pool \in PoolType
      /\ pool.head.tag \in Nat /\ pool.head = caller[t].old /\ pool' = [pool EXCEPT !.head = h]
      /\ caller' = [caller EXCEPT ![t].at = "idle"]
  BY CallerParts DEF Swapped, NewHead, Leave
<1>2. h \in HeadType /\ h.index = index /\ h.tag = pool.head.tag + 1
  BY <1>1 DEF HeadType
<1> HIDE DEF h
<1>3. pool' \in PoolType /\ pool'.head = h /\ pool'.freelist = pool.freelist
  BY <1>1, <1>2 DEF PoolType
<1>4. c \in CallerType /\ c.at = "idle" /\ c.old = caller[t].old
  BY <1>1 DEF CallerType
<1>5. caller' = [caller EXCEPT ![t] = c]
  BY <1>1
<1> HIDE DEF c
<1>6. caller' \in [PoolThreads -> CallerType] /\ caller'[t] = c /\ \A u \in PoolThreads \ {t} : caller'[u] = caller[u]
  BY <1>1, <1>4, <1>5
<1>7. ASSUME NEW u \in PoolThreads PROVE ThreadOK(pool', caller'[u])
  <2>1. /\ caller[u].old.tag \in Nat /\ caller[u].old.tag <= pool.head.tag
        /\ caller[u].at = "pop_swap" => caller[u].old.index \in Blocks
        /\ caller[u].at = "push_swap" => pool.freelist[caller[u].idx] = caller[u].old.index
    BY CallerParts DEF ThreadOK
  <2>2. caller'[u].old = caller[u].old /\ (caller'[u].at = "idle" \/ caller'[u] = caller[u])
    BY <1>4, <1>6
  <2>3. caller'[u].old.tag <= pool'.head.tag /\ caller'[u].old.tag # pool'.head.tag
    BY <1>1, <1>2, <1>3, <2>1, <2>2
  <2> QED BY <1>3, <2>1, <2>2, <2>3 DEF ThreadOK
<1>8. PoolTypes'
  BY <1>3, <1>6 DEF PoolTypes
<1> QED BY <1>2, <1>3, <1>4, <1>6, <1>7, <1>8

\* The first block of the list goes to the thread.
LEMMA PopKeeps ==
    ASSUME PoolInv, NEW t \in PoolThreads, caller[t].at = "pop_swap", Swapped(t, caller[t].next),
           owned' = [owned EXCEPT ![t] = @ \cup {caller[t].old.index}]
    PROVE  PoolInv'
<1> DEFINE k == caller[t].old.index
<1>1. /\ owned \in [PoolThreads -> SUBSET Blocks] /\ caller[t].next \in Indices /\ pool.head = caller[t].old
      /\ k \in Blocks /\ caller[t].next = pool.freelist[k]
  BY CallerParts DEF ThreadOK, Swapped
<1>2. /\ owned' \in [PoolThreads -> SUBSET Blocks] /\ owned'[t] = owned[t] \cup {k}
      /\ \A u \in PoolThreads \ {t} : owned'[u] = owned[u]
  BY <1>1
<1>3. /\ PoolTypes' /\ \A u \in PoolThreads : ThreadOK(pool', caller'[u])
      /\ pool'.head.index = pool.freelist[k] /\ pool'.freelist = pool.freelist
      /\ caller'[t].at = "idle" /\ \A u \in PoolThreads \ {t} : caller'[u] = caller[u]
  BY <1>1, <1>2, SwapTypes
<1>4. PICK n, L : FreeList(pool, n, L) /\ Parted(Elements(n, L), caller, owned)
  BY DEF PoolInv
<1>5. /\ L \in [1 .. n -> Blocks] /\ n \in Nat /\ \A i, j \in 1 .. n : i # j => L[i] # L[j]
      /\ \A i \in 1 .. n : pool.freelist[L[i]] = IF i = n THEN kInvalidIndex ELSE L[i + 1]
      /\ pool.head.index = IF n = 0 THEN kInvalidIndex ELSE L[1]
  BY <1>4 DEF FreeList
<1>6. n # 0 /\ k = L[1] /\ 1 \in 1 .. n
  BY <1>1, <1>5, PoolNumbers
<1> HIDE DEF k
<1> DEFINE m == n - 1
           M == [i \in 1 .. m |-> L[i + 1]]
<1>7. m \in Nat /\ \A i \in 1 .. m : i + 1 \in 1 .. n /\ M[i] = L[i + 1]
  BY <1>5, <1>6
<1>8. FreeList(pool', m, M)
  <2>1. M \in [1 .. m -> Blocks]
    BY <1>5, <1>7
  <2>2. ASSUME NEW i \in 1 .. m, NEW j \in 1 .. m, i # j PROVE M[i] # M[j]
    <3>1. i + 1 \in 1 .. n /\ j + 1 \in 1 .. n /\ i + 1 # j + 1
      BY <1>7, <2>2
    <3> QED BY <1>5, <1>7, <3>1
  <2>3. pool'.head.index = IF m = 0 THEN kInvalidIndex ELSE M[1]
    <3>1. pool'.head.index = IF n = 1 THEN kInvalidIndex ELSE L[2]
      BY <1>3, <1>5, <1>6
    <3>2. (m = 0 <=> n = 1) /\ (m # 0 => 1 \in 1 .. m /\ M[1] = L[2])
      BY <1>5, <1>7
    <3> QED BY ONLY <3>1, <3>2
  <2>4. ASSUME NEW i \in 1 .. m PROVE pool'.freelist[M[i]] = IF i = m THEN kInvalidIndex ELSE M[i + 1]
    <3>1. /\ i + 1 \in 1 .. n /\ M[i] = L[i + 1] /\ (i = m <=> i + 1 = n)
          /\ i # m => i + 1 \in 1 .. m /\ M[i + 1] = L[(i + 1) + 1]
      BY <1>5, <1>7
    <3>2. pool.freelist[L[i + 1]] = IF i + 1 = n THEN kInvalidIndex ELSE L[(i + 1) + 1]
      BY <1>5, <3>1
    <3> QED BY ONLY <1>3, <3>1, <3>2
  <2> HIDE DEF M
  <2> QED BY <1>7, <2>1, <2>2, <2>3, <2>4 DEF FreeList
<1>9. Elements(m, M) = Elements(n, L) \ {k} /\ k \in Elements(n, L)
  <2>1. k \in Elements(n, L)
    BY <1>6 DEF Elements
  <2>2. ASSUME NEW i \in 1 .. m PROVE M[i] \in Elements(n, L) /\ M[i] # k
    <3>1. i + 1 \in 1 .. n /\ i + 1 # 1
      BY <1>7
    <3> QED BY <1>5, <1>6, <1>7, <3>1 DEF Elements
  <2>3. ASSUME NEW i \in 1 .. n, L[i] # k PROVE L[i] \in Elements(m, M)
    <3>1. i # 1
      BY <1>6, <2>3
    <3>2. i - 1 \in 1 .. m /\ (i - 1) + 1 = i
      BY <1>5, <3>1
    <3>3. M[i - 1] = L[i]
      BY <1>7, <3>2
    <3> HIDE DEF M, m
    <3> QED BY <3>2, <3>3 DEF Elements
  <2> HIDE DEF M, m
  <2> QED BY <2>1, <2>2, <2>3 DEF Elements
<1> HIDE DEF m, M
<1>10. Parted(Elements(m, M), caller', owned')
  <2> DEFINE F == Elements(n, L)
             G == Elements(m, M)
  <2>1. Returned(caller[t]) = {} /\ Returned(caller'[t]) = {}
    BY <1>3 DEF Returned
  <2>2. Holds(caller'[t], owned'[t]) = Holds(caller[t], owned[t]) \cup {k}
    BY <1>2, <2>1 DEF Holds
  <2>3. \A u \in PoolThreads \ {t} : Holds(caller'[u], owned'[u]) = Holds(caller[u], owned[u])
                                     /\ Returned(caller'[u]) = Returned(caller[u]) /\ owned'[u] = owned[u]
    BY <1>2, <1>3
  <2>4. G = F \ {k} /\ k \in F /\ k \in Blocks /\ Parted(F, caller, owned)
    BY <1>1, <1>4, <1>9
  <2> HIDE DEF F, G
  <2>5. \A b \in Blocks : b \in G \/ \E u \in PoolThreads : b \in Holds(caller'[u], owned'[u])
    BY <2>2, <2>3, <2>4 DEF Parted
  <2>6. \A u \in PoolThreads : /\ Holds(caller'[u], owned'[u]) \subseteq Blocks
                               /\ Holds(caller'[u], owned'[u]) \cap G = {}
                               /\ Returned(caller'[u]) \cap owned'[u] = {}
    BY <2>1, <2>2, <2>3, <2>4 DEF Parted
  <2>7. \A u, w \in PoolThreads : u # w => Holds(caller'[u], owned'[u]) \cap Holds(caller'[w], owned'[w]) = {}
    <3> TAKE u, w \in PoolThreads
    <3>1. u # w => Holds(caller[u], owned[u]) \cap Holds(caller[w], owned[w]) = {}
      BY <2>4 DEF Parted
    <3>2. k \notin Holds(caller[u], owned[u]) /\ k \notin Holds(caller[w], owned[w])
      BY <2>4 DEF Parted
    <3>3. CASE u = t
      BY <2>2, <2>3, <3>1, <3>2, <3>3
    <3>4. CASE w = t
      BY <2>2, <2>3, <3>1, <3>2, <3>4
    <3>5. CASE u # t /\ w # t
      BY <2>3, <3>1, <3>5
    <3> QED BY <3>3, <3>4, <3>5
  <2>8. Parted(G, caller', owned')
    BY <2>5, <2>6, <2>7 DEF Parted
  <2> QED BY <2>8 DEF G
<1> QED BY <1>3, <1>8, <1>10 DEF PoolInv

\* The block the thread returns becomes the first of the list.
LEMMA PushKeeps ==
    ASSUME PoolInv, NEW t \in PoolThreads, caller[t].at = "push_swap", Swapped(t, caller[t].idx),
           owned' = owned
    PROVE  PoolInv'
<1> DEFINE k == caller[t].idx
<1>1. /\ owned' \in [PoolThreads -> SUBSET Blocks] /\ k \in Indices /\ pool.head = caller[t].old
      /\ pool.freelist[k] = pool.head.index
  BY CallerParts DEF ThreadOK, Swapped
<1>2. /\ PoolTypes' /\ \A u \in PoolThreads : ThreadOK(pool', caller'[u])
      /\ pool'.head.index = k /\ pool'.freelist = pool.freelist
      /\ caller'[t].at = "idle" /\ \A u \in PoolThreads \ {t} : caller'[u] = caller[u]
  BY <1>1, SwapTypes
<1>3. PICK n, L : FreeList(pool, n, L) /\ Parted(Elements(n, L), caller, owned)
  BY DEF PoolInv
<1>4. /\ L \in [1 .. n -> Blocks] /\ n \in Nat /\ \A i, j \in 1 .. n : i # j => L[i] # L[j]
      /\ \A i \in 1 .. n : pool.freelist[L[i]] = IF i = n THEN kInvalidIndex ELSE L[i + 1]
      /\ pool.head.index = IF n = 0 THEN kInvalidIndex ELSE L[1]
  BY <1>3 DEF FreeList
<1>5. Returned(caller[t]) = {k} /\ Returned(caller'[t]) = {}
  BY <1>2 DEF Returned
<1>6. k \in Blocks /\ k \notin Elements(n, L) /\ k \in Holds(caller[t], owned[t])
  <2>1. k \in Holds(caller[t], owned[t])
    BY <1>5 DEF Holds
  <2> HIDE DEF k
  <2> QED BY <1>3, <2>1 DEF Parted
<1> HIDE DEF k
<1> DEFINE m == n + 1
           M == [i \in 1 .. m |-> IF i = 1 THEN k ELSE L[i - 1]]
<1>7. /\ m \in Nat /\ m # 0 /\ 1 \in 1 .. m /\ M[1] = k
      /\ \A i \in 1 .. m : i # 1 => i - 1 \in 1 .. n /\ M[i] = L[i - 1]
      /\ \A i \in 1 .. n : i + 1 \in 1 .. m /\ i + 1 # 1 /\ M[i + 1] = L[i] /\ L[i] # k
  <2>1. /\ m \in Nat /\ m # 0 /\ 1 \in 1 .. m /\ M[1] = k
    BY <1>4
  <2>2. \A i \in 1 .. m : i # 1 => i - 1 \in 1 .. n /\ M[i] = L[i - 1]
    BY <1>4
  <2>3. \A i \in 1 .. n : i + 1 \in 1 .. m /\ i + 1 # 1 /\ (i + 1) - 1 = i
    BY <1>4
  <2>4. \A i \in 1 .. n : L[i] # k
    BY <1>6 DEF Elements
  <2> HIDE DEF M, m
  <2> QED BY <2>1, <2>2, <2>3, <2>4
<1>8. M \in [1 .. m -> Blocks]
  <2>1. \A i \in 1 .. m : (IF i = 1 THEN k ELSE L[i - 1]) \in Blocks
    BY <1>4, <1>6, <1>7
  <2> QED BY <2>1
<1>9. Elements(m, M) = Elements(n, L) \cup {k}
  <2> HIDE DEF M, m
  <2> QED BY <1>7 DEF Elements
<1>10. FreeList(pool', m, M)
  <2>1. ASSUME NEW i \in 1 .. m, NEW j \in 1 .. m, i # j PROVE M[i] # M[j]
    <3>1. ASSUME NEW a \in 1 .. m, a # 1 PROVE M[a] # k
      <4> HIDE DEF M, m
      <4> QED BY <1>7, <3>1
    <3>2. CASE i = 1 \/ j = 1
      <4> HIDE DEF M, m
      <4> QED BY <1>7, <2>1, <3>1, <3>2
    <3>3. CASE i # 1 /\ j # 1
      <4>1. i - 1 \in 1 .. n /\ j - 1 \in 1 .. n /\ i - 1 # j - 1
        BY <1>4, <2>1, <3>3
      <4> HIDE DEF M, m
      <4> QED BY <1>4, <1>7, <3>3, <4>1
    <3> QED BY <3>2, <3>3
  <2>2. pool'.head.index = IF m = 0 THEN kInvalidIndex ELSE M[1]
    <3> HIDE DEF M, m
    <3> QED BY <1>2, <1>7
  <2>3. ASSUME NEW i \in 1 .. m PROVE pool'.freelist[M[i]] = IF i = m THEN kInvalidIndex ELSE M[i + 1]
    <3>1. CASE i = 1
      <4>1. pool'.freelist[M[i]] = IF n = 0 THEN kInvalidIndex ELSE L[1]
        <5> HIDE DEF M, m
        <5> QED BY <1>1, <1>2, <1>4, <1>7, <3>1 DEF k
      <4>2. (i = m <=> n = 0) /\ (n # 0 => 1 \in 1 .. n)
        BY <1>4, <3>1
      <4>3. n # 0 => M[i + 1] = L[1]
        <5> HIDE DEF M, m
        <5> QED BY <1>7, <3>1, <4>2
      <4> QED BY ONLY <4>1, <4>2, <4>3
    <3>2. CASE i # 1
      <4>1. i - 1 \in 1 .. n /\ M[i] = L[i - 1] /\ (i - 1) + 1 = i /\ (i = m <=> i - 1 = n)
        BY <1>4, <1>7, <3>2
      <4>2. i # m => i \in 1 .. n
        BY <1>4, <4>1
      <4>3. i # m => M[i + 1] = L[i]
        <5> HIDE DEF M, m
        <5> QED BY <1>7, <4>2
      <4>4. pool.freelist[L[i - 1]] = IF i - 1 = n THEN kInvalidIndex ELSE L[(i - 1) + 1]
        BY <1>4, <4>1
      <4> QED BY ONLY <1>2, <4>1, <4>3, <4>4
    <3> QED BY <3>1, <3>2
  <2> HIDE DEF M, m
  <2> QED BY <1>7, <1>8, <2>1, <2>2, <2>3 DEF FreeList
<1> HIDE DEF m, M
<1>11. Parted(Elements(m, M), caller', owned')
  <2> DEFINE F == Elements(n, L)
             G == Elements(m, M)
  <2>1. Holds(caller'[t], owned'[t]) = Holds(caller[t], owned[t]) \ {k} /\ Returned(caller'[t]) = {}
    <3>1. Returned(caller[t]) \cap owned[t] = {}
      BY <1>3 DEF Parted
    <3> QED BY <1>5, <3>1 DEF Holds
  <2>2. \A u \in PoolThreads \ {t} : Holds(caller'[u], owned'[u]) = Holds(caller[u], owned[u])
                                     /\ Returned(caller'[u]) = Returned(caller[u]) /\ owned'[u] = owned[u]
    BY <1>2
  <2>3. G = F \cup {k} /\ k \in Blocks /\ Parted(F, caller, owned) /\ k \in Holds(caller[t], owned[t])
    BY <1>3, <1>6, <1>9
  <2> HIDE DEF F, G
  <2>4. \A b \in Blocks : b \in G \/ \E u \in PoolThreads : b \in Holds(caller'[u], owned'[u])
    BY <2>1, <2>2, <2>3 DEF Parted
  <2>5. \A u \in PoolThreads : /\ Holds(caller'[u], owned'[u]) \subseteq Blocks
                               /\ Holds(caller'[u], owned'[u]) \cap G = {}
                               /\ Returned(caller'[u]) \cap owned'[u] = {}
    BY <2>1, <2>2, <2>3 DEF Parted
  <2>6. \A u, w \in PoolThreads : u # w => Holds(caller'[u], owned'[u]) \cap Holds(caller'[w], owned'[w]) = {}
    BY <2>1, <2>2, <2>3 DEF Parted
  <2>7. Parted(G, caller', owned')
    BY <2>4, <2>5, <2>6 DEF Parted
  <2> QED BY <2>7 DEF G
<1> QED BY <1>2, <1>10, <1>11 DEF PoolInv

LEMMA PoolKeeps == PoolInv /\ [PoolNext]_poolVars => PoolInv'
<1> SUFFICES ASSUME PoolInv, [PoolNext]_poolVars PROVE PoolInv'
  OBVIOUS
<1>1. CASE UNCHANGED poolVars
  <2>1. pool' = pool /\ caller' = caller /\ owned' = owned
    BY <1>1 DEF poolVars
  <2> QED BY <2>1 DEF PoolInv, PoolTypes
<1>2. ASSUME NEW t \in PoolThreads, allocate(t) PROVE PoolInv'
  BY <1>2, LoadKeeps DEF allocate
<1>3. ASSUME NEW t \in PoolThreads, pop_swap(t) PROVE PoolInv'
  BY <1>3, PopKeeps, LoadKeeps DEF pop_swap, NotSwapped
<1>4. ASSUME NEW t \in PoolThreads, push_swap(t) PROVE PoolInv'
  BY <1>4, PushKeeps, LoadKeeps DEF push_swap, NotSwapped
<1> QED BY <1>1, <1>2, <1>3, <1>4, ReadNextKeeps, LinkKeeps, DeallocateKeeps DEF PoolNext

\* LockFreeFixedBlockPool, ZeroCopyPacketRing, SymbolShardedDispatcher and
\* AutonomousRiskEngine with the strategies, for every number of threads, blocks,
\* slots and shards and for every interleaving of their loads and exchanges: no
\* block and no item is lost or handed out twice, and the limits hold up to one
\* order of every other thread.
THEOREM SharedStateHolds == Spec => []SharedStateSound
<1>1. Init => PoolInv
  BY PoolStarts DEF Init, BuffersInit
<1>2. PoolInv /\ [Next]_vars => PoolInv'
  BY PoolSteps, PoolKeeps
<1>3. BlocksOwnedOnce /\ RingsInOrder /\ StrategiesSound => SharedStateSound
  BY DEF SharedStateSound, BuffersSound
<1> QED BY <1>1, <1>2, <1>3, PoolKeepsBlocks, RingsKeepOrder, RiskStaysBounded, PTL DEF Spec

-----------------------------------------------------------------------------
(***************************************************************************)
(* The frames of a peer.                                                   *)
(***************************************************************************)
LEMMA FrameSteps == [Next]_vars => [FrameNext]_frameVars
BY DEF vars, Next, Reads, Shares, frameVars

Payload == Seq(Nat)

\* Outside a message nothing is kept and the peer has sent nothing of one.
FrameInv ==
    /\ frag \in [fragmented : BOOLEAN, opcode : Nat, size : Nat, text : Payload]
    /\ spoken \in [open : Payload, opcode : Nat, frames : Nat,
                   done : [opcode : Nat, bytes : Payload]]
    /\ ~frag.fragmented => frag = Unfragmented /\ spoken.open = << >> /\ spoken.opcode = 0
    /\ MessagesWhole

LEMMA FrameStarts == FrameInit => FrameInv
<1> SUFFICES ASSUME FrameInit PROVE FrameInv
  OBVIOUS
<1>1. /\ frag = [fragmented |-> FALSE, opcode |-> 0, size |-> 0, text |-> << >>]
      /\ spoken = [open |-> << >>, opcode |-> 0, done |-> [opcode |-> 0, bytes |-> << >>], frames |-> 0]
  BY DEF FrameInit, Unfragmented
<1>2. << >> \in Payload /\ Len(<< >>) = 0
  BY DEF Payload
<1>3. MaxMessage \in Nat
  BY FrameAssumption
<1>4. MessagesWhole
  BY <1>1, <1>2, <1>3 DEF MessagesWhole, Text
<1> QED BY <1>1, <1>2, <1>4 DEF FrameInv, Unfragmented

LEMMA ConsumedFrame ==
    ASSUME NEW f \in Frames, NEW s, frame(s, f, HeaderBytes(f) + 4 + f.size) = "consumed"
    PROVE  /\ f.opcode \in {0, 1, 2, 8, 9, 10} /\ f.size \in Nat /\ f.size <= MaxMessage
           /\ f.payload \in Payload /\ Len(f.payload) = f.size
           /\ f.opcode = 0 => ContinuationResult(s, f) = "consumed"
           /\ f.opcode \in {1, 2} => FirstResult(s, f) = "consumed"
<1> DEFINE have == HeaderBytes(f) + 4 + f.size
<1>1. f.marker \in 0 .. ShortMax + 2 /\ f.size \in Nat /\ ShortMax \in Nat /\ MaxMessage \in Nat
  BY FrameAssumption
<1>2. HeaderBytes(f) \in {2, 4, 10}
  BY <1>1 DEF HeaderBytes
<1>3. have \in Nat /\ have >= 2 /\ have >= HeaderBytes(f) /\ HeaderBytes(f) \in Nat
  BY <1>1, <1>2
<1> HIDE DEF have
<1>4. HeaderResult(f, have) = "complete" \/ HeaderResult(f, have) # "complete"
  OBVIOUS
<1>5. HeaderResult(f, have) = "complete" => ~BadStart(f) /\ f.size <= MaxMessage
  BY <1>1, <1>3 DEF HeaderResult
<1>6. HeaderResult(f, have) # "consumed"
  BY <1>1, <1>3 DEF HeaderResult
<1>7. frame(s, f, have) = "consumed"
  BY DEF have
<1>8. HeaderResult(f, have) = "complete"
  BY <1>6, <1>7 DEF frame
<1>9. f.opcode \in {0, 1, 2, 8, 9, 10} /\ f.size <= MaxMessage
  BY <1>5, <1>8 DEF BadStart
<1>10. f.payload \in [1 .. f.size -> Nat]
  BY <1>1, <1>9, FrameAssumption
<1>11. f.payload \in Payload /\ Len(f.payload) = f.size
  BY ONLY <1>1, <1>10, SequenceOver DEF Payload
<1>12. f.opcode = 0 => ContinuationResult(s, f) = "consumed"
  BY <1>7, <1>8 DEF frame, CloseFrame, ControlFrame, Continuation
<1>13. f.opcode \in {1, 2} => FirstResult(s, f) = "consumed"
  BY <1>7, <1>8 DEF frame, CloseFrame, ControlFrame, Continuation
<1> QED BY <1>1, <1>9, <1>11, <1>12, <1>13

LEMMA FrameKeeps == FrameInv /\ [FrameNext]_frameVars => FrameInv'
<1> SUFFICES ASSUME FrameInv, [FrameNext]_frameVars PROVE FrameInv'
  OBVIOUS
<1> USE DEF FrameInv
<1>1. CASE UNCHANGED <<frag, spoken>>
  BY <1>1 DEF MessagesWhole
<1>2. ASSUME NEW f \in Frames, frame_consumed(f) PROVE FrameInv'
  <2>1. /\ frag' = Fragmented(frag, f)
        /\ frame(frag, f, HeaderBytes(f) + 4 + f.size) = "consumed"
    BY <1>2 DEF frame_consumed
  <2>2. /\ f.opcode \in {0, 1, 2, 8, 9, 10} /\ f.size \in Nat /\ f.size <= MaxMessage
        /\ f.payload \in Payload /\ Len(f.payload) = f.size
        /\ f.opcode = 0 => ContinuationResult(frag, f) = "consumed"
        /\ f.opcode \in {1, 2} => FirstResult(frag, f) = "consumed"
    BY <2>1, ConsumedFrame
  <2>3. CASE f.opcode \in {8, 9, 10}
    <3>1. frag' = frag /\ spoken' = [spoken EXCEPT !.frames = @ + 1]
      BY <1>2, <2>1, <2>3 DEF frame_consumed, Fragmented, ControlFrame
    <3> QED BY <3>1 DEF MessagesWhole
  <2>4. CASE f.opcode = 0
    <3>1. /\ frag.fragmented /\ frag.size + f.size <= MaxMessage
          /\ frag.opcode = 1 /\ f.final => valid_utf8(frag.text \o f.payload)
      BY <2>2, <2>4, FrameAssumption DEF ContinuationResult, WholeSize, WholeText, Text
    <3> DEFINE whole == spoken.open \o f.payload
    <3>2. whole \in Payload /\ Len(whole) = frag.size + f.size
      <4>1. spoken.open \in Payload /\ frag.size = Len(spoken.open)
        BY DEF MessagesWhole
      <4> DEFINE a == spoken.open
                 b == f.payload
      <4>2. a \in Seq(Nat) /\ b \in Seq(Nat) /\ Len(a) = frag.size /\ Len(b) = f.size
        BY <2>2, <4>1 DEF Payload
      <4> HIDE DEF a, b
      <4>3. a \o b \in Seq(Nat) /\ Len(a \o b) = Len(a) + Len(b)
        BY ONLY <4>2, Joined
      <4> QED BY <4>2, <4>3 DEF a, b, Payload
    <3>3. frag.opcode = 1 => whole = frag.text \o f.payload
      BY DEF MessagesWhole, Text
    <3>4. spoken.opcode = frag.opcode
      BY DEF MessagesWhole
    <3>7. ~ControlFrame(f) /\ f.opcode = Continuation /\ Spoken(f) = whole /\ SpokenKind(f) = spoken.opcode
      BY <2>4 DEF ControlFrame, Continuation, Spoken, SpokenKind
    <3>5. CASE f.final
      <4>1. /\ frag' = Unfragmented
            /\ spoken' = [open |-> << >>, opcode |-> 0, frames |-> spoken.frames + 1,
                          done |-> [opcode |-> spoken.opcode, bytes |-> whole]]
        BY <1>2, <2>1, <2>4, <3>5, <3>7 DEF frame_consumed, Fragmented
      <4> HIDE DEF whole
      <4>2. << >> \in Payload /\ Len(<< >>) = 0
        BY DEF Payload
      <4>3. Len(whole) <= MaxMessage /\ (spoken.opcode = 1 => valid_utf8(whole))
        BY <3>1, <3>2, <3>3, <3>4, <3>5
      <4>4. MessagesWhole'
        BY <4>1, <4>2, <4>3 DEF MessagesWhole, Unfragmented, Text
      <4> QED BY <3>2, <4>1, <4>2, <4>4 DEF Unfragmented
    <3>6. CASE ~f.final
      <4> DEFINE total == frag.size + f.size
                 kept == IF frag.opcode = 1 THEN whole ELSE frag.text
      <4>1. /\ frag' = [frag EXCEPT !.size = total, !.text = kept]
            /\ spoken' = [spoken EXCEPT !.open = whole, !.opcode = spoken.opcode, !.frames = @ + 1]
        <5>1. spoken' = [spoken EXCEPT !.open = Spoken(f), !.opcode = SpokenKind(f), !.frames = @ + 1]
          BY <1>2, <3>6, <3>7 DEF frame_consumed
        <5>2. frag' = [frag EXCEPT !.size = WholeSize(frag, f),
                                   !.text = IF frag.opcode = Text THEN WholeText(frag, f) ELSE @]
          BY <2>1, <3>6, <3>7 DEF Fragmented
        <5> QED BY <3>3, <3>7, <5>1, <5>2 DEF WholeSize, WholeText, Text
      <4>2. total \in Nat /\ kept \in Payload /\ (frag.opcode = 1 => kept = whole)
        <5>1. frag.size \in Nat /\ f.size \in Nat /\ frag.text \in Payload
          BY <2>2
        <5>2. total \in Nat
          BY ONLY <5>1
        <5> HIDE DEF whole
        <5> QED BY ONLY <3>2, <5>1, <5>2
      <4> HIDE DEF total, kept
      <4>3. total = Len(whole)
        BY <3>2 DEF total
      <4> HIDE DEF whole
      <4>4. MessagesWhole'
        BY <4>1, <4>2, <4>3 DEF MessagesWhole, Text
      <4>5. frag' \in [fragmented : BOOLEAN, opcode : Nat, size : Nat, text : Payload] /\ frag'.fragmented
        BY <3>1, <4>1, <4>2
      <4>6. spoken' \in [open : Payload, opcode : Nat, frames : Nat,
                         done : [opcode : Nat, bytes : Payload]]
        <5> DEFINE n == spoken.frames + 1
                   k == spoken.opcode
        <5>1. n \in Nat /\ k \in Nat /\ whole \in Payload
          BY <3>2
        <5>2. spoken' = [spoken EXCEPT !.open = whole, !.opcode = k, !.frames = n]
          BY <4>1
        <5> HIDE DEF n, k
        <5> QED BY <5>1, <5>2
      <4> QED BY <4>4, <4>5, <4>6
    <3> QED BY <3>5, <3>6
  <2>5. CASE f.opcode \in {1, 2}
    <3>1. ~frag.fragmented /\ (f.opcode = 1 /\ f.final => valid_utf8(f.payload))
      BY <2>2, <2>5 DEF FirstResult, Text
    <3>2. << >> \in Payload /\ << >> \o f.payload = f.payload /\ Len(<< >>) = 0
      BY <2>2 DEF Payload
    <3>5. /\ ~ControlFrame(f) /\ f.opcode # Continuation
          /\ Spoken(f) = f.payload /\ SpokenKind(f) = f.opcode
      <4>1. f.opcode # 0 /\ ~(f.opcode >= 8)
        BY <2>5
      <4> QED BY <3>2, <4>1 DEF ControlFrame, Continuation, Spoken, SpokenKind
    <3>3. CASE f.final
      <4>1. /\ frag' = frag
            /\ spoken' = [open |-> << >>, opcode |-> 0, frames |-> spoken.frames + 1,
                          done |-> [opcode |-> f.opcode, bytes |-> f.payload]]
        BY <1>2, <2>1, <3>3, <3>5 DEF frame_consumed, Fragmented
      <4>2. frag = Unfragmented
        BY <3>1
      <4>3. MessagesWhole'
        BY <2>2, <3>1, <3>2, <3>3, <4>1, <4>2 DEF MessagesWhole, Unfragmented, Text
      <4> QED BY <2>2, <2>5, <3>2, <4>1, <4>2, <4>3
    <3>4. CASE ~f.final
      <4> DEFINE kept == IF f.opcode = 1 THEN f.payload ELSE << >>
      <4>1. /\ frag' = [fragmented |-> TRUE, opcode |-> f.opcode, size |-> f.size, text |-> kept]
            /\ spoken' = [spoken EXCEPT !.open = f.payload, !.opcode = f.opcode, !.frames = @ + 1]
        BY <1>2, <2>1, <3>4, <3>5 DEF frame_consumed, Fragmented, Text
      <4>2. kept \in Payload /\ (f.opcode = 1 => kept = f.payload)
        BY <2>2, <3>2
      <4> HIDE DEF kept
      <4>3. MessagesWhole'
        BY <2>2, <4>1, <4>2 DEF MessagesWhole, Text
      <4>4. f.opcode \in Nat
        BY <2>5
      <4>5. frag' \in [fragmented : BOOLEAN, opcode : Nat, size : Nat, text : Payload] /\ frag'.fragmented
        BY <2>2, <4>1, <4>2, <4>4
      <4>6. spoken' \in [open : Payload, opcode : Nat, frames : Nat,
                         done : [opcode : Nat, bytes : Payload]]
        <5> DEFINE n == spoken.frames + 1
        <5>1. n \in Nat
          OBVIOUS
        <5>2. spoken' = [spoken EXCEPT !.open = f.payload, !.opcode = f.opcode, !.frames = n]
          BY <4>1
        <5> HIDE DEF n
        <5> QED BY <2>2, <4>4, <5>1, <5>2
      <4> QED BY <4>3, <4>5, <4>6
    <3> QED BY <3>3, <3>4
  <2> QED BY <2>2, <2>3, <2>4, <2>5
<1>3. [FrameNext]_frameVars => UNCHANGED <<frag, spoken>> \/ \E f \in Frames : frame_consumed(f)
  BY DEF FrameNext, frameVars, open_link, frame_incomplete, frame_refused
<1> QED BY <1>1, <1>2, <1>3

\* luv_websocket_parse.hpp, for any frames and limits: however a message is cut into
\* fragments and whatever control frames come between them, a completed message is
\* within the limit, its text is UTF-8 as a whole, and the parser keeps exactly what
\* the peer has sent of an unfinished one.
THEOREM MessagesStayWhole == Spec => []MessagesWhole
<1>1. Init => FrameInv
  BY FrameStarts DEF Init
<1>2. FrameInv /\ [Next]_vars => FrameInv'
  BY FrameSteps, FrameKeeps
<1>3. FrameInv => MessagesWhole
  BY DEF FrameInv
<1> QED BY <1>1, <1>2, <1>3, PTL DEF Spec

-----------------------------------------------------------------------------
(***************************************************************************)
(* The simulated feed: the order of the polls.                             *)
(***************************************************************************)
LEMMA SimSteps == [Next]_vars => [SimNext]_simVars
BY DEF vars, Next, Reads, Shares, simVars

\* Polled and pending indices are all different, and none has been skipped.
Apart(q, p) ==
    /\ q \in Seq(Nat) /\ p \in Seq(Nat)
    /\ \A j, k \in 1 .. Len(q) : q[j] = q[k] => j = k
    /\ \A j, k \in 1 .. Len(p) : p[j] = p[k] => j = k
    /\ \A j \in 1 .. Len(q), k \in 1 .. Len(p) : q[j] # p[k]
    /\ \A j \in 1 .. Len(q) : q[j] < Len(q) + Len(p)
    /\ \A k \in 1 .. Len(p) : p[k] < Len(q) + Len(p)

Ahead(C) == IF C = 0 THEN 0 ELSE C - 1

\* Between polls: buffer of N, window of C, cursor i, indices left r, pending p
\* and polled q.
PassOK(N, C, i, p, r, q) ==
    /\ Apart(q, p) /\ Len(q) + Len(p) <= N /\ i = (Len(q) + Len(p)) % N /\ r \in Nat
    /\ \A k \in 1 .. Len(q) : q[k] <= k - 1 + Ahead(C)
    /\ Len(p) <= Ahead(C)
    /\ Len(p) # 0 => Len(q) + Len(p) + r = N /\ (r # 0 => Len(p) = C - 1)
    /\ Len(p) = 0 => C <= 1 \/ Len(q) = 0 \/ Len(q) = N

\* Before a choice.
ChoiceOK(N, C, i, p, r, q) ==
    /\ Apart(q, p) /\ Len(q) + Len(p) <= N /\ i = (Len(q) + Len(p)) % N /\ r \in Nat
    /\ \A k \in 1 .. Len(q) : q[k] <= k - 1 + Ahead(C)
    /\ Len(p) \in 1 .. C
    /\ C # 1 => Len(q) + Len(p) + r = N /\ (r # 0 => Len(p) = C)

LEMMA ApartLens ==
    ASSUME NEW q, NEW p, Apart(q, p)
    PROVE  /\ q \in Seq(Nat) /\ p \in Seq(Nat) /\ Len(q) \in Nat /\ Len(p) \in Nat
           /\ \A j \in 1 .. Len(q) : q[j] \in Nat
           /\ \A k \in 1 .. Len(p) : p[k] \in Nat
BY DEF Apart

\* The next n indices enter behind the pending ones.
LEMMA ApartGrows ==
    ASSUME NEW q, NEW p, Apart(q, p), NEW n \in Nat, NEW u \in Seq(Nat), Len(u) = Len(p) + n,
           \A k \in 1 .. Len(p) : u[k] = p[k],
           \A k \in 1 .. n : u[Len(p) + k] = Len(q) + Len(p) + k - 1
    PROVE  Apart(q, u)
<1> DEFINE a == Len(q)
           b == Len(p)
<1>1. /\ q \in Seq(Nat) /\ p \in Seq(Nat) /\ a \in Nat /\ b \in Nat
      /\ \A j \in 1 .. a : q[j] \in Nat /\ q[j] < a + b
      /\ \A k \in 1 .. b : p[k] \in Nat /\ p[k] < a + b
  BY ApartLens DEF Apart
<1>2. ASSUME NEW k \in 1 .. b + n
      PROVE  \/ k \in 1 .. b /\ u[k] = p[k]
             \/ k > b /\ u[k] = a + k - 1
  <2>1. CASE k <= b
    <3>1. k \in 1 .. b
      BY <1>1, <2>1
    <3> QED BY <3>1
  <2>2. CASE k > b
    <3>1. k - b \in 1 .. n /\ b + (k - b) = k /\ a + b + (k - b) - 1 = a + k - 1
      BY <1>1, <2>2
    <3>2. u[b + (k - b)] = a + b + (k - b) - 1
      BY <3>1
    <3> QED BY <2>2, <3>1, <3>2
  <2> QED BY <1>1, <2>1, <2>2
<1>3. \A k \in 1 .. b + n : u[k] < a + (b + n)
  <2> TAKE k \in 1 .. b + n
  <2>1. CASE k \in 1 .. b /\ u[k] = p[k]
    BY <1>1, <2>1
  <2>2. CASE k > b /\ u[k] = a + k - 1
    BY <1>1, <2>2
  <2> QED BY <1>2, <2>1, <2>2
<1>4. \A j \in 1 .. a : q[j] < a + (b + n)
  BY <1>1
<1>5. ASSUME NEW j \in 1 .. a, NEW k \in 1 .. b + n PROVE q[j] # u[k]
  <2>1. CASE k \in 1 .. b /\ u[k] = p[k]
    BY <2>1 DEF Apart
  <2>2. CASE k > b /\ u[k] = a + k - 1
    BY <1>1, <2>2
  <2> QED BY <1>2, <2>1, <2>2
<1>6. ASSUME NEW j \in 1 .. b + n, NEW k \in 1 .. b + n, u[j] = u[k] PROVE j = k
  <2>1. CASE j \in 1 .. b /\ k \in 1 .. b
    <3>1. u[j] = p[j] /\ u[k] = p[k]
      BY <2>1
    <3> QED BY <1>6, <2>1, <3>1 DEF Apart
  <2>2. CASE j > b /\ k > b
    <3>1. u[j] = a + j - 1 /\ u[k] = a + k - 1
      BY <1>1, <1>2, <2>2
    <3>2. a + j - 1 = a + k - 1
      BY <1>6, <3>1
    <3>3. a \in Nat /\ j \in Int /\ k \in Int
      BY <1>1
    <3> HIDE DEF a, b
    <3> QED BY ONLY <3>2, <3>3
  <2>3. CASE j \in 1 .. b /\ k > b
    <3>1. u[j] = p[j] /\ u[k] = a + k - 1
      <4>1. b \in Nat /\ ~(k \in 1 .. b) /\ ~(j > b)
        BY <1>1, <2>3
      <4> HIDE DEF a, b
      <4> QED BY <1>2, <4>1, <2>3
    <3>2. p[j] \in Nat /\ p[j] < a + b /\ a \in Nat /\ b \in Nat /\ k \in Nat /\ k > b
      BY <1>1, <2>3
    <3>3. p[j] = a + k - 1
      BY <1>6, <3>1
    <3> HIDE DEF a, b
    <3> QED BY ONLY <3>2, <3>3
  <2>4. CASE k \in 1 .. b /\ j > b
    <3>1. u[k] = p[k] /\ u[j] = a + j - 1
      <4>1. b \in Nat /\ ~(j \in 1 .. b) /\ ~(k > b)
        BY <1>1, <2>4
      <4> HIDE DEF a, b
      <4> QED BY <1>2, <4>1, <2>4
    <3>2. p[k] \in Nat /\ p[k] < a + b /\ a \in Nat /\ b \in Nat /\ j \in Nat /\ j > b
      BY <1>1, <2>4
    <3>3. p[k] = a + j - 1
      BY <1>6, <3>1
    <3> HIDE DEF a, b
    <3> QED BY ONLY <3>2, <3>3
  <2> QED BY <1>1, <2>1, <2>2, <2>3, <2>4
<1>7. Len(u) = b + n /\ a + Len(u) = a + (b + n)
  OBVIOUS
<1>8. \A j, k \in 1 .. a : q[j] = q[k] => j = k
  BY DEF Apart
<1> HIDE DEF a, b
<1> QED BY <1>1, <1>3, <1>4, <1>5, <1>6, <1>7, <1>8 DEF Apart, a

\* The chosen index is polled, the last pending one takes its place.
LEMMA ApartMoves ==
    ASSUME NEW q, NEW p, Apart(q, p), NEW c \in 1 .. Len(p), NEW v \in Seq(Nat), NEW u \in Seq(Nat),
           Len(v) = Len(q) + 1, v[Len(q) + 1] = p[c], \A j \in 1 .. Len(q) : v[j] = q[j],
           Len(u) = Len(p) - 1,
           \A k \in 1 .. Len(p) - 1 : u[k] = IF k = c THEN p[Len(p)] ELSE p[k]
    PROVE  Apart(v, u)
<1> DEFINE a == Len(q)
           b == Len(p)
           place(k) == IF k = c THEN b ELSE k
<1>1. /\ q \in Seq(Nat) /\ p \in Seq(Nat) /\ a \in Nat /\ b \in Nat
      /\ \A j \in 1 .. a : q[j] \in Nat /\ q[j] < a + b
      /\ \A k \in 1 .. b : p[k] \in Nat /\ p[k] < a + b
  BY ApartLens DEF Apart
<1>0. c \in 1 .. b /\ \A k \in 1 .. b - 1 : u[k] = IF k = c THEN p[b] ELSE p[k]
  OBVIOUS
<1>2. ASSUME NEW k \in 1 .. b - 1
      PROVE  place(k) \in 1 .. b /\ u[k] = p[place(k)] /\ place(k) # c
  <2>1. u[k] = p[place(k)]
    BY <1>0
  <2>2. place(k) \in 1 .. b /\ place(k) # c
    <3> HIDE DEF b
    <3> QED BY <1>0, <1>1
  <2> QED BY <2>1, <2>2
<1>3. ASSUME NEW j \in 1 .. b - 1, NEW k \in 1 .. b - 1, place(j) = place(k) PROVE j = k
  <2> HIDE DEF b
  <2> QED BY <1>0, <1>1, <1>3
<1>4. \A j \in 1 .. a + 1 : j \in 1 .. a \/ j = a + 1
  BY <1>1
<1>5. (a + 1) + (b - 1) = a + b
  BY <1>1
<1> HIDE DEF place
<1>6. \A k \in 1 .. b - 1 : u[k] < a + b
  BY <1>1, <1>2
<1>7. \A j \in 1 .. a + 1 : v[j] < a + b
  BY <1>1, <1>4
<1>8. \A j, k \in 1 .. b - 1 : u[j] = u[k] => j = k
  <2> SUFFICES ASSUME NEW j \in 1 .. b - 1, NEW k \in 1 .. b - 1, u[j] = u[k] PROVE j = k
    OBVIOUS
  <2>1. /\ place(j) \in 1 .. b /\ place(k) \in 1 .. b /\ p[place(j)] = p[place(k)]
    BY <1>2
  <2>2. place(j) = place(k)
    BY <2>1 DEF Apart
  <2> QED BY <1>3, <2>2
<1>9. ASSUME NEW j \in 1 .. a + 1, NEW k \in 1 .. b - 1 PROVE v[j] # u[k]
  <2>1. place(k) \in 1 .. b /\ u[k] = p[place(k)] /\ place(k) # c
    BY <1>2
  <2>0. \A x \in 1 .. a, y \in 1 .. b : q[x] # p[y]
    BY DEF Apart
  <2>2. CASE j \in 1 .. a
    <3>1. v[j] = q[j]
      BY <2>2
    <3> QED BY <2>0, <2>1, <2>2, <3>1
  <2>3. CASE j = a + 1
    <3>1. v[j] = p[c] /\ c \in 1 .. b
      BY <2>3
    <3>2. \A x, y \in 1 .. b : p[x] = p[y] => x = y
      BY DEF Apart
    <3> QED BY <2>1, <3>1, <3>2
  <2> QED BY <1>4, <2>2, <2>3
<1>10. ASSUME NEW j \in 1 .. a + 1, NEW k \in 1 .. a + 1, v[j] = v[k] PROVE j = k
  <2>1. CASE j \in 1 .. a /\ k \in 1 .. a
    BY <1>10, <2>1 DEF Apart
  <2>2. CASE j = a + 1 /\ k \in 1 .. a
    BY <1>10, <2>2 DEF Apart
  <2>3. CASE j \in 1 .. a /\ k = a + 1
    BY <1>10, <2>3 DEF Apart
  <2> QED BY <1>4, <2>1, <2>2, <2>3
<1>11. Len(v) = a + 1 /\ Len(u) = b - 1 /\ Len(v) + Len(u) = a + b
  BY <1>5
<1> HIDE DEF a, b
<1> QED BY <1>6, <1>7, <1>8, <1>9, <1>10, <1>11 DEF Apart

Entered(N, q, p, u, i, n) ==
    Apart(q, u) /\ Len(u) = Len(p) + n /\ (i + n) % N = (Len(q) + Len(u)) % N

LEMMA RefillIs ==
    ASSUME NEW N \in Nat \ {0}, NEW q, NEW p, Apart(q, p), NEW n \in Nat \ {0},
           Len(q) + Len(p) + n <= N, NEW i, i = (Len(q) + Len(p)) % N,
           NEW u, u = p \o [k \in 1 .. n |-> (i + k - 1) % N]
    PROVE  Entered(N, q, p, u, i, n)
<1> DEFINE a == Len(q)
           b == Len(p)
           f == [k \in 1 .. n |-> (i + k - 1) % N]
<1>1. p \in Seq(Nat) /\ a \in Nat /\ b \in Nat /\ a + b + n <= N
  BY ApartLens
<1>0. i = (a + b) % N
  OBVIOUS
<1> HIDE DEF a, b
<1>2. i = a + b /\ i \in Nat
  <2>1. a + b \in 0 .. N - 1 /\ a + b \in Nat
    BY ONLY <1>1, N \in Nat \ {0}, n \in Nat \ {0}
  <2> QED BY ONLY <1>0, <2>1, N \in Nat \ {0}
<1>3. ASSUME NEW k \in 1 .. n PROVE (i + k - 1) % N = a + b + k - 1 /\ a + b + k - 1 \in Nat
  <2>1. i + k - 1 = a + b + k - 1 /\ a + b + k - 1 \in 0 .. N - 1 /\ a + b + k - 1 \in Nat
    BY ONLY <1>1, <1>2, N \in Nat \ {0}, n \in Nat \ {0}, k \in 1 .. n
  <2> QED BY ONLY <2>1, N \in Nat \ {0}
<1>4. f \in Seq(Nat) /\ Len(f) = n /\ \A k \in 1 .. n : f[k] = a + b + k - 1
  <2>1. f \in [1 .. n -> Nat]
    BY <1>3
  <2>2. \A k \in 1 .. n : f[k] = a + b + k - 1
    BY <1>3
  <2> HIDE DEF f
  <2> QED BY <2>1, <2>2 DEF Seq
<1>5. u = p \o f
  OBVIOUS
<1> HIDE DEF f
<1>6. /\ u \in Seq(Nat) /\ Len(u) = b + n
      /\ \A k \in 1 .. b : u[k] = p[k]
      /\ \A k \in 1 .. n : u[b + k] = f[k]
  <2>1. Len(p) = b
    BY DEF b
  <2>2. /\ u \in Seq(Nat) /\ Len(u) = b + n
        /\ \A k \in 1 .. b + n : u[k] = IF k <= b THEN p[k] ELSE f[k - b]
    <3>1. p \in Seq(Nat) /\ f \in Seq(Nat) /\ Len(p) = b /\ Len(f) = n
      BY <1>1, <1>4, <2>1
    <3>2. /\ p \o f \in Seq(Nat) /\ Len(p \o f) = Len(p) + Len(f)
          /\ \A k \in 1 .. Len(p) + Len(f) :
                (p \o f)[k] = IF k <= Len(p) THEN p[k] ELSE f[k - Len(p)]
      BY ONLY <3>1, ConcatProperties
    <3> QED BY ONLY <1>5, <3>1, <3>2
  <2>3. \A k \in 1 .. b : k \in 1 .. b + n /\ k <= b
    BY ONLY <1>1, n \in Nat \ {0}
  <2>4. \A k \in 1 .. n : b + k \in 1 .. b + n /\ ~(b + k <= b) /\ (b + k) - b = k
    BY ONLY <1>1, n \in Nat \ {0}
  <2> QED BY <2>2, <2>3, <2>4
<1>7. Apart(q, u)
  <2>1. Len(u) = Len(p) + n /\ \A k \in 1 .. Len(p) : u[k] = p[k]
    BY <1>6 DEF b
  <2>2. \A k \in 1 .. n : u[Len(p) + k] = Len(q) + Len(p) + k - 1
    BY <1>4, <1>6 DEF a, b
  <2>3. Apart(q, p) /\ n \in Nat /\ u \in Seq(Nat)
    BY <1>1, <1>6
  <2> QED BY ONLY <2>1, <2>2, <2>3, ApartGrows
<1>8. (i + n) % N = (a + (b + n)) % N
  <2>1. i + n = a + (b + n)
    BY ONLY <1>1, <1>2, n \in Nat \ {0}
  <2> QED BY <2>1
<1> QED BY <1>6, <1>7, <1>8 DEF a, b, Entered

\* What Window does to cursor, pending indices and indices left.
Opens(N, C, i, p, r, j, u, e) ==
    IF Len(p) = 0
    THEN u = p \o [k \in 1 .. C |-> (i + k - 1) % N] /\ j = (i + C) % N /\ e = N - C
    ELSE IF r # 0
    THEN u = p \o [k \in 1 .. 1 |-> (i + k - 1) % N] /\ j = (i + 1) % N /\ e = r - 1
    ELSE u = p /\ j = i /\ e = r

LEMMA OpensOK ==
    ASSUME NEW N \in Nat \ {0}, NEW C \in 1 .. N, NEW i, NEW p, NEW r, NEW q, PassOK(N, C, i, p, r, q),
           Len(q) < N, NEW j, NEW u, NEW e, Opens(N, C, i, p, r, j, u, e)
    PROVE  ChoiceOK(N, C, j, u, e, q)
<1> DEFINE a == Len(q)
           b == Len(p)
<1>1. /\ Apart(q, p) /\ a \in Nat /\ b \in Nat /\ r \in Nat /\ a < N /\ a + b <= N /\ C \in Nat /\ C > 0 /\ C <= N
      /\ b <= C - 1 /\ i = (a + b) % N
      /\ b # 0 => a + b + r = N /\ (r # 0 => b = C - 1)
      /\ b = 0 => C <= 1 \/ a = 0
  BY ApartLens DEF PassOK, Ahead
<1>2. \A k \in 1 .. Len(q) : q[k] <= k - 1 + Ahead(C)
  BY DEF PassOK
<1>3. CASE b = 0
  <2>1. a + b + C <= N /\ C \in Nat \ {0}
    BY <1>1, <1>3
  <2>2. u = p \o [k \in 1 .. C |-> (i + k - 1) % N] /\ j = (i + C) % N /\ e = N - C
    BY <1>3 DEF Opens
  <2>3. Apart(q, u) /\ Len(u) = b + C /\ (i + C) % N = (a + Len(u)) % N
    <3>1. Apart(q, p) /\ Len(q) + Len(p) + C <= N /\ i = (Len(q) + Len(p)) % N /\ C \in Nat \ {0}
      BY <1>1, <2>1
    <3>2. u = p \o [k \in 1 .. C |-> (i + k - 1) % N]
      BY <2>2
    <3>3. Entered(N, q, p, u, i, C)
      BY <3>1, <3>2, RefillIs
    <3> QED BY <3>3 DEF Entered
  <2> HIDE DEF a, b
  <2>4. Len(u) = C /\ e \in Nat /\ a + Len(u) <= N /\ Len(u) \in 1 .. C /\ (C # 1 => a + Len(u) + e = N)
    <3>1. Len(u) = b + C /\ e = N - C /\ N \in Nat
      BY <2>2, <2>3
    <3> QED BY ONLY <1>1, <1>3, <2>1, <3>1
  <2> QED BY <1>2, <2>2, <2>3, <2>4 DEF ChoiceOK, a
<1>4. CASE b # 0 /\ r # 0
  <2>1. a + b + 1 <= N /\ 1 \in Nat \ {0} /\ b = C - 1
    BY <1>1, <1>4
  <2>2. u = p \o [k \in 1 .. 1 |-> (i + k - 1) % N] /\ j = (i + 1) % N /\ e = r - 1
    BY <1>4 DEF Opens
  <2>3. Apart(q, u) /\ Len(u) = b + 1 /\ (i + 1) % N = (a + Len(u)) % N
    <3>1. Apart(q, p) /\ Len(q) + Len(p) + 1 <= N /\ i = (Len(q) + Len(p)) % N /\ 1 \in Nat \ {0}
      BY <1>1, <2>1
    <3>2. u = p \o [k \in 1 .. 1 |-> (i + k - 1) % N]
      BY <2>2
    <3>3. Entered(N, q, p, u, i, 1)
      BY <3>1, <3>2, RefillIs
    <3> QED BY <3>3 DEF Entered
  <2> HIDE DEF a, b
  <2>4. Len(u) = C /\ e \in Nat /\ a + Len(u) <= N /\ Len(u) \in 1 .. C /\ (C # 1 => a + Len(u) + e = N)
    <3>1. Len(u) = b + 1 /\ e = r - 1 /\ N \in Nat
      BY <2>2, <2>3
    <3> QED BY ONLY <1>1, <1>4, <2>1, <3>1
  <2> QED BY <1>2, <2>2, <2>3, <2>4 DEF ChoiceOK, a
<1>5. CASE b # 0 /\ r = 0
  <2>1. u = p /\ j = i /\ e = r
    BY <1>5 DEF Opens
  <2>2. b \in 1 .. C /\ a + b + r = N
    BY <1>1, <1>5
  <2> QED BY <1>1, <1>2, <1>5, <2>1, <2>2 DEF ChoiceOK
<1> QED BY <1>1, <1>3, <1>4, <1>5

\* A poll through the window.
LEMMA ChosenOK ==
    ASSUME NEW N \in Nat \ {0}, NEW C \in 1 .. N, NEW i, NEW p, NEW r, NEW q, ChoiceOK(N, C, i, p, r, q),
           NEW c \in 1 .. Len(p), NEW u, u = Chosen(p, c), NEW v, v = Append(q, p[c])
    PROVE  PassOK(N, C, i, u, r, v)
<1> DEFINE a == Len(q)
           b == Len(p)
           w == [p EXCEPT ![c] = p[b]]
<1>1. /\ Apart(q, p) /\ a \in Nat /\ b \in Nat /\ r \in Nat /\ a + b <= N /\ C \in Nat
      /\ b >= 1 /\ b <= C /\ i = (a + b) % N
      /\ C # 1 => a + b + r = N /\ (r # 0 => b = C)
      /\ p \in Seq(Nat) /\ q \in Seq(Nat)
  BY ApartLens DEF ChoiceOK
<1>2. w \in Seq(Nat) /\ Len(w) = b /\ \A k \in 1 .. b : w[k] = IF k = c THEN p[b] ELSE p[k]
  <2>1. p \in [1 .. b -> Nat] /\ b \in 1 .. b /\ c \in 1 .. b
    <3>4. p \in Seq(Nat)
      BY <1>1
    <3>1. p \in [1 .. b -> Nat]
      BY ONLY <3>4
    <3>2. c \in 1 .. b
      OBVIOUS
    <3> HIDE DEF b
    <3>3. b \in 1 .. b
      BY ONLY <1>1
    <3> QED BY ONLY <3>1, <3>2, <3>3
  <2>2. w \in [1 .. b -> Nat] /\ \A k \in 1 .. b : w[k] = IF k = c THEN p[b] ELSE p[k]
    BY <2>1
  <2> HIDE DEF w, b
  <2>3. b \in Nat
    BY ONLY <1>1
  <2>4. w \in Seq(Nat)
    BY ONLY <2>2, <2>3 DEF Seq
  <2>5. Len(w) = b
    BY ONLY <2>2, <2>3, <2>4
  <2> QED BY ONLY <2>2, <2>4, <2>5
<1>3. u = SubSeq(w, 1, Len(w) - 1)
  BY DEF Chosen, Front
<1> HIDE DEF w
<1>4. /\ u \in Seq(Nat) /\ Len(u) = b - 1 /\ \A k \in 1 .. b - 1 : u[k] = w[k]
  <2>1. Len(w) - 1 = b - 1 /\ b - 1 \in Nat
    BY <1>1, <1>2
  <2> HIDE DEF b
  <2> QED BY <1>2, <1>3, <2>1, SubSeqProperties
<1>5. \A k \in 1 .. b - 1 : u[k] = IF k = c THEN p[b] ELSE p[k]
  <2>1. \A k \in 1 .. b - 1 : k \in 1 .. b
    BY <1>1
  <2> QED BY <1>2, <1>4, <2>1
<1>6. p[c] \in Nat /\ p[c] < a + b
  BY <1>1, ApartLens DEF Apart
<1>7. v \in Seq(Nat) /\ Len(v) = a + 1 /\ v[a + 1] = p[c] /\ \A k \in 1 .. a : v[k] = q[k]
  BY <1>1, <1>6
<1>8. Apart(v, u)
  <2>1. Apart(q, p) /\ c \in 1 .. Len(p) /\ v \in Seq(Nat) /\ u \in Seq(Nat)
    BY <1>1, <1>4, <1>7
  <2>2. /\ Len(v) = Len(q) + 1 /\ v[Len(q) + 1] = p[c] /\ \A k \in 1 .. Len(q) : v[k] = q[k]
        /\ Len(u) = Len(p) - 1 /\ \A k \in 1 .. Len(p) - 1 : u[k] = IF k = c THEN p[Len(p)] ELSE p[k]
    BY ONLY <1>4, <1>5, <1>7 DEF a, b
  <2> QED BY ONLY <2>1, <2>2, ApartMoves
<1>9. Len(v) + Len(u) = a + b
  BY <1>1, <1>4, <1>7
<1>10. ASSUME NEW k \in 1 .. a + 1 PROVE v[k] <= k - 1 + Ahead(C)
  <2>1. CASE k \in 1 .. a
    BY <1>7, <2>1 DEF ChoiceOK
  <2>2. CASE k = a + 1
    <3>1. Ahead(C) = C - 1 /\ v[k] = p[c]
      BY <1>7, <2>2 DEF Ahead
    <3> HIDE DEF a, b
    <3>2. p[c] <= (a + 1) - 1 + (C - 1)
      <4>1. a \in Nat /\ b \in Nat /\ C \in Nat /\ b <= C
        BY <1>1
      <4> DEFINE x == p[c]
      <4>2. x \in Nat /\ x < a + b
        BY <1>6
      <4> HIDE DEF x
      <4>3. x <= (a + 1) - 1 + (C - 1)
        BY ONLY <4>1, <4>2
      <4> QED BY <4>3 DEF x
    <3> QED BY <2>2, <3>1, <3>2
  <2>3. k \in 1 .. a \/ k = a + 1
    <3> HIDE DEF a
    <3> QED BY <1>1
  <2> QED BY <2>1, <2>2, <2>3
<1>11. Ahead(C) = C - 1
  BY DEF Ahead
<1> HIDE DEF a, b
<1>12. /\ Len(u) <= Ahead(C)
       /\ Len(u) # 0 => Len(v) + Len(u) + r = N /\ (r # 0 => Len(u) = C - 1)
       /\ Len(u) = 0 => C <= 1 \/ Len(v) = 0 \/ Len(v) = N
  BY <1>1, <1>4, <1>7, <1>9, <1>11
<1> QED BY <1>1, <1>7, <1>8, <1>9, <1>10, <1>12 DEF PassOK

\* A poll without a window.
LEMMA InOrderOK ==
    ASSUME NEW N \in Nat \ {0}, NEW i, NEW p, NEW r, NEW q, PassOK(N, 0, i, p, r, q), Len(q) < N,
           NEW v, v = Append(q, i)
    PROVE  PassOK(N, 0, (i + 1) % N, p, r, v)
<1> DEFINE a == Len(q)
<1>1. /\ Apart(q, p) /\ a \in Nat /\ Len(p) = 0 /\ i = (a + Len(p)) % N /\ a < N /\ r \in Nat
      /\ p \in Seq(Nat) /\ q \in Seq(Nat)
  BY ApartLens DEF PassOK, Ahead
<1>2. i = a
  <2>1. a \in 0 .. N - 1 /\ a + Len(p) = a
    BY <1>1
  <2> HIDE DEF a
  <2>2. i = a % N
    BY ONLY <1>1, <2>1
  <2> QED BY ONLY <2>1, <2>2, N \in Nat \ {0}
<1>3. v \in Seq(Nat) /\ Len(v) = a + 1 /\ v[a + 1] = i /\ \A k \in 1 .. a : v[k] = q[k]
  BY <1>1, <1>2
<1>4. \A k \in 1 .. a : q[k] \in Nat /\ q[k] < a /\ q[k] <= k - 1
  BY <1>1, ApartLens DEF PassOK, Apart, Ahead
<1>5. \A j, k \in 1 .. a : q[j] = q[k] => j = k
  BY <1>1 DEF Apart
<1> HIDE DEF a
<1>6. ASSUME NEW j \in 1 .. a + 1, NEW k \in 1 .. a + 1, v[j] = v[k] PROVE j = k
  <2>1. CASE j \in 1 .. a /\ k \in 1 .. a
    BY <1>3, <1>5, <1>6, <2>1
  <2>2. CASE j = a + 1 /\ k \in 1 .. a
    BY <1>1, <1>2, <1>3, <1>4, <1>6, <2>2
  <2>3. CASE j \in 1 .. a /\ k = a + 1
    BY <1>1, <1>2, <1>3, <1>4, <1>6, <2>3
  <2> QED BY <1>1, <2>1, <2>2, <2>3
<1>7. \A j \in 1 .. a + 1 : v[j] < (a + 1) + Len(p) /\ v[j] <= j - 1 + Ahead(0)
  <2> TAKE j \in 1 .. a + 1
  <2>1. CASE j \in 1 .. a
    <3>1. v[j] = q[j] /\ q[j] \in Nat /\ q[j] < a /\ q[j] <= j - 1 /\ Ahead(0) = 0 /\ j \in Nat
      BY <1>3, <1>4, <2>1 DEF Ahead
    <3>2. a \in Nat /\ Len(p) = 0
      BY <1>1
    <3> QED BY ONLY <3>1, <3>2
  <2>2. CASE j = a + 1
    <3>1. v[j] = a /\ Ahead(0) = 0 /\ j = a + 1
      BY <1>2, <1>3, <2>2 DEF Ahead
    <3>2. a \in Nat /\ Len(p) = 0
      BY <1>1
    <3> QED BY ONLY <3>1, <3>2
  <2>3. j \in 1 .. a \/ j = a + 1
    BY <1>1
  <2> QED BY <2>1, <2>2, <2>3
<1>8. Apart(v, p)
  BY <1>1, <1>3, <1>6, <1>7 DEF Apart
<1>9. (i + 1) % N = (Len(v) + Len(p)) % N
  <2>1. i + 1 = Len(v) + Len(p)
    BY <1>1, <1>2, <1>3
  <2> QED BY <2>1
<1>10. Len(v) + Len(p) <= N /\ Len(p) <= Ahead(0)
  <2>1. Ahead(0) = 0 /\ Len(v) = a + 1 /\ Len(p) = 0 /\ a < N /\ a \in Nat /\ N \in Nat
    BY <1>1, <1>3 DEF Ahead
  <2> QED BY ONLY <2>1
<1>11. \A k \in 1 .. Len(v) : v[k] <= k - 1 + Ahead(0)
  BY <1>3, <1>7
<1>12. Len(p) = 0 /\ 0 <= 1 /\ r \in Nat
  BY <1>1
<1> HIDE DEF a
<1> QED BY ONLY <1>8, <1>9, <1>10, <1>11, <1>12 DEF PassOK

\* A pass that is over.
LEMMA FreshPass ==
    ASSUME NEW N \in Nat \ {0}, NEW C \in 0 .. N, NEW i, NEW p, NEW r, NEW q, PassOK(N, C, i, p, r, q),
           Len(q) = N
    PROVE  PassOK(N, C, i, p, r, << >>)
<1>1. p \in Seq(Nat) /\ Len(p) = 0 /\ i = (N + Len(p)) % N /\ r \in Nat
  BY ApartLens DEF PassOK
<1>2. i = (0 + Len(p)) % N
  <2>1. N % N = 0 /\ 0 % N = 0
    OBVIOUS
  <2> QED BY <1>1, <2>1
<1>3. << >> \in Seq(Nat) /\ Len(<< >>) = 0 /\ 1 .. 0 = {} /\ 0 + Len(p) <= N
  BY <1>1
<1>4. Apart(<< >>, p)
  BY <1>1, <1>3 DEF Apart
<1>5. Len(p) <= Ahead(C)
  BY <1>1 DEF Ahead
<1> QED BY <1>1, <1>2, <1>3, <1>4, <1>5 DEF PassOK

-----------------------------------------------------------------------------
\* The messages of the generator, the configurations and the source.
Wire == [type : {"A", "E", "X", "D"}, len : Nat, timestamp : Nat, locate : Nat, ref : Nat,
         shares : Nat, price : Nat, stock : Nat, mark : {"B", "S", "none"}, match : Nat]

SimRecord == [prebuf : Seq(Wire), refs : Nat, idx : Nat, pending : Seq(Nat), remaining : Nat,
              since : Nat, burst : Nat, cursor : Nat, symbols : TableType]

LEMMA ConfigIs ==
    ASSUME NEW c \in SimConfigs
    PROVE  /\ c.mode \in {"synthetic", "replay"} /\ c.symbols \in 0 .. NumSymbols
           /\ c.prebuf_count \in 1 .. Midnight /\ c.reorder_window \in Nat
           /\ c.burst_size \in Nat /\ c.burst_interval \in Nat
           /\ c.min_qty \in Nat \ {0} /\ c.max_qty \in 0 .. MaxQuantity
           /\ c.min_price \in Nat \ {0} /\ c.max_price \in 0 .. MaxPrice
           /\ 1 .. c.symbols \subseteq Tickers
BY SimAssumption

LEMMA CapacityIs ==
    ASSUME cfg \in SimConfigs
    PROVE  cfg.prebuf_count \in Nat \ {0} /\ ReorderCapacity \in 0 .. cfg.prebuf_count
BY ConfigIs, DecoderAssumption DEF ReorderCapacity

\* What a poll leaves of source s: the buffer and the tickers, and cursor, pending
\* indices and indices left as given.
Polled(s, t, j, u, e) ==
    /\ t \in SimRecord
    /\ t.prebuf = s.prebuf /\ t.refs = s.refs /\ t.symbols = s.symbols
    /\ t.idx = j /\ t.pending = u /\ t.remaining = e

LEMMA NoteKeeps ==
    ASSUME cfg \in SimConfigs, NEW s \in SimRecord
    PROVE  Polled(s, note_attempt(s), s.idx, s.pending, s.remaining)
<1>1. s.burst \in Nat /\ s.since \in Nat /\ cfg.burst_size \in Nat
  BY ConfigIs DEF SimRecord
<1>2. CASE s.burst # 0
  <2>1. s.burst - 1 \in Nat /\ note_attempt(s) = [s EXCEPT !.burst = s.burst - 1]
    BY <1>1, <1>2 DEF note_attempt
  <2> QED BY <2>1 DEF Polled, SimRecord
<1>3. CASE s.burst = 0 /\ (cfg.burst_size = 0 \/ cfg.burst_interval = 0)
  <2>1. note_attempt(s) = s
    BY <1>3 DEF note_attempt
  <2> QED BY <2>1 DEF Polled
<1>4. CASE s.burst = 0 /\ ~(cfg.burst_size = 0 \/ cfg.burst_interval = 0)
  <2>1. CASE s.since + 1 >= cfg.burst_interval
    <3>1. note_attempt(s) = [s EXCEPT !.since = 0, !.burst = cfg.burst_size]
      BY <1>4, <2>1 DEF note_attempt
    <3> DEFINE a == [s EXCEPT !.since = 0]
               z == [a EXCEPT !.burst = cfg.burst_size]
    <3>2. Polled(s, a, s.idx, s.pending, s.remaining)
      BY DEF Polled, SimRecord
    <3>3. note_attempt(s) = z
      BY <3>1 DEF SimRecord
    <3> HIDE DEF a
    <3>4. Polled(s, z, s.idx, s.pending, s.remaining)
      BY <1>1, <3>2 DEF Polled, SimRecord
    <3> HIDE DEF z
    <3> QED BY <3>3, <3>4
  <2>2. CASE ~(s.since + 1 >= cfg.burst_interval)
    <3>1. note_attempt(s) = [s EXCEPT !.since = s.since + 1] /\ s.since + 1 \in Nat
      BY <1>1, <1>4, <2>2 DEF note_attempt
    <3> QED BY <3>1 DEF Polled, SimRecord
  <2> QED BY <2>1, <2>2
<1> QED BY <1>2, <1>3, <1>4

\* The window before a choice.
LEMMA WindowOpens ==
    ASSUME cfg \in SimConfigs, NEW s \in SimRecord, ReorderCapacity # 0, NEW q,
           PassOK(cfg.prebuf_count, ReorderCapacity, s.idx, s.pending, s.remaining, q),
           Len(q) < cfg.prebuf_count, NEW w, w = Window(s)
    PROVE  /\ ChoiceOK(cfg.prebuf_count, ReorderCapacity, w.idx, w.pending, w.remaining, q)
           /\ Polled(s, w, w.idx, w.pending, w.remaining)
<1> DEFINE N == cfg.prebuf_count
           C == ReorderCapacity
           long(n) == s.pending \o [k \in 1 .. n |-> (s.idx + k - 1) % N]
           ahead(n) == (s.idx + n) % N
<1>1. N \in Nat \ {0} /\ C \in 1 .. N
  BY CapacityIs
<1>2. /\ s.pending \in Seq(Nat) /\ s.remaining \in Nat /\ s.idx \in Nat
      /\ s.pending = << >> <=> Len(s.pending) = 0
  BY EmptySeq DEF SimRecord
<1>3. /\ w.prebuf = s.prebuf /\ w.refs = s.refs /\ w.symbols = s.symbols
      /\ w = [s EXCEPT !.pending = w.pending, !.idx = w.idx, !.remaining = w.remaining]
      /\ Opens(N, C, s.idx, s.pending, s.remaining, w.idx, w.pending, w.remaining)
  <2>1. CASE Len(s.pending) = 0
    <3>1. w = [[s EXCEPT !.pending = long(C), !.idx = ahead(C)] EXCEPT !.remaining = N - C]
      BY <1>2, <2>1 DEF Window, Refilled
    <3>2. Opens(N, C, s.idx, s.pending, s.remaining, ahead(C), long(C), N - C)
      BY <2>1 DEF Opens
    <3> HIDE DEF long, ahead, N, C
    <3> QED BY <3>1, <3>2 DEF SimRecord
  <2>2. CASE Len(s.pending) # 0 /\ s.remaining # 0
    <3>1. w = [[s EXCEPT !.pending = long(1), !.idx = ahead(1)] EXCEPT !.remaining = s.remaining - 1]
      BY <1>2, <2>2 DEF Window, Refilled, SimRecord
    <3>2. Opens(N, C, s.idx, s.pending, s.remaining, ahead(1), long(1), s.remaining - 1)
      BY <2>2 DEF Opens
    <3> HIDE DEF long, ahead, N, C
    <3> QED BY <3>1, <3>2 DEF SimRecord
  <2>3. CASE Len(s.pending) # 0 /\ s.remaining = 0
    <3>1. w = s
      BY <1>2, <2>3 DEF Window
    <3>2. Opens(N, C, s.idx, s.pending, s.remaining, s.idx, s.pending, s.remaining)
      BY <2>3 DEF Opens
    <3> QED BY <3>1, <3>2 DEF SimRecord
  <2> QED BY <1>2, <2>1, <2>2, <2>3
<1>4. ChoiceOK(N, C, w.idx, w.pending, w.remaining, q)
  BY <1>1, <1>3, OpensOK
<1>5. w.pending \in Seq(Nat) /\ w.remaining \in Nat /\ w.idx \in Nat
  <2>1. /\ w.pending \in Seq(Nat) /\ w.remaining \in Nat /\ Len(q) \in Nat /\ Len(w.pending) \in Nat
        /\ w.idx = (Len(q) + Len(w.pending)) % N
    BY <1>4, ApartLens DEF ChoiceOK
  <2> QED BY <1>1, <2>1
<1>6. w \in SimRecord
  <2> HIDE DEF N, C
  <2> QED BY <1>3, <1>5 DEF SimRecord
<1> QED BY <1>3, <1>4, <1>6 DEF Polled

LEMMA PollKeeps ==
    ASSUME cfg \in SimConfigs, NEW s \in SimRecord, NEW q,
           PassOK(cfg.prebuf_count, ReorderCapacity, s.idx, s.pending, s.remaining, q),
           Len(q) < cfg.prebuf_count, NEW choice \in WindowChoices(s),
           NEW next, next = next_synthetic_index(s, choice), NEW x, x = next.source
    PROVE  /\ PassOK(cfg.prebuf_count, ReorderCapacity, x.idx, x.pending, x.remaining, Append(q, next.index))
           /\ Polled(s, x, x.idx, x.pending, x.remaining)
<1> DEFINE N == cfg.prebuf_count
           C == ReorderCapacity
<1>1. N \in Nat \ {0} /\ C \in 0 .. N
  BY CapacityIs
<1>2. CASE C = 0
  <2>1. next.index = s.idx /\ x = [s EXCEPT !.idx = (s.idx + 1) % N]
    BY <1>2 DEF next_synthetic_index, Following, SimRecord
  <2>2. s.idx \in Nat /\ (s.idx + 1) % N \in Nat
    BY <1>1 DEF SimRecord
  <2>3. PassOK(N, C, (s.idx + 1) % N, s.pending, s.remaining, Append(q, next.index))
    BY <1>1, <1>2, <2>1, InOrderOK
  <2> HIDE DEF N, C
  <2>4. Polled(s, x, x.idx, x.pending, x.remaining) /\ x.idx = (s.idx + 1) % N /\ x.pending = s.pending
        /\ x.remaining = s.remaining
    BY <2>1, <2>2 DEF Polled, SimRecord
  <2> QED BY <2>3, <2>4 DEF N, C
<1>3. CASE C # 0
  <2> DEFINE w == Window(s)
             u == Chosen(w.pending, choice)
  <2>1. ChoiceOK(N, C, w.idx, w.pending, w.remaining, q) /\ Polled(s, w, w.idx, w.pending, w.remaining)
    BY <1>3, WindowOpens
  <2>2. choice \in DOMAIN w.pending /\ next.index = w.pending[choice] /\ x = [w EXCEPT !.pending = u]
    BY <1>3 DEF WindowChoices, next_synthetic_index
  <2> HIDE DEF w, u
  <2>3. choice \in 1 .. Len(w.pending)
    <3>1. w.pending \in Seq(Nat)
      BY ONLY <2>1 DEF Polled, SimRecord
    <3> QED BY ONLY <2>2, <3>1
  <2>4. PassOK(N, C, w.idx, u, w.remaining, Append(q, next.index))
    <3>1. C \in 1 .. N
      BY <1>1, <1>3
    <3>2. u = Chosen(w.pending, choice)
      BY DEF u
    <3>3. Append(q, next.index) = Append(q, w.pending[choice])
      BY <2>2
    <3>4. N \in Nat \ {0} /\ ChoiceOK(N, C, w.idx, w.pending, w.remaining, q)
      BY <1>1, <2>1
    <3> HIDE DEF N, C
    <3> QED BY ONLY <2>3, <3>1, <3>2, <3>3, <3>4, ChosenOK
  <2>5. u \in Seq(Nat)
    BY <2>4, ApartLens DEF PassOK
  <2>6. x.idx = w.idx /\ x.pending = u /\ x.remaining = w.remaining /\ x \in SimRecord
        /\ x.prebuf = s.prebuf /\ x.refs = s.refs /\ x.symbols = s.symbols
    BY <2>1, <2>2, <2>5 DEF Polled, SimRecord
  <2> QED BY <2>4, <2>6 DEF Polled
<1> QED BY <1>2, <1>3

-----------------------------------------------------------------------------
\* The first n tickers are registered.
KnowsTo(t, n) ==
    TableOK(t) /\ t.count <= n /\ \A j \in 1 .. n : HasPlace(t, j, j - 1)

LEMMA KnowsNext ==
    ASSUME NEW N \in 0 .. NumSymbols, 1 .. N \subseteq Tickers, NEW n \in 1 .. N,
           NEW t, KnowsTo(t, n - 1), NEW u, u = insert(t, n, n - 1)
    PROVE  KnowsTo(u, n)
<1>1. NumSymbols \in Nat /\ NumSymbols = TableCap \div 2 /\ n \in Nat /\ n <= NumSymbols /\ n - 1 \in 0 .. NumSymbols - 1
  BY HalfTable
<1>2. TableOK(t) /\ t.count \in Nat /\ t.count <= n - 1
  BY DEF KnowsTo, TableOK, TableType
<1>3. HasRoom(t)
  <2>1. t.count < NumSymbols
    BY <1>1, <1>2
  <2> QED BY <1>1, <2>1 DEF HasRoom
<1>4. n \in Tickers
  OBVIOUS
<1>5. /\ TableOK(u) /\ HasPlace(u, n, n - 1) /\ u.count <= t.count + 1
      /\ \A j \in Tickers \ {n} : \A x \in 0 .. NumSymbols - 1 : HasPlace(t, j, x) => HasPlace(u, j, x)
  BY <1>1, <1>2, <1>3, <1>4, InsertPlaces
<1>6. u.count <= n
  <2>1. u.count \in Nat
    BY <1>5 DEF TableOK, TableType
  <2> QED BY <1>1, <1>2, <1>5, <2>1
<1>7. ASSUME NEW j \in 1 .. n PROVE HasPlace(u, j, j - 1)
  <2>1. CASE j = n
    BY <1>5, <2>1
  <2>2. CASE j # n
    <3>1. j \in 1 .. n - 1 /\ j \in Tickers \ {n} /\ j - 1 \in 0 .. NumSymbols - 1
      BY <1>1, <2>2
    <3>2. HasPlace(t, j, j - 1)
      BY <3>1 DEF KnowsTo
    <3> QED BY <1>5, <3>1, <3>2
  <2> QED BY <2>1, <2>2
<1> QED BY <1>5, <1>6, <1>7 DEF KnowsTo

LEMMA InsertKeeps ==
    ASSUME NEW t, TableOK(t), NEW k \in Tickers, NEW x \in 0 .. NumSymbols - 1
    PROVE  TableOK(insert(t, k, x))
<1>1. CASE HasRoom(t)
  BY <1>1, InsertPlaces
<1>2. CASE ~HasRoom(t)
  <2>1. insert(t, k, x) = t
    BY <1>2 DEF insert
  <2> QED BY <2>1
<1> QED BY <1>1, <1>2

\* init_synthetic registers every ticker.
LEMMA SymbolsKnown ==
    ASSUME NEW c \in SimConfigs
    PROVE  KnowsTo(SimSymbols(c), c.symbols)
<1> DEFINE N == c.symbols
           s == [i \in 1 .. N |-> i - 1]
           V(w, i) == insert(w, format_stock(s[i]), s[i])
           T == {w \in TableType : TableOK(w)}
           step == [i \in 1 .. N |-> [w \in T |-> V(w, i)]]
           body(g) == [t \in SUBSET (1 .. N) |-> IF t = {} THEN EmptyTable ELSE V(g[t \ {Max(t)}], Max(t))]
           fold == CHOOSE g : g = body(g)
<1>0. N \in 0 .. NumSymbols /\ N \in Nat /\ 1 .. N \subseteq Tickers /\ NumSymbols \in Nat
  BY ConfigIs, HalfTable
<1>1. \A t \in SUBSET (1 .. N) : t # {} => Max(t) \in t
  <2> TAKE t \in SUBSET (1 .. N)
  <2>1. t \subseteq 0 .. N
    BY <1>0
  <2> QED BY <1>0, <2>1, MaxIn
<1>2. \A i \in 1 .. N : s[i] = i - 1 /\ format_stock(s[i]) = i /\ s[i] \in 0 .. NumSymbols - 1 /\ i \in Tickers
  BY <1>0 DEF format_stock
<1>4. SimSymbols(c) = fold[1 .. N]
  BY <1>0 DEF SimSymbols, FoldLeft, MapThenFoldSet
<1> HIDE DEF s
<1>3. \A w, i : i \in 1 .. N => V(w, i) = insert(w, i, i - 1)
  BY <1>2
<1>30. \A w \in T, i \in 1 .. N : V(w, i) \in T
  <2> TAKE w \in T, i \in 1 .. N
  <2>1. TableOK(insert(w, i, i - 1))
    BY <1>2, InsertKeeps
  <2> QED BY <1>3, <2>1 DEF TableOK
<1> HIDE DEF V
<1>5. step \in [1 .. N -> [T -> T]]
  <2> HIDE DEF T
  <2> QED BY <1>30
<1>50. EmptyTable \in T
  BY EmptyTableOK DEF TableOK
<1>6. PICK f : Folds(f, step, EmptyTable, T, N)
  <2> HIDE DEF step, T
  <2> QED BY ONLY <1>0, <1>5, <1>50, FoldsExist
<1> HIDE DEF T
<1>7. f = body(f)
  <2>1. ASSUME NEW t \in SUBSET (1 .. N) PROVE f[t] = body(f)[t]
    <3>1. CASE t = {}
      BY <1>6, <3>1 DEF Folds
    <3>2. CASE t # {}
      <4>1. Max(t) \in 1 .. N /\ t \ {Max(t)} \in SUBSET (1 .. N)
        BY <1>1, <3>2
      <4>2. f[t \ {Max(t)}] \in T /\ f[t] = step[Max(t)][f[t \ {Max(t)}]]
        BY <1>6, <3>2, <4>1 DEF Folds
      <4>3. step[Max(t)][f[t \ {Max(t)}]] = V(f[t \ {Max(t)}], Max(t))
        BY <4>1, <4>2
      <4> QED BY <3>2, <4>2, <4>3
    <3> QED BY <3>1, <3>2
  <2> QED BY <1>6, <2>1 DEF Folds
<1>8. fold = body(fold)
  <2> HIDE DEF body
  <2> QED BY <1>7
<1> HIDE DEF fold
<1>9. fold[{}] = EmptyTable /\ fold[1 .. 0] = EmptyTable
  <2>1. 1 .. 0 = {}
    OBVIOUS
  <2> QED BY <1>8, <2>1
<1>10. ASSUME NEW n \in 1 .. N PROVE fold[1 .. n] = V(fold[1 .. (n - 1)], n)
  <2>1. \A i \in 1 .. n : i \in 1 .. N
    BY <1>0
  <2>2. n \in 1 .. n /\ n \in Nat \ {0}
    BY <1>0
  <2>3. fold[1 .. n] = V(fold[(1 .. n) \ {Max(1 .. n)}], Max(1 .. n))
    BY <1>8, <2>1, <2>2
  <2> QED BY <2>2, <2>3, MaxPrefix
<1> HIDE DEF N
<1> DEFINE S == {n \in Nat : n <= N => KnowsTo(fold[1 .. n], n)}
<1>11. 0 \in S
  BY <1>9, EmptyTableOK DEF KnowsTo
<1>12. \A n \in Nat : n \in S => n + 1 \in S
  <2> SUFFICES ASSUME NEW n \in Nat, n \in S, n + 1 <= N PROVE KnowsTo(fold[1 .. (n + 1)], n + 1)
    OBVIOUS
  <2>1. n + 1 \in 1 .. N /\ (n + 1) - 1 = n /\ KnowsTo(fold[1 .. n], n)
    BY <1>0
  <2>2. fold[1 .. (n + 1)] = insert(fold[1 .. n], n + 1, (n + 1) - 1) /\ KnowsTo(fold[1 .. n], (n + 1) - 1)
    BY <1>3, <1>10, <2>1
  <2> QED BY ONLY <1>0, <2>1, <2>2, KnowsNext
<1>13. N \in S
  <2> HIDE DEF S
  <2> QED BY <1>0, <1>11, <1>12, NatSetInduction
<1> QED BY <1>0, <1>4, <1>13 DEF N

-----------------------------------------------------------------------------
\* Every message of the generator decodes.
Generated(t, m) == m \in Wire /\ Decodes(t, m)

LEMMA GeneratedDecodes ==
    ASSUME NEW c \in SimConfigs, NEW t, KnowsTo(t, c.symbols), NEW ts \in Nat, ts < Midnight,
           NEW refs \in Nat \ {0}, NEW m \in generate_synthetic_messages(c, ts, refs)
    PROVE  Generated(t, m)
<1>1. /\ NumSymbols \in Nat /\ c.symbols \in Nat /\ c.symbols <= NumSymbols /\ 1 .. c.symbols \subseteq Tickers
      /\ c.min_qty \in Nat \ {0} /\ c.max_qty \in Nat /\ c.max_qty <= MaxQuantity /\ MaxQuantity \in Nat
      /\ c.min_price \in Nat \ {0} /\ c.max_price \in Nat /\ c.max_price <= MaxPrice /\ MaxPrice \in Nat
  BY ConfigIs, HalfTable, DecoderAssumption
<1>2. \A i \in 0 .. c.symbols - 1 : i \in Nat /\ i < NumSymbols
  BY <1>1
<1>3. ExistingRefs(refs) \subseteq Nat \ {0}
  BY DEF ExistingRefs
<1>4. CASE m \in gen_add_order(c, ts, refs)
  <2>1. PICK i \in 0 .. c.symbols - 1, q \in c.min_qty .. c.max_qty,
             p \in c.min_price .. c.max_price, side \in {"B", "S"} :
             m = Message("A", 36, ts, i, refs, q, p, format_stock(i), side, 0)
    BY <1>4 DEF gen_add_order
  <2>2. q \in 1 .. MaxQuantity /\ q \in Nat /\ p \in 1 .. MaxPrice /\ p \in Nat
    BY <1>1
  <2>3. lookup(t, i + 1) = i
    <3>1. i + 1 \in 1 .. c.symbols /\ (i + 1) - 1 = i /\ i + 1 \in Tickers
      BY <1>1
    <3>2. HasPlace(t, i + 1, i)
      BY <3>1 DEF KnowsTo
    <3> QED BY <3>1, <3>2, LookupFinds
  <2>4. /\ m.type = "A" /\ m.len = 36 /\ m.timestamp = ts /\ m.ref = refs /\ m.shares = q /\ m.price = p
        /\ m.stock = i + 1 /\ m.mark \in {"B", "S"}
    BY <2>1 DEF Message, format_stock
  <2>5. m \in Wire
    <3>1. i \in Nat /\ format_stock(i) \in Nat /\ refs \in Nat /\ ts \in Nat
      BY <1>2 DEF format_stock
    <3> HIDE DEF format_stock
    <3> QED BY <2>1, <2>2, <3>1 DEF Message, Wire
  <2>6. m.type \in ByTicker /\ SymbolOf(t, m) = i
    BY <2>3, <2>4 DEF ByTicker, SymbolOf
  <2>7. HeaderValid(m)
    BY <2>4 DEF HeaderValid, minimum_length
  <2>8. FieldsValid(m)
    BY <2>2, <2>4 DEF FieldsValid, is_valid_quantity, is_valid_price
  <2> QED BY <1>2, <2>5, <2>6, <2>7, <2>8 DEF Generated, Decodes
<1>5. CASE m \in gen_order_executed(c, ts, refs)
  <2>1. PICK i \in 0 .. c.symbols - 1, ref \in ExistingRefs(refs), q \in 1 .. c.max_qty \div 2 :
             m = Message("E", 31, ts, i, ref, q, 0, 0, "none", 1)
    BY <1>5 DEF gen_order_executed
  <2>2. q \in 1 .. MaxQuantity /\ q \in Nat
    <3> DEFINE h == c.max_qty \div 2
    <3>1. h \in Nat /\ h <= c.max_qty
      BY <1>1
    <3>2. q \in 1 .. h
      OBVIOUS
    <3> HIDE DEF h
    <3> QED BY ONLY <1>1, <3>1, <3>2
  <2>3. /\ m.type = "E" /\ m.len = 31 /\ m.timestamp = ts /\ m.ref = ref /\ m.shares = q /\ m.locate = i
    BY <2>1 DEF Message
  <2>4. ref \in Nat \ {0}
    BY <1>3
  <2>5. m \in Wire
    BY <1>2, <2>1, <2>2, <2>4 DEF Message, Wire
  <2>6. m.type \in ByLocate /\ SymbolOf(t, m) = i
    BY <2>3 DEF ByTicker, ByLocate, SymbolOf
  <2>7. HeaderValid(m)
    BY <2>3 DEF HeaderValid, minimum_length
  <2>8. FieldsValid(m)
    BY <2>2, <2>3, <2>4 DEF FieldsValid, is_valid_quantity
  <2> QED BY <1>2, <2>5, <2>6, <2>7, <2>8 DEF Generated, Decodes
<1>6. CASE m \in gen_order_cancel(c, ts, refs)
  <2>1. PICK i \in 0 .. c.symbols - 1, ref \in ExistingRefs(refs), q \in 1 .. c.max_qty :
             m = Message("X", 23, ts, i, ref, q, 0, 0, "none", 0)
    BY <1>6 DEF gen_order_cancel
  <2>2. q \in 1 .. MaxQuantity /\ q \in Nat
    BY <1>1
  <2>3. /\ m.type = "X" /\ m.len = 23 /\ m.timestamp = ts /\ m.ref = ref /\ m.shares = q /\ m.locate = i
    BY <2>1 DEF Message
  <2>4. ref \in Nat \ {0}
    BY <1>3
  <2>5. m \in Wire
    BY <1>2, <2>1, <2>2, <2>4 DEF Message, Wire
  <2>6. m.type \in ByLocate /\ SymbolOf(t, m) = i
    BY <2>3 DEF ByTicker, ByLocate, SymbolOf
  <2>7. HeaderValid(m)
    BY <2>3 DEF HeaderValid, minimum_length
  <2>8. FieldsValid(m)
    BY <2>2, <2>3, <2>4 DEF FieldsValid, is_valid_quantity
  <2> QED BY <1>2, <2>5, <2>6, <2>7, <2>8 DEF Generated, Decodes
<1>7. CASE m \in gen_order_delete(c, ts, refs)
  <2>1. PICK i \in 0 .. c.symbols - 1, ref \in ExistingRefs(refs) :
             m = Message("D", 19, ts, i, ref, 0, 0, 0, "none", 0)
    BY <1>7 DEF gen_order_delete
  <2>3. /\ m.type = "D" /\ m.len = 19 /\ m.timestamp = ts /\ m.ref = ref /\ m.locate = i
    BY <2>1 DEF Message
  <2>4. ref \in Nat \ {0}
    BY <1>3
  <2>5. m \in Wire
    BY <1>2, <2>1, <2>4 DEF Message, Wire
  <2>6. m.type \in ByLocate /\ SymbolOf(t, m) = i
    BY <2>3 DEF ByTicker, ByLocate, SymbolOf
  <2>7. HeaderValid(m)
    BY <2>3 DEF HeaderValid, minimum_length
  <2>8. FieldsValid(m)
    BY <2>3, <2>4 DEF FieldsValid
  <2> QED BY <1>2, <2>5, <2>6, <2>7, <2>8 DEF Generated, Decodes
<1> QED BY <1>4, <1>5, <1>6, <1>7 DEF generate_synthetic_messages

-----------------------------------------------------------------------------
\* Between polls the polled and the pending indices are the first ones of the
\* buffer, each once; the source knows the tickers it writes.
SimInv ==
    /\ cfg \in SimConfigs /\ sim \in SimRecord /\ sim.refs # 0
    /\ Synthetic => /\ PassOK(cfg.prebuf_count, ReorderCapacity, sim.idx, sim.pending, sim.remaining, pass)
                    /\ Len(sim.prebuf) <= cfg.prebuf_count
                    /\ KnowsTo(sim.symbols, cfg.symbols)
    /\ SyntheticDecodes

LEMMA SimStarts == SimInit => SimInv
<1> SUFFICES ASSUME SimInit PROVE SimInv
  OBVIOUS
<1>1. /\ cfg \in SimConfigs /\ pass = << >> /\ sim.prebuf = << >> /\ sim.refs = 1 /\ sim.idx = 0
      /\ sim.pending = << >> /\ sim.remaining = 0
      /\ sim.symbols = IF Synthetic THEN SimSymbols(cfg) ELSE EmptyTable
  BY DEF SimInit, Synthetic
<1>2. Synthetic => KnowsTo(sim.symbols, cfg.symbols)
  BY <1>1, SymbolsKnown
<1>3. sim.symbols \in TableType
  BY <1>1, <1>2, EmptyTableOK DEF KnowsTo, TableOK
<1>4. << >> \in Seq(Wire) /\ << >> \in Seq(Nat) /\ Len(<< >>) = 0 /\ DOMAIN << >> = {}
  OBVIOUS
<1>5. sim = [prebuf |-> << >>, refs |-> 1, idx |-> 0, pending |-> << >>, remaining |-> 0,
             since |-> 0, burst |-> 0, cursor |-> 0, symbols |-> sim.symbols]
  BY DEF SimInit
<1>6. sim \in SimRecord
  <2> DEFINE y == sim.symbols
  <2>1. y \in TableType
    BY <1>3
  <2>2. sim = [prebuf |-> << >>, refs |-> 1, idx |-> 0, pending |-> << >>, remaining |-> 0,
               since |-> 0, burst |-> 0, cursor |-> 0, symbols |-> y]
    BY <1>5
  <2> HIDE DEF y
  <2>3. [prebuf |-> << >>, refs |-> 1, idx |-> 0, pending |-> << >>, remaining |-> 0,
         since |-> 0, burst |-> 0, cursor |-> 0, symbols |-> y] \in SimRecord
    BY ONLY <1>4, <2>1 DEF SimRecord
  <2> QED BY ONLY <2>2, <2>3
<1>7. PassOK(cfg.prebuf_count, ReorderCapacity, 0, << >>, 0, << >>)
  <2>1. cfg.prebuf_count \in Nat \ {0} /\ ReorderCapacity \in Nat
    BY <1>1, CapacityIs
  <2>2. Apart(<< >>, << >>) /\ 1 .. 0 = {}
    BY <1>4 DEF Apart
  <2>3. 0 = (0 + 0) % cfg.prebuf_count /\ 0 <= Ahead(ReorderCapacity)
    BY <2>1 DEF Ahead
  <2> QED BY <1>4, <2>1, <2>2, <2>3 DEF PassOK
<1>8. Len(sim.prebuf) <= cfg.prebuf_count
  BY <1>1, <1>4, CapacityIs
<1>9. SyntheticDecodes
  BY <1>1 DEF SyntheticDecodes
<1> QED BY <1>1, <1>2, <1>6, <1>7, <1>8, <1>9 DEF SimInv

LEMMA GenerateKeeps ==
    ASSUME SimInv, NEW m \in generate_synthetic_messages(cfg, Len(sim.prebuf), sim.refs), generate(m)
    PROVE  SimInv'
<1> DEFINE b == sim.prebuf
           n == Len(b)
           b2 == Append(b, m)
           r2 == IF m.type = "A" THEN sim.refs + 1 ELSE sim.refs
<1>1. /\ Synthetic /\ n # cfg.prebuf_count /\ cfg' = cfg /\ pass' = pass
      /\ sim \in SimRecord /\ b \in Seq(Wire) /\ n \in Nat /\ sim.refs \in Nat \ {0} /\ cfg \in SimConfigs
  BY DEF generate, Filled, SimInv, SimRecord
<1>2. sim' = [sim EXCEPT !.prebuf = b2, !.refs = r2]
  BY DEF generate
<1>3. n < cfg.prebuf_count /\ n < Midnight /\ cfg.prebuf_count \in Nat
  BY <1>1, ConfigIs, DecoderAssumption DEF SimInv
<1>4. Generated(sim.symbols, m)
  BY <1>1, <1>3, GeneratedDecodes DEF SimInv
<1>5. m \in Wire /\ b2 \in Seq(Wire) /\ Len(b2) = n + 1 /\ b2[n + 1] = m /\ \A i \in 1 .. n : b2[i] = b[i]
  BY <1>1, <1>4 DEF Generated
<1>6. r2 \in Nat \ {0}
  BY <1>1
<1> HIDE DEF b2, r2
<1>7. /\ sim'.prebuf = b2 /\ sim'.refs = r2 /\ sim'.idx = sim.idx /\ sim'.pending = sim.pending
      /\ sim'.remaining = sim.remaining /\ sim'.symbols = sim.symbols
  BY <1>1, <1>2 DEF SimRecord
<1>8. sim' \in SimRecord
  <2> DEFINE a == [sim EXCEPT !.prebuf = b2]
  <2>1. a \in SimRecord
    BY <1>1, <1>5 DEF SimRecord
  <2>2. sim' = [a EXCEPT !.refs = r2]
    BY <1>1, <1>2 DEF SimRecord
  <2> HIDE DEF a
  <2> QED BY <1>6, <2>1, <2>2 DEF SimRecord
<1>9. \A i \in DOMAIN sim'.prebuf : Decodes(sim'.symbols, sim'.prebuf[i])
  <2>1. \A i \in 1 .. n : Decodes(sim.symbols, b[i])
    BY <1>1 DEF SimInv, SyntheticDecodes
  <2>2. DOMAIN b2 = 1 .. n + 1 /\ \A i \in 1 .. n + 1 : i \in 1 .. n \/ i = n + 1
    BY <1>1, <1>5
  <2> QED BY <1>4, <1>5, <1>7, <2>1, <2>2 DEF Generated
<1>10. ReorderCapacity' = ReorderCapacity /\ (Synthetic' <=> Synthetic)
  BY <1>1 DEF ReorderCapacity, Synthetic
<1>11. Len(sim'.prebuf) <= cfg.prebuf_count
  BY <1>1, <1>3, <1>5, <1>7
<1> QED BY <1>1, <1>6, <1>7, <1>8, <1>9, <1>10, <1>11 DEF SimInv, SyntheticDecodes

\* What keeps buffer and tickers keeps the rest.
LEMMA PolledKeeps ==
    ASSUME SimInv, cfg' = cfg, NEW j, NEW u, NEW e, Polled(sim, sim', j, u, e),
           Synthetic => PassOK(cfg.prebuf_count, ReorderCapacity, j, u, e, pass')
    PROVE  SimInv'
<1>1. ReorderCapacity' = ReorderCapacity /\ (Synthetic' <=> Synthetic)
  BY DEF ReorderCapacity, Synthetic
<1> QED BY <1>1 DEF SimInv, Polled, SyntheticDecodes

LEMMA PollSyntheticKeeps ==
    ASSUME SimInv, Synthetic, NEW choice \in WindowChoices(sim), poll_synthetic(choice)
    PROVE  SimInv'
<1> DEFINE N == cfg.prebuf_count
           C == ReorderCapacity
           next == next_synthetic_index(sim, choice)
           x == next.source
           q == IF Len(pass) = N THEN << >> ELSE pass
<1>1. /\ cfg' = cfg /\ sim' = note_attempt(x) /\ cfg \in SimConfigs /\ sim \in SimRecord
      /\ pass' = IF Len(pass) = N THEN <<next.index>> ELSE Append(pass, next.index)
  BY DEF poll_synthetic, SimInv
<1>2. N \in Nat \ {0} /\ C \in 0 .. N /\ PassOK(N, C, sim.idx, sim.pending, sim.remaining, pass)
  BY <1>1, CapacityIs DEF SimInv
<1>3. PassOK(N, C, sim.idx, sim.pending, sim.remaining, q) /\ Len(q) < N
  <2>1. CASE Len(pass) = N
    <3>1. PassOK(N, C, sim.idx, sim.pending, sim.remaining, << >>)
      BY <1>2, <2>1, FreshPass
    <3> QED BY <1>2, <2>1, <3>1
  <2>2. CASE Len(pass) # N
    <3>1. Len(pass) \in Nat /\ Len(pass) <= N
      BY <1>2, ApartLens DEF PassOK
    <3> QED BY <1>2, <2>2, <3>1
  <2> QED BY <2>1, <2>2
<1>4. pass' = Append(q, next.index)
  <2>1. Append(<< >>, next.index) = <<next.index>>
    <3> HIDE DEF next
    <3> QED OBVIOUS
  <2> HIDE DEF next
  <2> QED BY <1>1, <2>1
<1> HIDE DEF q
<1>5. PassOK(N, C, x.idx, x.pending, x.remaining, Append(q, next.index)) /\ Polled(sim, x, x.idx, x.pending, x.remaining)
  BY <1>1, <1>3, PollKeeps
<1> HIDE DEF next, x
<1>6. x \in SimRecord
  BY <1>5 DEF Polled
<1>7. Polled(x, note_attempt(x), x.idx, x.pending, x.remaining)
  BY <1>1, <1>6, NoteKeeps
<1>8. Polled(sim, sim', x.idx, x.pending, x.remaining)
  BY <1>1, <1>5, <1>7 DEF Polled
<1>9. PassOK(N, C, x.idx, x.pending, x.remaining, pass')
  BY <1>4, <1>5
<1> QED BY <1>1, <1>8, <1>9, PolledKeeps

LEMMA ReplayKeeps == SimInv /\ poll_replay => SimInv'
<1> SUFFICES ASSUME SimInv, poll_replay PROVE SimInv'
  OBVIOUS
<1> DEFINE start == IF sim.cursor = Len(cfg.file) THEN 0 ELSE sim.cursor
           y == [sim EXCEPT !.cursor = start + 1]
           z == [sim EXCEPT !.cursor = 0]
<1>1. /\ ~Synthetic /\ cfg' = cfg /\ cfg \in SimConfigs /\ sim \in SimRecord /\ sim.cursor \in Nat
      /\ sim' = note_attempt(y) \/ sim' = z
  BY DEF poll_replay, SimInv, SimRecord
<1>2. start + 1 \in Nat
  BY <1>1
<1>3. Polled(sim, y, sim.idx, sim.pending, sim.remaining) /\ Polled(sim, z, sim.idx, sim.pending, sim.remaining)
  <2> HIDE DEF start
  <2> QED BY <1>1, <1>2 DEF Polled, SimRecord
<1> HIDE DEF y, z
<1>4. Polled(y, note_attempt(y), y.idx, y.pending, y.remaining)
  BY <1>1, <1>3, NoteKeeps DEF Polled
<1>5. Polled(sim, note_attempt(y), sim.idx, sim.pending, sim.remaining)
  BY <1>3, <1>4 DEF Polled
<1>6. Polled(sim, sim', sim.idx, sim.pending, sim.remaining)
  BY <1>1, <1>3, <1>5
<1> QED BY <1>1, <1>6, PolledKeeps

LEMMA SimKeeps == SimInv /\ [SimNext]_simVars => SimInv'
<1> SUFFICES ASSUME SimInv, [SimNext]_simVars PROVE SimInv'
  OBVIOUS
<1>1. CASE UNCHANGED simVars
  BY <1>1 DEF simVars, SimInv, Synthetic, ReorderCapacity, SyntheticDecodes
<1>2. ASSUME NEW m \in generate_synthetic_messages(cfg, Len(sim.prebuf), sim.refs), generate(m) PROVE SimInv'
  BY <1>2, GenerateKeeps
<1>3. ASSUME Synthetic, NEW choice \in WindowChoices(sim), poll_synthetic(choice) PROVE SimInv'
  BY <1>3, PollSyntheticKeeps
<1>4. CASE poll_replay
  BY <1>4, ReplayKeeps
<1> QED BY <1>1, <1>2, <1>3, <1>4 DEF SimNext

LEMMA SimPasses == SimInv => PassIsPermutation
<1> SUFFICES ASSUME SimInv, Synthetic
             PROVE  /\ \A j, k \in DOMAIN pass : pass[j] = pass[k] => j = k
                    /\ \A k \in DOMAIN pass : /\ pass[k] \in 0 .. cfg.prebuf_count - 1
                                              /\ pass[k] <= k - 1 + Ahead(ReorderCapacity)
                    /\ Len(sim.pending) <= ReorderCapacity
  BY DEF PassIsPermutation, Ahead
<1>1. /\ PassOK(cfg.prebuf_count, ReorderCapacity, sim.idx, sim.pending, sim.remaining, pass)
      /\ ReorderCapacity \in Nat
  BY CapacityIs DEF SimInv
<1>2. /\ pass \in Seq(Nat) /\ DOMAIN pass = 1 .. Len(pass) /\ Len(sim.pending) \in Nat
      /\ \A j, k \in 1 .. Len(pass) : pass[j] = pass[k] => j = k
  BY <1>1, ApartLens DEF PassOK, Apart
<1>3. /\ \A k \in 1 .. Len(pass) : pass[k] <= k - 1 + Ahead(ReorderCapacity)
      /\ Len(sim.pending) <= Ahead(ReorderCapacity)
  BY <1>1 DEF PassOK
<1>4. Ahead(ReorderCapacity) \in Nat /\ Ahead(ReorderCapacity) <= ReorderCapacity
  BY <1>1 DEF Ahead
<1>5. Len(sim.pending) <= ReorderCapacity
  BY <1>1, <1>2, <1>3, <1>4
<1>6. ASSUME NEW k \in 1 .. Len(pass) PROVE pass[k] \in 0 .. cfg.prebuf_count - 1
  <2> DEFINE n == Len(pass) + Len(sim.pending)
  <2>1. pass[k] \in Nat /\ pass[k] < n /\ n <= cfg.prebuf_count /\ n \in Nat /\ cfg.prebuf_count \in Nat
    <3>1. Apart(pass, sim.pending) /\ n <= cfg.prebuf_count
      BY <1>1 DEF PassOK
    <3>2. pass[k] \in Nat /\ Len(pass) \in Nat /\ Len(sim.pending) \in Nat
      BY <3>1, ApartLens
    <3>3. pass[k] < n
      BY ONLY <3>1, k \in 1 .. Len(pass) DEF Apart
    <3>4. cfg.prebuf_count \in Nat
      BY CapacityIs DEF SimInv
    <3> QED BY ONLY <3>1, <3>2, <3>3, <3>4
  <2> HIDE DEF n
  <2> QED BY ONLY <2>1
<1> QED BY <1>2, <1>3, <1>5, <1>6

\* luv_feed_sim.hpp, next_synthetic_index: for every buffer and window, however
\* the choices fall, a pass polls no message twice and none earlier than the
\* window allows.
THEOREM PassesArePermutations == Spec => []PassIsPermutation
<1>1. Init => SimInv
  BY SimStarts DEF Init
<1>2. SimInv /\ [Next]_vars => SimInv'
  BY SimKeeps, SimSteps
<1>3. SimInv => PassIsPermutation
  BY SimPasses
<1> QED BY <1>1, <1>2, <1>3, PTL DEF Spec

\* luv_feed_sim.hpp, init_synthetic and generate_synthetic_messages: for every
\* table that has room for its symbols and ranges the decoder accepts, every
\* message of the generator decodes with the tickers registered.
THEOREM GeneratedMessagesDecode == Spec => []SyntheticDecodes
<1>1. Init => SimInv
  BY SimStarts DEF Init
<1>2. SimInv /\ [Next]_vars => SimInv'
  BY SimKeeps, SimSteps
<1>3. SimInv => SyntheticDecodes
  BY DEF SimInv
<1> QED BY <1>1, <1>2, <1>3, PTL DEF Spec
=============================================================================
