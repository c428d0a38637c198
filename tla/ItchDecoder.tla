----------------------------- MODULE ItchDecoder -----------------------------
(***************************************************************************)
(* What the feed sources do with one ITCH message: the ticker table and    *)
(* the stateless decoder of luv_decode_itch.hpp, and the messages the      *)
(* simulated source of luv_feed_sim.hpp writes for it.                     *)
(*                                                                         *)
(* A message on the wire is a record of its fields; a field its type does  *)
(* not have is 0, its mark "none".  A ticker is a member of DOMAIN         *)
(* TickerHash.                                                             *)
(***************************************************************************)
EXTENDS Naturals, FiniteSets, FiniteSetsExt, SequencesExt

CONSTANTS
    TickerHash,   \* TickerHash[key]: the Fibonacci hash of a ticker
    TableCap,     \* SymbolTable::kCapacity, twice kSymbols
    MaxQuantity,  \* numeric::kMaxQuantity
    MaxPrice,     \* numeric::kMaxPrice
    Midnight      \* nanoseconds of a day

ASSUME DecoderAssumption ==
    /\ TableCap \in Nat \ {0} /\ TableCap % 2 = 0
    /\ TickerHash \in [DOMAIN TickerHash -> 0 .. TableCap - 1]
    /\ {MaxQuantity, MaxPrice, Midnight} \subseteq Nat \ {0}

Tickers == DOMAIN TickerHash
NumSymbols == TableCap \div 2   \* Config::kSymbols
NotFound == TableCap            \* kNotFound: no symbol index

-----------------------------------------------------------------------------
(***************************************************************************)
(* SymbolTable: linear probing, filled to one half.                        *)
(***************************************************************************)
EmptyTable == [val |-> [s \in 0 .. TableCap - 1 |-> NotFound],
               key |-> [s \in 0 .. TableCap - 1 |-> 0],
               count |-> 0]

TableSlot(k, n) == (TickerHash[k] + n) % TableCap

\* Mutant: the table may be filled completely.
RoomAnywhere(t) == t.count < TableCap

\* Half of the slots stay empty.
HasRoom(t) == t.count < TableCap \div 2

\* insert: a known ticker is updated in place, but only while there is room
\* for another one.
insert(t, k, idx) ==
    LET Stops == {n \in 0 .. TableCap - 1 :
                    t.val[TableSlot(k, n)] = NotFound \/ t.key[TableSlot(k, n)] = k}
        slot == TableSlot(k, Min(Stops))
    IN  IF idx >= NumSymbols \/ ~HasRoom(t) THEN t
        ELSE [val |-> [t.val EXCEPT ![slot] = idx],
              key |-> [t.key EXCEPT ![slot] = k],
              count |-> IF t.val[slot] = NotFound THEN t.count + 1 ELSE t.count]

\* lookup gives up after TableCap / 2 probes.
lookup(t, k) ==
    LET Stops == {n \in 0 .. TableCap \div 2 - 1 :
                    t.val[TableSlot(k, n)] = NotFound \/ t.key[TableSlot(k, n)] = k}
    IN  IF Stops = {} THEN NotFound ELSE t.val[TableSlot(k, Min(Stops))]

-----------------------------------------------------------------------------
(***************************************************************************)
(* decode_itch.                                                            *)
(***************************************************************************)
ByTicker == {"A", "F", "P", "Q", "H", "Y"}
ByLocate == {"E", "C", "X", "D", "U"}

minimum_length(type) ==
    CASE type = "A" -> 36 [] type = "F" -> 40 [] type = "E" -> 31 [] type = "C" -> 36
      [] type = "X" -> 23 [] type = "D" -> 19 [] type = "U" -> 35 [] type = "P" -> 44
      [] type = "Q" -> 40 [] type = "H" -> 25 [] type = "Y" -> 20 [] OTHER -> 0

is_valid_quantity(q) == q \in 1 .. MaxQuantity

is_valid_price(p) == p \in 1 .. MaxPrice

HeaderValid(m) ==
    m.len >= 11 /\ m.len >= minimum_length(m.type) /\ m.timestamp < Midnight

\* The symbol of a message: by its ticker, or by its stock locate.
SymbolOf(t, m) == IF m.type \in ByTicker THEN lookup(t, m.stock) ELSE m.locate

FieldsValid(m) ==
    /\ m.type \in {"A", "F", "E", "C", "X", "D", "U"} => m.ref # 0
    /\ m.type \in {"A", "F", "E", "C", "X", "U", "P"} => is_valid_quantity(m.shares)
    /\ m.type = "Q" => m.shares <= MaxQuantity
    /\ m.type \in {"A", "F", "C", "U", "P", "Q"} => is_valid_price(m.price)
    /\ m.type \in {"A", "F", "P"} => m.mark \in {"B", "S"}
    /\ m.type = "C" => m.mark \in {"Y", "N"}
    /\ m.type = "U" => m.match # 0 /\ m.match # m.ref

Decodes(t, m) ==
    /\ m.type \in ByTicker \cup ByLocate
    /\ HeaderValid(m)
    /\ SymbolOf(t, m) < NumSymbols
    /\ FieldsValid(m)

Flags(m) ==
    (IF m.type \in {"A", "F", "P"} /\ m.mark = "B" THEN {"buy"} ELSE {})
      \cup (IF m.type \in {"E", "P", "Q"} \/ (m.type = "C" /\ m.mark = "Y")
            THEN {"printable"} ELSE {})
      \cup (IF m.type = "Q" THEN {"cross"} ELSE {})
      \cup (IF m.type = "H" /\ m.mark \in {"H", "P"} THEN {"halted"} ELSE {})
      \cup (IF m.type = "Y" /\ m.mark \in {"1", "2"} THEN {"restricted"} ELSE {})

\* The tick of a message that decodes.  The new reference of a replace is its
\* match number.
decode_itch(t, m) ==
    [msg_type |-> m.type, timestamp |-> m.timestamp, symbol_idx |-> SymbolOf(t, m),
     order_ref |-> m.ref, qty |-> m.shares, price |-> m.price,
     match_num |-> m.match, flags |-> Flags(m)]

-----------------------------------------------------------------------------
(***************************************************************************)
(* The synthetic messages: every message the draws of the generator can    *)
(* give, for a time, an order reference and the number of references used  *)
(* so far.                                                                 *)
(***************************************************************************)
Message(type, len, ts, locate, ref, shares, price, stock, mark, match) ==
    [type |-> type, len |-> len, timestamp |-> ts, locate |-> locate, ref |-> ref,
     shares |-> shares, price |-> price, stock |-> stock, mark |-> mark, match |-> match]

\* Ticker of a symbol index.
format_stock(i) == i + 1

gen_add_order(cfg, ts, ref) ==
    {Message("A", 36, ts, i, ref, q, p, format_stock(i), side, 0) :
        i \in 0 .. cfg.symbols - 1, q \in cfg.min_qty .. cfg.max_qty,
        p \in cfg.min_price .. cfg.max_price, side \in {"B", "S"}}

\* Mutant: references are drawn from zero.
RefsFromZero(refs) == 0 .. refs - 1

\* An existing reference, or 1 before the first order.
ExistingRefs(refs) == IF refs > 1 THEN 1 .. refs - 1 ELSE {1}

gen_order_executed(cfg, ts, refs) ==
    {Message("E", 31, ts, i, ref, q, 0, 0, "none", 1) :
        i \in 0 .. cfg.symbols - 1, ref \in ExistingRefs(refs), q \in 1 .. cfg.max_qty \div 2}

gen_order_cancel(cfg, ts, refs) ==
    {Message("X", 23, ts, i, ref, q, 0, 0, "none", 0) :
        i \in 0 .. cfg.symbols - 1, ref \in ExistingRefs(refs), q \in 1 .. cfg.max_qty}

gen_order_delete(cfg, ts, refs) ==
    {Message("D", 19, ts, i, ref, 0, 0, 0, "none", 0) :
        i \in 0 .. cfg.symbols - 1, ref \in ExistingRefs(refs)}

generate_synthetic_messages(cfg, ts, refs) ==
    gen_add_order(cfg, ts, refs) \cup gen_order_executed(cfg, ts, refs)
      \cup gen_order_cancel(cfg, ts, refs) \cup gen_order_delete(cfg, ts, refs)
=============================================================================
