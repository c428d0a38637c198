---------------------------- MODULE OrderEncoding ----------------------------
(***************************************************************************)
(* The two encodings of orders:                                            *)
(*                                                                         *)
(*  - OuchPacketTemplates of luv_execution.hpp: an enter-order packet is a *)
(*    copy of the template of its symbol and side with the mutable fields  *)
(*    stored at their offsets, a replace packet is written from zeroes,    *)
(*    both into a buffer that held another packet before;                  *)
(*  - FixMessageView and FixSession of luv_fix.hpp: one session numbers    *)
(*    and formats messages, a channel loses, repeats, reorders or alters   *)
(*    them, and the session at the other end checks, parses and numbers    *)
(*    them.                                                                *)
(*                                                                         *)
(* A 32-bit value is stored as four bytes, byte k of v written <<v, k>>.   *)
(* A FIX text is a sequence of pieces that end at a delimiter; the number  *)
(* that stands for a piece's text also stands for its bytes in the sum.    *)
(***************************************************************************)
EXTENDS Integers, Sequences, FiniteSets, SequencesExt

CONSTANTS
    OuchSymbols,    \* symbol indices the intents use
    kOuchSymbols,   \* Config::kSymbols
    OuchNumbers,    \* ids, quantities and prices of the intents
    MaxU32,         \* the largest value of a 32-bit field
    FixBuffers,     \* sizes of the buffers given to the formatters
    FixLength,      \* FixLength[kind]: bytes of prefix and body
    FixTexts,       \* other texts given to the parser
    kMaxFields,     \* FixMessageView::kMaxFields
    MaxFixSent      \* bound on the numbers drawn

ASSUME EncodingAssumption ==
    /\ OuchSymbols \subseteq Nat /\ OuchNumbers \subseteq Int
    /\ {MaxU32, kMaxFields, MaxFixSent} \subseteq Nat
    /\ FixBuffers \subseteq Nat /\ FixLength \in [{"report", "logon", "heartbeat"} -> Nat]
    /\ FixTexts \subseteq Seq([tag : Int, equals : BOOLEAN, val : [number : BOOLEAN, n : Nat],
                               delim : {"soh", "bar", "end"}])

VARIABLES
    packet,   \* the OutboundPacket the gateway writes into
    intent,   \* history: the intent it was last built from
    sender,   \* _next_out_seq and state of the session that sends
    peer,     \* next_in_seq_ of the session at the other end
    channel,  \* the messages under way, altered ones among them
    sent,     \* history: every message written, by its number
    taken     \* history: the messages the other end accepted

ouchVars == <<packet, intent>>
fixVars == <<sender, peer, channel, sent, taken>>
encodingVars == <<ouchVars, fixVars>>

-----------------------------------------------------------------------------
\* namespace ouch: where the fields of the two packets begin.
EnterOffsets ==
    [type |-> 0, token |-> 1, side |-> 5, qty |-> 6, symbol |-> 10, price |-> 18, tif |-> 22,
     firm |-> 26, display |-> 30, capacity |-> 31, sweep |-> 32, min_qty |-> 33, cross |-> 37,
     customer |-> 38]
kEnterOrderLen == 48

\* Mutant: the quantity begins one byte early.
ReplaceOffsetsShifted ==
    [type |-> 0, existing |-> 1, replacement |-> 5, qty |-> 8, price |-> 13, tif |-> 17,
     display |-> 21]

ReplaceOffsets ==
    [type |-> 0, existing |-> 1, replacement |-> 5, qty |-> 9, price |-> 13, tif |-> 17,
     display |-> 21]
kReplaceOrderLen == 32

Zeroes == [i \in 0 .. 63 |-> <<0, 0>>]

Store(bytes, offset, width, v) ==
    [i \in DOMAIN bytes |-> IF i \in offset .. offset + width - 1 THEN <<v, i - offset>> ELSE bytes[i]]

store_u32_be(bytes, offset, v) == Store(bytes, offset, 4, v)

\* What a reader of the packet finds at a field: -1 for bytes of several values.
Field(bytes, offset, width) ==
    LET v == bytes[offset][1]
    IN  IF \A k \in 0 .. width - 1 : bytes[offset + k] = <<v, k>> THEN v ELSE -1

clamp_u32(v) == IF v < 0 THEN 0 ELSE IF v > MaxU32 THEN MaxU32 ELSE v

\* Symbols and letters are numbers here too: make_symbol writes eight bytes.
init_template(symbol, side) ==
    LET o == EnterOffsets
        named == Store(Store(Store(Zeroes, o.type, 1, 79), o.side, 1, side), o.symbol, 8, symbol)
        firm == Store(store_u32_be(named, o.tif, 0), o.firm, 4, 76)
        flags == Store(Store(Store(firm, o.display, 1, 89), o.capacity, 1, 65), o.sweep, 1, 78)
    IN  Store(Store(store_u32_be(flags, o.min_qty, 0), o.cross, 1, 78), o.customer, 1, 32)

build_enter_order(i) ==
    LET o == EnterOffsets
        template == init_template(i.symbol, i.side)
        copied == [k \in DOMAIN packet.bytes |->
                    IF k < kEnterOrderLen THEN template[k] ELSE packet.bytes[k]]
        numbered == store_u32_be(store_u32_be(copied, o.token, i.id), o.qty, clamp_u32(i.qty))
        priced == store_u32_be(numbered, o.price, clamp_u32(i.price))
    IN  /\ i.symbol < kOuchSymbols
        /\ packet' = [len |-> kEnterOrderLen, bytes |-> store_u32_be(priced, o.tif, i.tif)]
        /\ intent' = [i EXCEPT !.kind = "enter"]

build_replace_order(i) ==
    LET o == ReplaceOffsets
        tokens == store_u32_be(store_u32_be(Store(Zeroes, o.type, 1, 85), o.existing, i.original),
                               o.replacement, i.id)
        priced == store_u32_be(store_u32_be(tokens, o.qty, clamp_u32(i.qty)),
                               o.price, clamp_u32(i.price))
    IN  /\ i.symbol < kOuchSymbols
        /\ packet' = [len |-> kReplaceOrderLen,
                      bytes |-> Store(store_u32_be(priced, o.tif, i.tif), o.display, 1, 89)]
        /\ intent' = [i EXCEPT !.kind = "replace"]

OuchIntents ==
    [kind : {"none"}, symbol : OuchSymbols, side : {66, 83}, original : {1}, id : {2},
     qty : OuchNumbers, price : OuchNumbers, tif : {0, 1}]

OuchInit ==
    /\ packet = [len |-> 0, bytes |-> Zeroes]
    /\ intent = [kind |-> "none", symbol |-> 0, side |-> 66, original |-> 1, id |-> 2, qty |-> 0,
                  price |-> 0, tif |-> 0]

OuchNext == \E i \in OuchIntents : build_enter_order(i) \/ build_replace_order(i)

-----------------------------------------------------------------------------
Number(n) == [number |-> TRUE, n |-> n]
Text(n) == [number |-> FALSE, n |-> n]
Piece(tag, val) == [tag |-> tag, equals |-> TRUE, val |-> val, delim |-> "soh"]

\* The delimiter that ends the value at p: the next SOH, and only when there is
\* none left the next bar, and only then the end of the text.
ValueEnd(text, p) ==
    LET at(d) == {q \in p .. Len(text) : text[q].delim = d}
        first(s) == CHOOSE q \in s : \A r \in s : q <= r
    IN  IF at("soh") # {} THEN first(at("soh"))
        ELSE IF at("bar") # {} THEN first(at("bar")) ELSE Len(text)

\* Pieces the value runs over become part of it.
FieldAt(text, p) == [tag |-> text[p].tag, val |-> [i \in p .. ValueEnd(text, p) |-> text[i].val]]

\* Where each field begins; past the text once it is used up.
Starts(text) ==
    LET start[k \in 1 .. kMaxFields] ==
            IF k = 1 THEN 1
            ELSE IF start[k - 1] > Len(text) THEN start[k - 1]
            ELSE ValueEnd(text, start[k - 1]) + 1
    IN  start

\* A tag that is no number, or an equals sign missing before later fields, is
\* refused; a rest without any is left.
parse(text) ==
    LET start == Starts(text)
        rest(p) == \A q \in p .. Len(text) : ~text[q].equals
        count == Cardinality({k \in DOMAIN start : start[k] <= Len(text) /\ ~rest(start[k])})
    IN  IF \/ text = <<>> \/ text[1].tag # 8 \/ count = 0
           \/ \E k \in 1 .. count : ~text[start[k]].equals \/ text[start[k]].tag < 0
        THEN <<>>
        ELSE [k \in 1 .. count |-> FieldAt(text, start[k])]

\* The first field with the tag, or nothing.
get(fields, tag) ==
    LET found == {i \in DOMAIN fields : fields[i].tag = tag}
    IN  IF found = {} THEN <<>>
        ELSE fields[CHOOSE i \in found : \A j \in found : i <= j].val

\* A value that runs over a delimiter, or is no number, gives the default.
get_int(fields, tag, default_val) ==
    LET val == get(fields, tag)
    IN  IF Cardinality(DOMAIN val) = 1 /\ \A i \in DOMAIN val : val[i].number
        THEN (CHOOSE v \in {val[i].n : i \in DOMAIN val} : TRUE) ELSE default_val

DelimByte(d) == CASE d = "soh" -> 1 [] d = "bar" -> 124 [] OTHER -> 0

Sum256(text) ==
    FoldLeft(LAMBDA sum, p : (sum + p.tag + p.val.n + DelimByte(p.delim)) % 256, 0, text)

\* Mutant: any trailer will do.
any_checksum(text) == text # <<>>

\* The last tag 10 after a delimiter holds the sum of what comes before it.
verify_checksum(text) ==
    LET trailers == {p \in 2 .. Len(text) :
                        text[p].tag = 10 /\ text[p].equals /\ text[p - 1].delim \in {"soh", "bar"}}
    IN  /\ trailers # {}
        /\ LET p == CHOOSE q \in trailers : \A r \in trailers : q >= r
           IN  text[p].val.number /\ text[p].val.n = Sum256(SubSeq(text, 1, p - 1))

\* Prefix, body and trailer.
Formatted(kind, seq, content) ==
    LET type == CASE kind = "report" -> Number(8) [] kind = "logon" -> Text(65)
                  [] kind = "heartbeat" -> Number(0)
        header == <<Piece(8, Text(4)), Piece(9, Number(FixLength[kind])), Piece(35, type),
                    Piece(49, Text(1)), Piece(56, Text(2)), Piece(34, Number(seq))>>
        body == CASE kind = "report" -> <<Piece(11, Number(content)), Piece(38, Number(1))>>
                  [] kind = "logon" -> <<Piece(108, Number(30))>>
                  [] kind = "heartbeat" -> IF content = 0 THEN <<>> ELSE <<Piece(112, Text(content))>>
        payload == header \o body
    IN  Append(payload, Piece(10, Number(Sum256(payload))))

Silent == UNCHANGED <<channel, sent>>

\* The message goes out under the number it drew.
Writes(kind, content) ==
    LET text == Formatted(kind, sender.next_out_seq, content)
    IN  /\ channel' = channel \cup {text}
        /\ sent' = [n \in DOMAIN sent \cup {sender.next_out_seq} |->
                        IF n = sender.next_out_seq THEN text ELSE sent[n]]

Draws ==
    /\ sender.next_out_seq <= MaxFixSent
    /\ sender' = [sender EXCEPT !.next_out_seq = @ + 1]
    /\ UNCHANGED <<peer, taken>>

\* The number is drawn before the size of the buffer is looked at again.
format_execution_report(max_len, content) ==
    /\ max_len >= 128
    /\ Draws
    /\ IF FixLength["report"] + 16 > max_len THEN Silent ELSE Writes("report", content)

format_logon(max_len) == max_len >= 128 /\ Draws /\ Writes("logon", 0)

format_heartbeat(max_len, test_req_id) ==
    max_len >= 128 /\ Draws /\ Writes("heartbeat", test_req_id)

on_logon == sender' = [sender EXCEPT !.state = "active"] /\ UNCHANGED <<peer, taken>> /\ Silent

on_logout ==
    sender' = [sender EXCEPT !.state = "disconnected"] /\ UNCHANGED <<peer, taken>> /\ Silent

\* Mutant: a number ahead is accepted as well.
handle_inbound_ahead(seq) == seq >= peer

\* The number expected; one ahead is a gap, one behind a duplicate.
handle_inbound_seq(seq) == seq = peer

\* A message arrives, and may arrive again.
receive(text) ==
    LET seq == get_int(parse(text), 34, 0)
    IN  /\ verify_checksum(text) /\ handle_inbound_seq(seq)
        /\ peer' = peer + 1
        /\ taken' = Append(taken, text)
        /\ UNCHANGED sender /\ Silent

lose(text) == channel' = channel \ {text} /\ UNCHANGED <<sender, peer, sent, taken>>

\* One piece's value comes out different; one such copy is under way at a time.
alter(text) ==
    \E i \in DOMAIN text :
        /\ \A other \in channel : \E n \in DOMAIN sent : other = sent[n]
        /\ channel' = channel \cup {[text EXCEPT ![i].val.n = @ + 1]}
        /\ UNCHANGED <<sender, peer, sent, taken>>

FixInit ==
    /\ sender = [next_out_seq |-> 1, state |-> "disconnected"]
    /\ peer = 1
    /\ channel = {}
    /\ sent = <<>>
    /\ taken = <<>>

FixNext ==
    \/ on_logon \/ on_logout
    \/ \E max_len \in FixBuffers :
        \/ format_logon(max_len)
        \/ \E content \in 0 .. 1 :
            format_execution_report(max_len, content) \/ format_heartbeat(max_len, content)
    \/ \E text \in channel : receive(text) \/ lose(text)
    \/ \E n \in DOMAIN sent : sent[n] \in channel /\ alter(sent[n])

EncodingInit == OuchInit /\ FixInit

-----------------------------------------------------------------------------
(***************************************************************************)
(* Properties.                                                             *)
(***************************************************************************)

\* OuchPacketTemplates: whatever the buffer held before, a reader of the packet
\* finds the fields of this intent, each in bytes of its own.
PacketCarriesIntent ==
    LET e == EnterOffsets
        r == ReplaceOffsets
        b == packet.bytes
    IN  /\ intent.kind = "enter" =>
            /\ Field(b, e.token, 4) = intent.id /\ Field(b, e.side, 1) = intent.side
            /\ Field(b, e.qty, 4) = clamp_u32(intent.qty)
            /\ Field(b, e.symbol, 8) = intent.symbol
            /\ Field(b, e.price, 4) = clamp_u32(intent.price)
            /\ Field(b, e.tif, 4) = intent.tif /\ Field(b, e.min_qty, 4) = 0
        /\ intent.kind = "replace" =>
            /\ Field(b, r.existing, 4) = intent.original /\ Field(b, r.replacement, 4) = intent.id
            /\ Field(b, r.qty, 4) = clamp_u32(intent.qty)
            /\ Field(b, r.price, 4) = clamp_u32(intent.price)
            /\ Field(b, r.tif, 4) = intent.tif /\ Field(b, r.display, 1) = 89

\* FixSession: over a channel that loses, repeats, reorders and alters messages, the
\* other end accepts the messages numbered one, two, ... exactly as they were
\* written, and stops at the first number that was drawn but never written.
FixInOrder ==
    \A i \in DOMAIN taken : i \in DOMAIN sent /\ taken[i] = sent[i]

\* FixMessageView::parse against its reference: a text with one kind of delimiter
\* throughout, the one after its last piece missing or not, gives one field for each
\* piece.
ParsesPieces ==
    \A text \in FixTexts :
        LET plain == \E d \in {"soh", "bar"} : \A i \in DOMAIN text :
                        /\ text[i].delim = d \/ (i = Len(text) /\ text[i].delim = "end")
                        /\ text[i].equals /\ text[i].tag >= 0
            fields == parse(text)
        IN  text # <<>> /\ plain /\ text[1].tag = 8 =>
                /\ Len(fields) = IF Len(text) < kMaxFields THEN Len(text) ELSE kMaxFields
                /\ \A i \in DOMAIN fields :
                    fields[i].tag = text[i].tag /\ DOMAIN fields[i].val = {i}
=============================================================================
