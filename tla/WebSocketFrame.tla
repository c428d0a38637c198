--------------------------- MODULE WebSocketFrame ---------------------------
(***************************************************************************)
(* What a WebSocket peer may say: the handshake and the frame parser of    *)
(* luv_websocket_parse.hpp, for one connection whose bytes arrive in       *)
(* pieces and whose messages arrive in fragments, with control frames      *)
(* between them.                                                           *)
(*                                                                         *)
(* A frame is a record of its header fields and its unmasked payload, a    *)
(* sequence of bytes.  The limits 125 and 65535 of the length encodings,   *)
(* the top bit of a 64-bit length and the message limit are parameters.    *)
(***************************************************************************)
EXTENDS Naturals, FiniteSets, SequencesExt

CONSTANTS
    Frames,        \* the frames a peer may send
    Handshakes,    \* the requests a peer may open with
    ShortMax,      \* 125: the longest length of one byte
    MediumMax,     \* 65535: the longest length of two bytes
    TopBit,        \* 2^63
    MaxMessage,    \* kMaxWebSocketMessageBytes
    MaxFrames      \* bound on the frames of a connection

ASSUME FrameAssumption ==
    /\ {ShortMax, MediumMax, TopBit, MaxMessage, MaxFrames} \subseteq Nat
    /\ ShortMax < MediumMax /\ MediumMax < TopBit
    /\ \A f \in Frames :
          /\ f.marker \in 0 .. ShortMax + 2 /\ f.size \in Nat
          /\ f.size <= MaxMessage => f.payload \in [1 .. f.size -> Nat]

VARIABLES
    link,     \* "handshake", "open" or "closed"
    frag,     \* FragmentState
    answer,   \* the last FrameResult
    spoken    \* history: payload bytes since the message began, and the
              \* last message completed

frameVars == <<link, frag, answer, spoken>>

-----------------------------------------------------------------------------
(***************************************************************************)
(* UTF-8.                                                                  *)
(***************************************************************************)

\* Bytes that follow a first byte, the value it contributes and the least
\* code point of that length; a byte that cannot be first has more = 4.
Lead(b) ==
    CASE b <= 127 -> [more |-> 0, value |-> b, least |-> 0]
      [] b \in 192 .. 223 -> [more |-> 1, value |-> b - 192, least |-> 128]
      [] b \in 224 .. 239 -> [more |-> 2, value |-> b - 224, least |-> 2048]
      [] b \in 240 .. 247 -> [more |-> 3, value |-> b - 240, least |-> 65536]
      [] OTHER -> [more |-> 4, value |-> 0, least |-> 0]

CodePoint(lead, rest) == FoldLeft(LAMBDA v, b : v * 64 + (b - 128), lead.value, rest)

valid_utf8(text) ==
    LET ValidFrom[o \in 1 .. Len(text) + 1] ==
            o = Len(text) + 1 \/
            LET lead == Lead(text[o])
                rest == SubSeq(text, o + 1, o + lead.more)
                point == CodePoint(lead, rest)
            IN  /\ lead.more < 4
                /\ o + lead.more <= Len(text)
                /\ \A i \in DOMAIN rest : rest[i] \in 128 .. 191
                /\ point >= lead.least /\ point <= 1114111
                /\ point \notin 55296 .. 57343
                /\ ValidFrom[o + lead.more + 1]
    IN  ValidFrom[1]

valid_close_code(code) ==
    code \in 3000 .. 4999 \/ code \in (1000 .. 1014) \ {1004, 1005, 1006}

-----------------------------------------------------------------------------
(***************************************************************************)
(* The handshake.  A request has a list of headers: a name and the tokens  *)
(* of its value.                                                           *)
(***************************************************************************)

\* The value of the first header of that name, <<>> if there is none.
header(r, name) ==
    LET Named == SelectSeq(r.headers, LAMBDA h : h.name = name)
    IN  IF Named = <<>> THEN <<>> ELSE Head(Named).value

header_has_token(value, token) == Contains(value, token)

\* A key is described by what decode_websocket_key looks at.
decode_websocket_key(k) ==
    k.size = 24 /\ k.padded /\ k.base64 /\ k.low_bits = 0

handshake(r) ==
    /\ r.complete /\ r.method = "GET" /\ r.rest = 0
    /\ header(r, "version") = <<"13">>
    /\ header_has_token(header(r, "connection"), "upgrade")
    /\ header_has_token(header(r, "upgrade"), "websocket")
    /\ Len(header(r, "key")) = 1 /\ decode_websocket_key(header(r, "key")[1])

-----------------------------------------------------------------------------
(***************************************************************************)
(* frame().                                                                *)
(***************************************************************************)
Continuation == 0
Text == 1
Binary == 2
CloseFrame == 8

Unfragmented == [fragmented |-> FALSE, opcode |-> 0, size |-> 0, text |-> <<>>]

ControlFrame(f) == f.opcode >= 8

\* Bytes of the header, without the mask, for a length marker.
HeaderBytes(f) == CASE f.marker <= ShortMax -> 2
                    [] f.marker = ShortMax + 1 -> 4
                    [] f.marker = ShortMax + 2 -> 10

\* The first two bytes are refused.
BadStart(f) == f.opcode \notin {0, 1, 2, 8, 9, 10} \/ f.rsv \/ ~f.masked

\* The length is not encoded in the shortest way, or has its top bit set.
BadLength(f) ==
    \/ f.marker = ShortMax + 1 /\ f.size <= ShortMax
    \/ f.marker = ShortMax + 2 /\ (f.size >= TopBit \/ f.size <= MediumMax)

BadControl(f) == ControlFrame(f) /\ (~f.final \/ f.size > ShortMax)

\* The answer the header alone decides, with `have` bytes received.
HeaderResult(f, have) ==
    CASE have < 2 -> "incomplete"
      [] have >= 2 /\ BadStart(f) -> "protocol_error"
      [] have >= 2 /\ ~BadStart(f) /\ have < HeaderBytes(f) -> "incomplete"
      [] have >= HeaderBytes(f) /\ ~BadStart(f) ->
            IF BadLength(f) \/ BadControl(f) THEN "protocol_error"
            ELSE IF f.size > MaxMessage THEN "too_large"
            ELSE IF have < HeaderBytes(f) + 4 + f.size THEN "incomplete"
            ELSE "complete"

CloseResult(f) ==
    CASE f.size = 0 -> "consumed"
      [] f.size = 1 -> "protocol_error"
      [] f.size >= 2 ->
            IF ~valid_close_code(f.payload[1] * 256 + f.payload[2]) THEN "protocol_error"
            ELSE IF valid_utf8(SubSeq(f.payload, 3, f.size)) THEN "consumed" ELSE "invalid_utf8"

\* Mutants: each fragment's text is checked by itself, or its size.
OwnText(s, f) == f.payload

OwnSize(s, f) == f.size

\* The text a final fragment completes, and the size of the message with it.
WholeText(s, f) == s.text \o f.payload

WholeSize(s, f) == s.size + f.size

ContinuationResult(s, f) ==
    IF ~s.fragmented THEN "protocol_error"
    ELSE IF WholeSize(s, f) > MaxMessage THEN "too_large"
    ELSE IF s.opcode = Text /\ f.final /\ ~valid_utf8(WholeText(s, f)) THEN "invalid_utf8"
    ELSE "consumed"

FirstResult(s, f) ==
    IF s.fragmented THEN "protocol_error"
    ELSE IF f.opcode = Text /\ f.final /\ ~valid_utf8(f.payload) THEN "invalid_utf8"
    ELSE "consumed"

frame(s, f, have) ==
    IF HeaderResult(f, have) # "complete" THEN HeaderResult(f, have)
    ELSE IF f.opcode = CloseFrame THEN CloseResult(f)
    ELSE IF ControlFrame(f) THEN "consumed"
    ELSE IF f.opcode = Continuation THEN ContinuationResult(s, f)
    ELSE FirstResult(s, f)

\* The state a consumed frame leaves.  Only a text message is kept.
Fragmented(s, f) ==
    IF ControlFrame(f) THEN s
    ELSE IF f.final THEN (IF f.opcode = Continuation THEN Unfragmented ELSE s)
    ELSE IF f.opcode = Continuation
    THEN [s EXCEPT !.size = WholeSize(s, f),
                   !.text = IF s.opcode = Text THEN WholeText(s, f) ELSE @]
    ELSE [fragmented |-> TRUE, opcode |-> f.opcode, size |-> f.size,
          text |-> IF f.opcode = Text THEN f.payload ELSE <<>>]

-----------------------------------------------------------------------------
FrameInit ==
    /\ link = "handshake"
    /\ frag = Unfragmented
    /\ answer = "incomplete"
    /\ spoken = [open |-> <<>>, opcode |-> 0, done |-> [opcode |-> 0, bytes |-> <<>>], frames |-> 0]

open_link(r) ==
    /\ link = "handshake"
    /\ link' = IF handshake(r) THEN "open" ELSE "closed"
    /\ UNCHANGED <<frag, answer, spoken>>

\* More bytes are needed: the buffer is parsed again when they have come.
frame_incomplete(f, have) ==
    /\ link = "open"
    /\ frame(frag, f, have) = "incomplete"
    /\ answer' = "incomplete"
    /\ UNCHANGED <<link, frag, spoken>>

\* Any other answer ends the connection.
frame_refused(f, have) ==
    /\ link = "open"
    /\ frame(frag, f, have) \notin {"incomplete", "consumed"}
    /\ answer' = frame(frag, f, have)
    /\ link' = "closed"
    /\ UNCHANGED <<frag, spoken>>

\* The bytes of the message a data frame belongs to, as the peer sent them.
Spoken(f) == (IF f.opcode = Continuation THEN spoken.open ELSE <<>>) \o f.payload

SpokenKind(f) == IF f.opcode = Continuation THEN spoken.opcode ELSE f.opcode

frame_consumed(f) ==
    /\ link = "open" /\ spoken.frames < MaxFrames
    /\ frame(frag, f, HeaderBytes(f) + 4 + f.size) = "consumed"
    /\ answer' = "consumed"
    /\ frag' = Fragmented(frag, f)
    /\ link' = IF f.opcode = CloseFrame THEN "closed" ELSE link
    /\ spoken' =
          IF ControlFrame(f) THEN [spoken EXCEPT !.frames = @ + 1]
          ELSE IF f.final
          THEN [open |-> <<>>, opcode |-> 0, frames |-> spoken.frames + 1,
                done |-> [opcode |-> SpokenKind(f), bytes |-> Spoken(f)]]
          ELSE [spoken EXCEPT !.open = Spoken(f), !.opcode = SpokenKind(f), !.frames = @ + 1]

FrameNext ==
    \/ \E r \in Handshakes : open_link(r)
    \/ \E f \in Frames :
          \/ frame_consumed(f)
          \/ \E have \in {1, HeaderBytes(f) - 1, HeaderBytes(f), HeaderBytes(f) + 4 + f.size} :
                frame_incomplete(f, have) \/ frame_refused(f, have)

-----------------------------------------------------------------------------
\* However a message is cut into fragments and whatever control frames come
\* between them, a completed message is within the limit, its text is UTF-8 as
\* a whole, and what the parser keeps of an unfinished message is exactly what
\* the peer has sent of it.
MessagesWhole ==
    /\ Len(spoken.done.bytes) <= MaxMessage
    /\ spoken.done.opcode = Text => valid_utf8(spoken.done.bytes)
    /\ frag.size = Len(spoken.open)
    /\ frag.opcode = spoken.opcode
    /\ frag.opcode = Text => frag.text = spoken.open
=============================================================================
