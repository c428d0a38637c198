---------------------------- MODULE MCEngineLoop ----------------------------
(***************************************************************************)
(* Two client slots, two response ids and a listener that may be restarted *)
(* once: replies of the first listener meet requests of the second, the    *)
(* response queue overflows into the deferred slot, order ids run out.     *)
(***************************************************************************)
EXTENDS EngineLoop

Text(kind, n) == [kind |-> kind, n |-> n]

Body(symbol_idx, symbol, price) ==
    [symbol_idx |-> symbol_idx, symbol |-> symbol, side |-> Text("side", 0),
     qty |-> Text("uint", 1), price |-> price]

ByIndex == Body(Text("uint", 0), NoText, Text("uint", 7))
ByTicker == Body(NoText, Text("name", 4), Text("decimal", 2))
BadBodies == {Body(NoText, NoText, Text("uint", 7)),
              Body(Text("uint", 0), Text("name", 4), Text("uint", 7)),
              Body(Text("uint", 1), NoText, Text("uint", 7)),
              Body(Text("uint", 0), NoText, Text("decimal", 2)),
              Body(NoText, Text("name", 9), Text("decimal", 2)),
              Body(NoText, Text("name", 4), Text("decimal", 5))}

Request(ask, body) == WireRequest(3, TRUE, 2, TRUE, TRUE, 1, TRUE, ask, body)

Full(cmd, id) == Request([cmd |-> cmd, id |-> id], ByIndex)

TooLarge == WireRequest(4, FALSE, 0, TRUE, TRUE, 0, FALSE, NoAsk, ByIndex)

Submit(body) == Request([cmd |-> "submit", id |-> 0], body)

\* Requests that wait for their answer, from two peers or across a restart of
\* the listener; orders and cancels, from one peer, the second order being the
\* last one the ids allow; what is refused.  The refusals all leave the
\* same state behind and one of each kind is enough.
Waiting(conns, listeners) ==
    [wire |-> {Full("query", 1), Full("positions", 0)},
     conns |-> conns, starts |-> listeners, signals |-> 0]

MCEnvironments ==
    {Waiting(2, 1), Waiting(1, 2),
     [wire |-> {Submit(ByTicker), Full("cancel", 2)},
      conns |-> 1, starts |-> 1, signals |-> 1],
     [wire |-> {Submit(b) : b \in BadBodies}
                 \cup {Full("not_found", 0), Full("upgrade", 0), TooLarge},
      conns |-> 1, starts |-> 1, signals |-> 0]}

\* One peer that orders and cancels, and a strategy that places one order.
MCCollision ==
    {[wire |-> {Full("submit", 0), Full("cancel", 1)}, conns |-> 1, starts |-> 1, signals |-> 1]}
=============================================================================
