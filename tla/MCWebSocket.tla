----------------------------- MODULE MCWebSocket -----------------------------
(***************************************************************************)
(* Five small worlds: one slot whose peer falls silent, sends refused      *)
(* frames or stops reading; one slot whose peer reads in parts and whose   *)
(* socket fails while fills arrive; a server that is stopped and started   *)
(* again under its producers; three clients of one order; two orders that  *)
(* collide in the index.                                                   *)
(***************************************************************************)
EXTENDS WebSocketServer

MCHash == [id \in {1, 2} |-> 0]

Quiet ==
    [slots |-> 1, ids |-> {1}, batches |-> {<<>>}, pre |-> {<<>>}, sound |-> {TRUE},
     sends |-> {"all", "again"}, fills |-> {1}, stops |-> 0, pings |-> FALSE]

MCEnvironments ==
    {[Quiet EXCEPT !.batches = {<<"pong">>, <<"close", "ping">>, <<"bad">>},
                   !.fills = {}, !.pings = TRUE],
     [Quiet EXCEPT !.batches = {<<"ping", "ping">>, <<"data", "bad">>}, !.pre = {<<"ping", "close">>},
                   !.sends = {"all", "part", "again", "error"}],
     [Quiet EXCEPT !.sound = BOOLEAN, !.sends = {"all"}, !.stops = 1],
     [Quiet EXCEPT !.slots = 3, !.sends = {"all"}, !.fills = {}],
     [Quiet EXCEPT !.slots = 2, !.ids = {1, 2}, !.sends = {"all"}, !.fills = {}]}
=============================================================================
