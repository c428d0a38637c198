-------------------------- MODULE MCReplaceRefused --------------------------
(***************************************************************************)
(* The engine with a history of the replace message it has just refused,   *)
(* at the pre-flight check or for want of room in the book.                *)
(***************************************************************************)
EXTENDS LOBEngine

VARIABLE refused      \* history: the original of a replace refused just now

RefusedInit == Init /\ refused = {}

PreflightRefuses(ref) ==
    /\ valid_location(ref)
    /\ \E room \in BOOLEAN : ~can_insert(index, room)
    /\ refused' = {ref}
    /\ UNCHANGED vars

BookRefuses(ref) ==
    /\ \E new \in Refs, price \in Prices, room \in BOOLEAN : replace_lost(ref, new, price, room)
    /\ refused' = {ref}

RefusedNext ==
    \/ AddMessage /\ refused' = {}
    \/ \E ref \in Refs : \/ PreflightRefuses(ref)
                         \/ BookRefuses(ref)
                         \/ on_order_delete(ref) /\ refused' = {}

RefusedSpec == RefusedInit /\ [][RefusedNext]_<<vars, refused>>

\* can_insert()'s comment: "This is used by replace, whose original order must
\* remain intact if the replacement cannot be represented safely."
OriginalIntact == \A ref \in refused : index[ref] # Nowhere

=============================================================================
