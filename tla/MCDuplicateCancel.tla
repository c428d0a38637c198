-------------------------- MODULE MCDuplicateCancel --------------------------
(***************************************************************************)
(* The gateway with a venue that only cancels, correctly, but may deliver  *)
(* the report of a cancel more than once.                                  *)
(***************************************************************************)
EXTENDS ExecutionGateway

CONSTANTS s1, o1, o2

MCIdPairs == {<<s1, o1>>, <<s1, o2>>}

VARIABLE cancelled      \* history: the ids whose last order was cancelled

duplicateVars == <<vars, cancelled>>

DuplicateInit == Init /\ cancelled = {}

Submit(s, id) ==
    /\ \E i \in Slots, side \in Sides, qty \in Qtys, price \in Prices :
          try_build(s, i, id, side, qty, price)
    /\ cancelled' = cancelled \ {id}

CancelOnce(s, id) ==
    /\ \E i \in Slots : apply_cancel_report(s, i, id)
    /\ cancelled' = cancelled \cup {id}

\* The report of the same cancel again: the slot was cleared by the first.
CancelAgain(s, id) ==
    /\ id \in cancelled
    /\ report_unknown(s, id)
    /\ UNCHANGED cancelled

DuplicateNext ==
    \E pair \in IdPairs : \/ Submit(pair[1], pair[2])
                          \/ CancelOnce(pair[1], pair[2])
                          \/ CancelAgain(pair[1], pair[2])

DuplicateSpec == DuplicateInit /\ [][DuplicateNext]_duplicateVars

\* apply_cancel_report()'s comment: "A delayed duplicate cancel is a harmless
\* not-found result, not a reconciliation failure that should halt the symbol
\* or trip the breaker."
DuplicateCancelHarmless == breaker = "closed" /\ \A s \in Symbols : ~risk[s].halted

=============================================================================
