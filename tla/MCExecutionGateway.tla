------------------------- MODULE MCExecutionGateway -------------------------
(***************************************************************************)
(* The gateway over one symbol of two slots, whose two ids can be reused   *)
(* once their order has ended, with every outcome of the logs; and over    *)
(* two symbols sharing one rate limiter that is smaller than their slots   *)
(* together, with reports that name the wrong symbol.                      *)
(***************************************************************************)
EXTENDS ExecutionGateway, TLC

CONSTANTS s1, s2, o1, o2, o3

OneSymbol == {<<s1, o1>>, <<s1, o2>>}

TwoSymbols == {<<s1, o1>>, <<s1, o2>>, <<s2, o3>>}

\* The ids of one symbol are interchangeable.
IdSymmetry == Permutations({o1, o2})

=============================================================================
