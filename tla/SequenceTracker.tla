--------------------------- MODULE SequenceTracker ---------------------------
(***************************************************************************)
(* SequenceTracker of luv_safety.hpp: the numbers of a feed and its gaps.  *)
(* The operators take a tracker and return it as                           *)
(* the method leaves it; the numbers of a session do not reach the end of  *)
(* their 64 bits.                                                          *)
(***************************************************************************)
EXTENDS Naturals, FiniteSets

CONSTANT MaxRecoverable  \* kMaxRecoverableGap

ASSUME TrackerAssumption == MaxRecoverable \in Nat

NewTracker == [initialized |-> FALSE, next |-> 0, gaps |-> 0, gap_size |-> 0,
               gap_class |-> "none", gap_pending |-> FALSE, invalid |-> FALSE]

\* What observe() answers for a number.
Classified(t, n) ==
    CASE ~t.initialized -> "first"
      [] t.initialized /\ n = t.next -> "next"
      [] t.initialized /\ n + 1 = t.next -> "duplicate"
      [] t.initialized /\ n + 1 < t.next -> "out_of_order"
      [] t.initialized /\ n > t.next -> "gap"

\* The state observe() leaves.  A gap replaces the one before it, pending or
\* fatal.
observe(t, n) ==
    LET gap == n - t.next
        class == IF gap <= MaxRecoverable THEN "recoverable" ELSE "fatal"
    IN  CASE Classified(t, n) \in {"first", "next"} ->
                [t EXCEPT !.initialized = TRUE, !.next = n + 1]
          [] Classified(t, n) \in {"duplicate", "out_of_order"} -> t
          [] Classified(t, n) = "gap" ->
                [t EXCEPT !.next = n + 1, !.gaps = @ + gap, !.gap_size = gap,
                          !.gap_class = class, !.gap_pending = class = "recoverable",
                          !.invalid = class = "fatal"]
=============================================================================
