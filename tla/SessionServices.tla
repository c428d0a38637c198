--------------------------- MODULE SessionServices --------------------------
(***************************************************************************)
(* Services around a trading session, from the research headers: the guard *)
(* of an inbound session (luv_session_security.hpp), the drop copy with    *)
(* its replay buffer (luv_drop_copy.hpp), front and back office            *)
(* reconciliation (luv_reconciliation.hpp) and the latency watchdog        *)
(* (luv_hw_watchdog.hpp).                                                  *)
(***************************************************************************)
EXTENDS Integers, FiniteSetsExt, SequencesExt, Functions

CONSTANTS
    Numbers,          \* sequence numbers of inbound messages, 0 included
    ReplayWindow,     \* kReplayWindowBits
    Burst, Rate,      \* max_burst_allowance; tokens per unit of time
    LastSecond,       \* bound on the session's clock
    MaxMessages,      \* bound on the messages
    ReplayBufferSize, \* kReplayBufferSize
    MaxPublished,     \* bound on the executions
    OfficeTrades,     \* trades an office may record: [id, side, qty, price]
    MaxRecords,       \* kMaxRecords
    MaxBreaks,        \* max_breaks
    Samples, MaxSamples, Threshold   \* watchdog

ASSUME SessionAssumption ==
    /\ {ReplayWindow, ReplayBufferSize} \subseteq Nat \ {0}
    /\ {Burst, Rate, LastSecond, MaxMessages, MaxPublished, MaxRecords, MaxBreaks} \subseteq Nat
    /\ Threshold \in Nat /\ UNION {Numbers, Samples} \subseteq Nat

VARIABLES
    guard,    \* SessionSecurityGuard
    copy,     \* DropCopySession
    offices,  \* TradeReconciliationEngine
    watchdog  \* HardwareLatencyWatchdog

sessionVars == <<guard, copy, offices, watchdog>>

-----------------------------------------------------------------------------
(***************************************************************************)
(* SessionSecurityGuard.  window holds the distances from max_seq_seen_    *)
(* whose bit is set.  at, first, spent, seen, accepted and last are        *)
(* history: the clock, the first reading, the tokens taken, the numbers    *)
(* that reached the window, how often each was accepted, and the last      *)
(* answer.                                                                 *)
(***************************************************************************)
GuardInit ==
    guard = [active |-> TRUE, max |-> 0, window |-> {}, tokens |-> Burst, updated |-> 0,
             at |-> 0, first |-> 0, spent |-> 0, seen |-> {},
             accepted |-> [n \in Numbers |-> 0], sent |-> 0,
             last |-> [number |-> 0, answer |-> "none", known |-> FALSE, behind |-> 0]]

\* consume_rate_limit_token: a reading of 0 leaves the bucket unstarted.
Refilled(g, t) ==
    IF g.updated = 0 THEN [g EXCEPT !.updated = t, !.first = t, !.at = t]
    ELSE IF t > g.updated
         THEN [g EXCEPT !.tokens = Min({Burst, @ + Rate * (t - g.updated)}), !.updated = t, !.at = t]
    ELSE g

Shifted(window, d) == {i + d : i \in window} \cap 0 .. ReplayWindow - 1

\* Mutant: a jump forgets what the window still covers.
JumpedFresh(g, n) == [g EXCEPT !.max = n, !.window = {0}]

\* A number above the highest seen slides the window.
Jumped(g, n) ==
    [g EXCEPT !.max = n,
              !.window = IF n - g.max < ReplayWindow THEN Shifted(g.window, n - g.max) \cup {0} ELSE {0}]

Replayed(g, n) ==
    \/ n = 0
    \/ n <= g.max /\ (g.max - n >= ReplayWindow \/ g.max - n \in g.window)

Marked(g, n) ==
    IF n > g.max THEN Jumped(g, n) ELSE [g EXCEPT !.window = @ \cup {g.max - n}]

Answered(g, n, answer) ==
    [g EXCEPT !.last = [number |-> n, answer |-> answer, known |-> n \in g.seen,
                        behind |-> Max({g.max - n, 0})],
              !.sent = @ + 1]

\* The window is marked before the signature is looked at.
Validated(g, n, signed) ==
    IF Replayed(g, n) THEN Answered(g, n, "replay")
    ELSE LET marked == [Marked(Answered(g, n, IF signed THEN "success" ELSE "signature"), n)
                            EXCEPT !.seen = @ \cup {n}]
         IN  IF signed THEN [marked EXCEPT !.accepted[n] = @ + 1] ELSE marked

validate_inbound_message(peer, n, signed, t) ==
    LET g == Refilled(guard, t)
    IN  /\ guard.sent < MaxMessages
        /\ guard' = IF ~guard.active THEN Answered(guard, n, "terminated")
                    ELSE IF ~peer THEN Answered(guard, n, "ip")
                    ELSE IF g.tokens < 1 THEN Answered(g, n, "rate")
                    ELSE Validated([g EXCEPT !.tokens = @ - 1, !.spent = @ + 1], n, signed)
        /\ UNCHANGED <<copy, offices, watchdog>>

terminate_session ==
    guard' = [guard EXCEPT !.active = FALSE] /\ UNCHANGED <<copy, offices, watchdog>>

GuardNext ==
    \/ \E peer, signed \in BOOLEAN, n \in Numbers, t \in guard.at .. LastSecond :
            validate_inbound_message(peer, n, signed, t)
    \/ terminate_session

\* No number is accepted twice, only a number that was used or fell out of the
\* window is called a replay, and the messages that took a token stay within the
\* burst and the rate since the first one.
GuardSound ==
    /\ \A n \in Numbers : guard.accepted[n] <= 1
    /\ guard.last.answer = "replay" =>
            guard.last.number = 0 \/ guard.last.known \/ guard.last.behind >= ReplayWindow
    /\ guard.spent <= Burst + Rate * (guard.at - guard.first)

-----------------------------------------------------------------------------
\* What a loop that writes the wanted ones into a buffer of limit entries leaves there.
Written(s, wanted, limit) ==
    FoldLeft(LAMBDA out, x : IF x \in wanted /\ Len(out) < limit THEN Append(out, x) ELSE out,
             <<>>, s)

-----------------------------------------------------------------------------
(***************************************************************************)
(* DropCopySession: a ring that overwrites its oldest execution.           *)
(***************************************************************************)
CopyInit == copy = [seq |-> 1, count |-> 0, buffer |-> [i \in 0 .. ReplayBufferSize - 1 |-> 0]]

\* Mutant: the slot is taken after the count has moved.
SlotAfter(count) == (count + 1) % ReplayBufferSize

CopySlot(count) == count % ReplayBufferSize

publish_execution ==
    /\ copy.count < MaxPublished
    /\ copy' = [seq |-> copy.seq + 1, count |-> copy.count + 1,
                buffer |-> [copy.buffer EXCEPT ![CopySlot(copy.count)] = copy.seq]]
    /\ UNCHANGED <<guard, offices, watchdog>>

replay_range(begin, end, limit) ==
    LET avail == Min({copy.count, ReplayBufferSize})
        held == [i \in 1 .. avail |-> copy.buffer[(copy.count - avail + i - 1) % ReplayBufferSize]]
    IN  IF begin > end THEN <<>> ELSE Written(held, begin .. end, limit)

\* A resend request is answered with the oldest of the asked executions that the
\* buffer still holds, every one of them, in order.
ReplayInOrder ==
    \A begin, end \in 1 .. MaxPublished, limit \in 1 .. ReplayBufferSize :
        LET low == Max({begin, copy.count - ReplayBufferSize + 1})
            high == Min({end, copy.count})
        IN  replay_range(begin, end, limit)
              = [i \in 1 .. Max({0, Min({limit, high - low + 1})}) |-> low + i - 1]

-----------------------------------------------------------------------------
(***************************************************************************)
(* TradeReconciliationEngine.                                              *)
(***************************************************************************)
OfficesInit == offices = [front |-> <<>>, back |-> <<>>, matched |-> {}, breaks |-> <<>>, ran |-> FALSE]

\* An order's trades carry its id: each office may record several of them.
record_front_office(x) ==
    /\ Len(offices.front) < MaxRecords
    /\ offices' = [offices EXCEPT !.front = Append(@, x), !.ran = FALSE]
    /\ UNCHANGED <<guard, copy, watchdog>>

record_back_office(x) ==
    /\ Len(offices.back) < MaxRecords
    /\ offices' = [offices EXCEPT !.back = Append(@, x), !.ran = FALSE]
    /\ UNCHANGED <<guard, copy, watchdog>>

\* Every front office trade is compared with the first back office one of its id.
FirstBack(id) == SelectInSeq(offices.back, LAMBDA b : b.id = id)

NoBreak == [id |-> 0, type |-> "none"]

BreakOf(x) ==
    LET j == FirstBack(x.id)
    IN  IF j = 0 THEN [id |-> x.id, type |-> "front"]
        ELSE IF x.qty # offices.back[j].qty THEN [id |-> x.id, type |-> "quantity"]
        ELSE IF x.price # offices.back[j].price THEN [id |-> x.id, type |-> "price"]
        ELSE NoBreak

\* Mutant: a trade only the back office has is not reported.
NoUnmatched(j, matched) == NoBreak

\* matched_ flags outlive the call.
Unmatched(j, matched) ==
    IF j \in matched THEN NoBreak ELSE [id |-> offices.back[j].id, type |-> "back"]

\* The front office's records first, then the back office's.
reconcile_trades ==
    LET n == Len(offices.front)
        matched == offices.matched \cup ({FirstBack(x.id) : x \in ToSet(offices.front)} \ {0})
        all == [i \in 1 .. n + Len(offices.back) |->
                    IF i <= n THEN BreakOf(offices.front[i]) ELSE Unmatched(i - n, matched)]
    IN  /\ MaxBreaks # 0
        /\ offices' = [offices EXCEPT !.matched = matched, !.ran = TRUE,
                                      !.breaks = Written(all, ToSet(all) \ {NoBreak}, MaxBreaks)]
        /\ UNCHANGED <<guard, copy, watchdog>>

OfficesNext ==
    \/ \E x \in OfficeTrades : record_front_office(x) \/ record_back_office(x)
    \/ reconcile_trades

\* When the report is clean each office has, for every order, a trade of the same
\* quantity and price as the other's first.
CleanMeansAgreed ==
    (offices.ran /\ offices.breaks = <<>>) =>
        /\ {x.id : x \in ToSet(offices.front)} = {x.id : x \in ToSet(offices.back)}
        /\ \A x \in ToSet(offices.front) :
              \E y \in ToSet(offices.back) : <<y.id, y.qty, y.price>> = <<x.id, x.qty, x.price>>
        /\ \A y, z \in ToSet(offices.back) : y.id = z.id => y = z

-----------------------------------------------------------------------------
(***************************************************************************)
(* HardwareLatencyWatchdog.                                                *)
(***************************************************************************)
WatchdogInit == watchdog = [samples |-> <<>>, anomalies |-> 0]

record_sample(latency) ==
    /\ Len(watchdog.samples) < MaxSamples
    /\ watchdog' = [samples |-> Append(watchdog.samples, latency),
                    anomalies |-> watchdog.anomalies + (IF latency > Threshold THEN 1 ELSE 0)]
    /\ UNCHANGED <<guard, copy, offices>>

watchdog_reset ==
    watchdog' = [samples |-> <<>>, anomalies |-> 0] /\ UNCHANGED <<guard, copy, offices>>

sorted_latencies ==
    LET s == watchdog.samples
        places == CHOOSE p \in Surjection(DOMAIN s, DOMAIN s) :
                    \A i, j \in DOMAIN s : i < j => s[p[i]] <= s[p[j]]
    IN  [i \in DOMAIN s |-> s[places[i]]]

generate_report ==
    LET n == Len(watchdog.samples)
        sorted == sorted_latencies
    IN  IF n = 0 THEN [p50 |-> 0, p99 |-> 0, max |-> 0, violated |-> FALSE]
        ELSE [p50 |-> sorted[n \div 2 + 1], p99 |-> sorted[Min({(n * 99) \div 100, n - 1}) + 1],
              max |-> sorted[n], violated |-> watchdog.anomalies > 0]

WatchdogNext ==
    \/ \E latency \in Samples : record_sample(latency)
    \/ watchdog_reset

\* The percentiles are samples, in order, with at most half and at most one
\* hundredth of the samples above them, and a violated isolation is one a sample shows.
ReportHolds ==
    LET n == Len(watchdog.samples)
        r == generate_report
        Above(p) == Cardinality({i \in 1 .. n : watchdog.samples[i] > p})
    IN  n > 0 => /\ {r.p50, r.p99, r.max} \subseteq ToSet(watchdog.samples)
                 /\ r.p50 <= r.p99 /\ r.p99 <= r.max /\ Above(r.max) = 0
                 /\ 2 * Above(r.p50) <= n /\ 100 * Above(r.p99) <= n
                 /\ r.violated <=> r.max > Threshold

-----------------------------------------------------------------------------
SessionsInit == GuardInit /\ CopyInit /\ OfficesInit /\ WatchdogInit

CopyNext == publish_execution

\* The services of the research headers answer for the calls they were given.
SessionsSound == GuardSound /\ ReplayInOrder /\ CleanMeansAgreed /\ ReportHolds
=============================================================================
