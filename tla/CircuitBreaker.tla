--------------------------- MODULE CircuitBreaker ---------------------------
(***************************************************************************)
(* CircuitBreaker of luv_safety.hpp: closed, open and, after a cool-down,  *)
(* half-open with a bounded number of probes.  Every call is one step, as  *)
(* the gateway's single thread makes them.  Operators on the breaker       *)
(* record return it as the method leaves it.                               *)
(***************************************************************************)
EXTENDS Naturals

CONSTANTS
    BreakerConfigs,   \* the settings the setters may be given
    MaxClock,         \* bound on the time
    MaxProbes,        \* bound on the calls counted, 32-bit words in the code
    BreakerLosses     \* losses reported to check_loss_limit

ASSUME BreakerAssumption ==
    /\ BreakerConfigs \subseteq
          [max_failures : Nat, cool_down : Nat, half_open : BOOLEAN, max_probes : Nat, needed : Nat,
           max_rejections : Nat, max_rate : Nat, window : Nat, max_loss : Nat]
    /\ MaxClock \in Nat /\ MaxProbes \in Nat /\ BreakerLosses \subseteq Nat

VARIABLES
    breaker,    \* the state and the counters
    setting,    \* the limits in force
    clock,      \* nanoseconds of the caller's clock; 0 means that none was given
    trial       \* history: the trip's own time and what the half-open state saw

breakerVars == <<breaker, setting, clock, trial>>

AtLeastOne(n) == IF n = 0 THEN 1 ELSE n

Reset(b) == [b EXCEPT !.state = "closed", !.failures = 0, !.rejections = 0,
                      !.probes = 0, !.successes = 0, !.tripped_at = 0]

Tripped(b, ts) == [b EXCEPT !.state = "open", !.tripped_at = ts]

\* _failures stops at the maximum: each failure beyond it trips again.
Failed(b, ts) ==
    IF b.state = "half_open" THEN Tripped(b, ts)
    ELSE LET counted == [b EXCEPT !.failures = IF @ < setting.max_failures THEN @ + 1 ELSE @]
         IN  IF b.failures + 1 >= setting.max_failures THEN Tripped(counted, ts) ELSE counted

\* A rejection below its own limit is a failure too.
Rejected(b, ts) ==
    LET counted == [b EXCEPT !.rejections = IF setting.max_rejections > 0 THEN @ + 1 ELSE @]
    IN  IF setting.max_rejections > 0 /\ counted.rejections >= setting.max_rejections
        THEN Tripped(counted, ts) ELSE Failed(counted, ts)

Succeeded(b) ==
    CASE b.state = "half_open" ->
            IF b.successes + 1 >= setting.needed THEN Reset(b) ELSE [b EXCEPT !.successes = @ + 1]
      [] b.state = "closed" -> [b EXCEPT !.failures = 0, !.rejections = 0]
      [] b.state = "open" -> b

\* The closed breaker counts the calls of a window and trips beyond its rate.
Rated(b, now) ==
    IF setting.max_rate = 0 \/ setting.window = 0 \/ now = 0 THEN b
    ELSE IF now < b.window_start \/ now - b.window_start >= setting.window
    THEN [b EXCEPT !.window_start = now, !.window_count = 1]
    ELSE LET counted == [b EXCEPT !.window_count = @ + 1]
         IN  IF counted.window_count > setting.max_rate THEN Tripped(counted, now) ELSE counted

CooledDown(b, now) ==
    /\ b.state = "open"
    /\ setting.cool_down > 0 /\ now > 0
    /\ now >= b.tripped_at /\ now - b.tripped_at >= setting.cool_down

\* Mutant: the counters of the last trial are kept.
TrialKept(b) == [b EXCEPT !.state = "half_open"]

HalfOpened(b) == [b EXCEPT !.state = "half_open", !.probes = 0, !.successes = 0]

\* What allow(now) finds before it counts a probe.
Cooled(b, now) ==
    IF ~CooledDown(b, now) THEN b
    ELSE IF setting.half_open THEN HalfOpened(b) ELSE Reset(b)

\* allow(now): the breaker it leaves, and its answer.
Asked(b, now) ==
    CASE b.state = "closed" -> Rated(b, now)
      [] b.state # "closed" ->
            LET c == Cooled(b, now)
            IN  IF c.state = "half_open" THEN [c EXCEPT !.probes = @ + 1] ELSE c

Allows(b, now) ==
    LET c == Cooled(b, now)
    IN  \/ b.state = "closed" /\ Rated(b, now).state = "closed"
        \/ b.state # "closed" /\ c.state = "closed"
        \/ c.state = "half_open" /\ c.probes < setting.max_probes

-----------------------------------------------------------------------------
BreakerInit ==
    /\ setting \in {[c EXCEPT !.max_failures = AtLeastOne(@)] : c \in BreakerConfigs}
    /\ breaker = [state |-> "closed", failures |-> 0, rejections |-> 0, probes |-> 0,
                  successes |-> 0, tripped_at |-> 0, window_start |-> 0, window_count |-> 0]
    /\ clock = 0
    /\ trial = [since |-> 0, stamped |-> TRUE, admitted |-> 0, good |-> 0]

\* The history of a step that leaves the breaker as b: a trip is remembered
\* with the time it happened, and whether the caller passed that time on.
Watched(b, ts) ==
    IF b.state = "open" /\ <<b.state, b.tripped_at>> # <<breaker.state, breaker.tripped_at>>
    THEN [trial EXCEPT !.since = clock, !.stamped = ts = clock] ELSE trial

record_failure(ts) ==
    /\ breaker' = Failed(breaker, ts)
    /\ trial' = Watched(breaker', ts)
    /\ UNCHANGED <<setting, clock>>

record_rejection(ts) ==
    /\ breaker.rejections < 2
    /\ breaker' = Rejected(breaker, ts)
    /\ trial' = Watched(breaker', ts)
    /\ UNCHANGED <<setting, clock>>

trip(ts) ==
    /\ breaker' = Tripped(breaker, ts)
    /\ trial' = Watched(breaker', ts)
    /\ UNCHANGED <<setting, clock>>

check_loss_limit(loss, ts) ==
    /\ setting.max_loss > 0 /\ loss >= setting.max_loss
    /\ trip(ts)

record_success ==
    /\ breaker' = Succeeded(breaker)
    /\ trial' = IF breaker.state = "half_open" THEN [trial EXCEPT !.good = @ + 1] ELSE trial
    /\ UNCHANGED <<setting, clock>>

reset ==
    /\ breaker' = Reset(breaker)
    /\ UNCHANGED <<setting, clock, trial>>

allow(now) ==
    /\ breaker.probes < MaxProbes /\ breaker.window_count < MaxProbes
    /\ breaker' = Asked(breaker, now)
    /\ trial' =
        CASE CooledDown(breaker, now) /\ setting.half_open ->
                [trial EXCEPT !.admitted = IF Allows(breaker, now) THEN 1 ELSE 0, !.good = 0]
          [] breaker.state = "half_open" /\ Allows(breaker, now) ->
                [trial EXCEPT !.admitted = @ + 1]
          [] breaker.state = "closed" -> Watched(breaker', now)
          [] OTHER -> trial
    /\ UNCHANGED <<setting, clock>>

\* The setters, which may be called at any time.
set_half_open_params(c) ==
    setting' = [setting EXCEPT !.half_open = TRUE, !.max_probes = AtLeastOne(c.max_probes),
                               !.needed = AtLeastOne(c.needed)]

configure(c) ==
    /\ \/ set_half_open_params(c)
       \/ setting' = [setting EXCEPT !.cool_down = c.cool_down]
       \/ setting' = [setting EXCEPT !.max_rejections = c.max_rejections]
       \/ setting' = [setting EXCEPT !.max_rate = c.max_rate, !.window = c.window]
       \/ setting' = [setting EXCEPT !.max_loss = c.max_loss]
    /\ UNCHANGED <<breaker, clock, trial>>

Tick ==
    /\ clock < MaxClock
    /\ clock' = clock + 1
    /\ UNCHANGED <<breaker, setting, trial>>

BreakerNext ==
    \/ Tick \/ reset \/ record_success
    \/ \E c \in BreakerConfigs : configure(c)
    \/ \E ts \in {0, clock} :
        \/ record_failure(ts) \/ record_rejection(ts) \/ trip(ts) \/ allow(ts)
        \/ \E loss \in BreakerLosses : check_loss_limit(loss, ts)

-----------------------------------------------------------------------------
(***************************************************************************)
(* Properties.                                                             *)
(***************************************************************************)

\* A tripped breaker lets trading back in only through the trial its settings
\* describe, whatever the settings, late reports and counters left over from
\* an earlier trial: it leaves open without an operator's reset only once the
\* cool-down has passed since the trip itself, if the trip was told the time;
\* half-open admits at most max_probes calls since it began; and it closes
\* again only after the needed number of successes since it began.
HalfOpenIsTrial ==
    [][/\ breaker.state = "open" /\ breaker'.state # "open" /\ ~reset /\ trial.stamped =>
            clock - trial.since >= setting.cool_down
       /\ breaker'.state = "half_open" /\ trial'.admitted > trial.admitted =>
            trial'.admitted <= setting.max_probes
       /\ breaker.state = "half_open" /\ breaker'.state = "closed" /\ ~reset =>
            trial'.good >= setting.needed]_breakerVars
=============================================================================
