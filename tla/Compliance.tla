----------------------------- MODULE Compliance -----------------------------
(***************************************************************************)
(* luv_compliance.hpp: the registry of customers and its order check       *)
(* (ComplianceRegistry), the structuring and wash-trade monitor            *)
(* (TransactionMonitoringEngine), and the hash-chained event file          *)
(* (ComplianceAuditLedger), whose records and digests are those of         *)
(* AuditLog.                                                               *)
(***************************************************************************)
EXTENDS AuditLog, FiniteSetsExt

CONSTANTS
    Traders,       \* trader ids the callers use
    MaxTraders,    \* MaxTraders: ids from here on are unknown
    Tiers,         \* Tiers[tier]: its single-order and daily limits
    Notionals,     \* order values offered
    Day,           \* kDayNs and kWindowNs
    LastMoment,    \* bound on the time
    MaxOrders,     \* bound on the accepted orders remembered
    MaxSars,       \* bound on the reports counted
    Band,          \* kStructuringMin .. kStructuringMax
    TriggerCount   \* kStructuringTriggerCount

ASSUME ComplianceAssumption ==
    /\ Traders \subseteq Nat /\ MaxTraders \in Nat
    /\ "unverified" \in DOMAIN Tiers
    /\ \A tier \in DOMAIN Tiers : Tiers[tier] \in [single : Nat, daily : Nat]
    /\ Notionals \subseteq Nat /\ Band \subseteq Notionals
    /\ {Day, TriggerCount} \subseteq Nat \ {0} /\ LastMoment \in Nat

VARIABLES
    profiles,     \* _profiles
    watch,        \* _structuring_states
    sars,         \* _next_sar_id and _sar_counter, from zero
    moment,       \* now_ns
    orders,       \* history: accepted orders of each trader since registration
    suspects,     \* history: amounts in the band, and whether each was reported
    trail,        \* the members of the ComplianceAuditLedger
    trailFile,    \* the events in its file
    trailFaulty   \* history: a write of the trail failed

registryVars == <<profiles, orders>>
monitorVars == <<watch, suspects>>
trailVars == <<trail, trailFile, trailFaulty>>
complianceVars == <<registryVars, monitorVars, trailVars, sars, moment>>

NewProfile == [tier |-> "unverified", sanctioned |-> FALSE, suspended |-> FALSE,
               traded |-> 0, day_start |-> 0]

DayReset(p, now) == [p EXCEPT !.traded = 0, !.day_start = now]

\* A day that has passed starts a new one at this order.
Today(p, now) == IF now >= p.day_start + Day THEN DayReset(p, now) ELSE p

\* validate_order's answer: "accepted", or the first check that refuses.
Verdict(trader, notional, now) ==
    LET p == profiles[trader]
        limits == Tiers[p.tier]
    IN  IF trader >= MaxTraders THEN "unregistered"
        ELSE IF p.sanctioned THEN "sanctioned"
        ELSE IF p.suspended THEN "suspended"
        ELSE IF p.tier = "unverified" THEN "unverified"
        ELSE IF notional > limits.single THEN "single"
        ELSE IF Today(p, now).traded + notional > limits.daily THEN "daily"
        ELSE "accepted"

\* The checks before the single-order limit leave the day alone.
Checked(trader, notional, now) ==
    LET verdict == Verdict(trader, notional, now)
    IN  CASE verdict = "accepted" ->
                [Today(profiles[trader], now) EXCEPT !.traded = @ + notional]
          [] verdict = "daily" -> Today(profiles[trader], now)
          [] OTHER -> profiles[trader]

\* A suspended trader is refused without a report.
Reported(verdict) == verdict \notin {"accepted", "suspended"}

-----------------------------------------------------------------------------
ComplianceInit ==
    /\ profiles = [t \in Traders |-> NewProfile]
    /\ orders = [t \in Traders |-> <<>>]
    /\ watch = [t \in Traders |-> [start |-> 0, count |-> 0, amount |-> 0]]
    /\ suspects = [t \in Traders |-> <<>>]
    /\ trail = [open |-> FALSE, sequence |-> 0, tail |-> <<>>]
    /\ trailFile = <<>>
    /\ trailFaulty = FALSE
    /\ sars = 0
    /\ moment = 0

Counts(report) == sars' = IF report /\ sars < MaxSars THEN sars + 1 ELSE sars

Passes == moment < LastMoment /\ moment' = moment + 1 /\ UNCHANGED sars

register_trader(trader, tier, sanctioned) ==
    /\ trader < MaxTraders
    /\ profiles' = [profiles EXCEPT ![trader] =
            [@ EXCEPT !.tier = tier, !.sanctioned = sanctioned, !.suspended = FALSE, !.traded = 0]]
    /\ orders' = [orders EXCEPT ![trader] = <<>>]
    /\ UNCHANGED <<sars, moment>>

set_sanctioned(trader, on) ==
    /\ trader < MaxTraders
    /\ profiles' = [profiles EXCEPT ![trader].sanctioned = on]
    /\ UNCHANGED <<orders, sars, moment>>

set_suspended(trader, on) ==
    /\ trader < MaxTraders
    /\ profiles' = [profiles EXCEPT ![trader].suspended = on]
    /\ UNCHANGED <<orders, sars, moment>>

validate_order(trader, notional) ==
    LET verdict == Verdict(trader, notional, moment)
    IN  /\ Len(orders[trader]) < MaxOrders
        /\ profiles' = [profiles EXCEPT ![trader] = Checked(trader, notional, moment)]
        /\ orders' = IF verdict # "accepted" THEN orders
                     ELSE [orders EXCEPT ![trader] = Append(@, [at |-> moment, value |-> notional])]
        /\ Counts(Reported(verdict))
        /\ UNCHANGED moment

RegistryNext ==
    \/ Passes /\ UNCHANGED registryVars
    \/ \E trader \in Traders :
        \/ \E tier \in DOMAIN Tiers, on \in BOOLEAN : register_trader(trader, tier, on)
        \/ \E on \in BOOLEAN : set_sanctioned(trader, on) \/ set_suspended(trader, on)
        \/ \E notional \in Notionals : validate_order(trader, notional)

-----------------------------------------------------------------------------
\* The window the amount falls in.
Window_(w, now) == IF now >= w.start + Day THEN [start |-> now, count |-> 0, amount |-> 0] ELSE w

\* Mutant: reported only beyond the count.
TriggersLate(w) == w.count > TriggerCount

Triggers(w) == w.count >= TriggerCount

check_structuring(trader, amount) ==
    LET w == Window_(watch[trader], moment)
        counted == [w EXCEPT !.count = @ + 1, !.amount = @ + amount]
    IN  /\ trader < MaxTraders /\ amount \in Band
        /\ Len(suspects[trader]) < 2 * TriggerCount
        /\ watch' = [watch EXCEPT ![trader] = counted]
        /\ suspects' = [suspects EXCEPT ![trader] =
                            Append(@, [at |-> moment, reported |-> Triggers(counted)])]
        /\ Counts(Triggers(counted))
        /\ UNCHANGED moment

check_wash_trade(buyer, seller) ==
    /\ buyer = seller /\ buyer # 0
    /\ Counts(TRUE)
    /\ UNCHANGED <<monitorVars, moment>>

MonitorNext ==
    \/ Passes /\ UNCHANGED monitorVars
    \/ \E buyer, seller \in Traders : check_wash_trade(buyer, seller)
    \/ \E trader \in Traders, amount \in Notionals : check_structuring(trader, amount)

-----------------------------------------------------------------------------
\* open() follows sequence numbers and links, but does not hash again.
trail_open ==
    /\ ~trail.open
    /\ \A i \in DOMAIN trailFile :
        /\ trailFile[i].sequence = i - 1
        /\ trailFile[i].previous_hash = PreviousHash(trailFile, i)
    /\ trail' = [open |-> TRUE, sequence |-> Len(trailFile),
                 tail |-> PreviousHash(trailFile, Len(trailFile) + 1)]
    /\ UNCHANGED <<trailFile, trailFaulty>>

\* Mutant: the tail stays behind.
TailKept(l, e) == [l EXCEPT !.sequence = @ + 1]

\* The members move on before the write.
Moved(l, e) == [l EXCEPT !.sequence = @ + 1, !.tail = e.hash]

log_event(body, written) ==
    LET e == Event(trail.sequence, trail.tail, body)
    IN  /\ trail.open /\ trail.sequence < MaxEvents
        /\ trail' = Moved(trail, e)
        /\ trailFile' = IF written THEN Append(trailFile, e) ELSE trailFile
        /\ trailFaulty' = (trailFaulty \/ ~written)

trail_close ==
    /\ trail.open
    /\ trail' = [trail EXCEPT !.open = FALSE]
    /\ UNCHANGED <<trailFile, trailFaulty>>

\* compute_hash covers the record up to its hash, the link and the number included.
compute_hash(e) == Digest(e.previous_hash, e.sequence, e.body)

\* verify_integrity walks the file and, unlike open(), hashes every record again.
verify_integrity(f) ==
    \A i \in DOMAIN f :
        /\ f[i].sequence = i - 1 /\ f[i].previous_hash = PreviousHash(f, i)
        /\ f[i].hash = compute_hash(f[i])

TrailNext ==
    \/ trail_open \/ trail_close
    \/ \E body \in Bodies, written \in BOOLEAN : log_event(body, written)

-----------------------------------------------------------------------------
(***************************************************************************)
(* Properties.                                                             *)
(***************************************************************************)

\* What the orders of s from lo to hi are worth.
WorthWithin(s, lo, hi) ==
    FoldLeft(LAMBDA sum, o : IF o.at \in lo .. hi THEN sum + o.value ELSE sum, 0, s)

\* The day starts at an order, not at midnight and not with the order a day
\* ago: whatever falls within any day is at most twice the tier's limit, and no
\* more, since it meets at most two of the registry's days.
RollingDayBound ==
    \A t \in Traders, from \in 0 .. LastMoment :
        WorthWithin(orders[t], from, from + Day - 1) <= 2 * Tiers[profiles[t].tier].daily

\* Two windows meet a day at most, so one amount less than twice the trigger
\* count within a day cannot all pass unreported.
StructuringSeen ==
    \A t \in Traders :
        LET s == suspects[t]
        IN  \A i, j \in DOMAIN s :
                j - i + 1 >= 2 * TriggerCount - 1 /\ s[j].at - s[i].at < Day =>
                    \E k \in i .. j : s[k].reported

\* Until a write fails the event file verifies, across close and open.
TrailVerifies == ~trailFaulty => verify_integrity(trailFile)

\* Neither limits, reports nor trail are lost to the way days are cut and files
\* reopened.
ComplianceSound == RollingDayBound /\ StructuringSeen /\ TrailVerifies
=============================================================================
