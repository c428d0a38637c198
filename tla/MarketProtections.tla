-------------------------- MODULE MarketProtections -------------------------
(***************************************************************************)
(* The regulatory protections of the research headers, each an object of   *)
(* one thread: self-trade prevention and market-maker protection           *)
(* (luv_stp.hpp), limit-up limit-down bands (luv_luld.hpp), short-sale     *)
(* locates (luv_locate.hpp) and the rule 201 price test                    *)
(* (luv_sec_rule_201_uptick.hpp).  Time and days only move forward.        *)
(***************************************************************************)
EXTENDS Integers, FiniteSetsExt, SequencesExt

CONSTANTS
    Mmp,              \* MmpConfig: [window, volume, notional, delta]
    MmpTrades,        \* executions: [side, qty, price]
    LuldConfigs,      \* LuldConfig: [tier1, open_or_close, timeout]
    References,       \* reference prices, in ten-thousandths
    Nbbo,             \* <<best_bid, best_ask>>
    Clients, Symbols, \* parties and instruments of the locates and of rule 201
    kMaxSymbols, kMaxAllocations,
    Inventories,      \* shares a lender offers
    LocateQtys,       \* shares a client asks for
    LocateDuration,   \* kDefaultLocateDurationNs
    Closes,           \* previous closes, in cents
    Trades201,        \* trade prices, in cents
    LastTick          \* bound on the clock, and on the days

ASSUME ProtectionsAssumption ==
    /\ {kMaxSymbols, kMaxAllocations, LocateDuration, LastTick} \subseteq Nat
    /\ Mmp \in [window : Nat, volume : Nat, notional : Nat, delta : Nat]
    /\ MmpTrades \subseteq [side : {"buy", "sell"}, qty : Nat, price : Nat]
    /\ LuldConfigs \subseteq [tier1 : BOOLEAN, open_or_close : BOOLEAN, timeout : Nat]
    /\ References \subseteq Nat \ {0} /\ Nbbo \subseteq Nat \X Nat
    /\ UNION {Inventories, LocateQtys, Closes, Trades201} \subseteq Nat

VARIABLES
    now,      \* the clock, or the day of rule 201
    mmp,      \* MarketMakerProtection
    luld,     \* LuldEngine
    locates,  \* ShortSaleLocateEngine
    rule201   \* SECRule201UptickEngine

protectionVars == <<now, mmp, luld, locates, rule201>>

Later == now .. LastTick

-----------------------------------------------------------------------------
(***************************************************************************)
(* SelfTradePreventionEngine::evaluate: what is left of an incoming and a  *)
(* resting order of one firm that meet.  Firm 0 is nobody.                 *)
(***************************************************************************)
StpModes == {"none", "newest", "oldest", "both", "decrement"}

SelfTrade(firm, other, mode) == firm # 0 /\ other # 0 /\ firm = other /\ mode # "none"

Adjusted(mode, mine, rest) ==
    CASE mode = "newest" -> <<0, rest>>
      [] mode = "oldest" -> <<mine, 0>>
      [] mode = "both" -> <<0, 0>>
      [] mode = "decrement" -> <<Max({mine - rest, 0}), Max({rest - mine, 0})>>

stp_evaluate(firm, other, mode, mine, rest) ==
    IF SelfTrade(firm, other, mode)
    THEN [detected |-> TRUE, left |-> Adjusted(mode, mine, rest),
          cancel |-> [i \in 1 .. 2 |-> Adjusted(mode, mine, rest)[i] = 0]]
    ELSE [detected |-> FALSE, left |-> <<mine, rest>>, cancel |-> <<FALSE, FALSE>>]

-----------------------------------------------------------------------------
(***************************************************************************)
(* MarketMakerProtection.  history keeps the trades allowed since the last *)
(* reset.                                                                  *)
(***************************************************************************)
MmpFresh == [tripped |-> FALSE, start |-> 0, volume |-> 0, notional |-> 0, delta |-> 0,
             history |-> <<>>]

\* Mutant: every trade starts a window of its own.
SlidAlways(m, t) == [m EXCEPT !.start = t, !.volume = 0, !.notional = 0, !.delta = 0]

Slid(m, t) ==
    IF t > m.start + Mmp.window
    THEN [m EXCEPT !.start = t, !.volume = 0, !.notional = 0, !.delta = 0] ELSE m

Counted(m, x) ==
    [m EXCEPT !.volume = @ + x.qty, !.notional = @ + x.qty * x.price,
              !.delta = @ + (IF x.side = "buy" THEN x.qty ELSE -x.qty)]

Breached(m) ==
    m.volume > Mmp.volume \/ m.notional > Mmp.notional \/ m.delta > Mmp.delta \/ -m.delta > Mmp.delta

on_trade(t, x) ==
    LET m == Counted(Slid(mmp, t), x)
    IN  /\ ~mmp.tripped
        /\ mmp' = IF Breached(m) THEN [m EXCEPT !.tripped = TRUE]
                  ELSE [m EXCEPT !.history = Append(@, [at |-> t, qty |-> x.qty])]
        /\ now' = t
        /\ UNCHANGED <<luld, locates, rule201>>

mmp_reset == mmp' = MmpFresh /\ UNCHANGED <<now, luld, locates, rule201>>

MmpNext ==
    \/ \E t \in Later, x \in MmpTrades : on_trade(t, x)
    \/ mmp_reset

\* Shares allowed within one window length of each other.
Within(h, i) ==
    FoldLeft(+, 0, [k \in DOMAIN h |->
                        IF k >= i /\ h[k].at <= h[i].at + Mmp.window THEN h[k].qty ELSE 0])

\* However the trades fall, no stretch of the window's length sees more than twice
\* the volume limit without a trip: the window restarts at a trade, it does not slide.
MmpBound == \A i \in DOMAIN mmp.history : Within(mmp.history, i) <= 2 * Mmp.volume

-----------------------------------------------------------------------------
(***************************************************************************)
(* LuldEngine.  first is history: when the quotes last left the inside of  *)
(* the bands, or Inside.                                                   *)
(***************************************************************************)
Inside == -1

BasisPoints(c, p) ==
    (IF p > 30000 THEN IF c.tier1 THEN 500 ELSE 1000 ELSE IF p >= 7500 THEN 2000 ELSE 7500)
    * (IF c.open_or_close THEN 2 ELSE 1)

recalculate_bands(c, p) ==
    LET wide == (p * BasisPoints(c, p)) \div 10000
        delta == IF p <= 7500 THEN Min({wide, 1500}) ELSE wide
    IN  [lower |-> Max({p - delta, 0}), upper |-> p + delta]

Referenced(l, p) ==
    [l EXCEPT !.reference = p, !.lower = recalculate_bands(l.config, p).lower,
              !.upper = recalculate_bands(l.config, p).upper]

AtBand(l, bid, ask) == bid >= l.upper \/ (ask <= l.lower /\ ask > 0)
InBands(l, bid, ask) == ~AtBand(l, bid, ask) /\ bid > l.lower /\ ask < l.upper

\* Mutant: leaving the bands again does not restart the clock.
EnteredLate(l, state, t) == [l EXCEPT !.state = state]

Entered(l, state, t) == [l EXCEPT !.state = state, !.start = t]
Paused(l) == [l EXCEPT !.state = "pause"]
TimedOut(l, t) == t >= l.start + l.config.timeout

Quoted(l, bid, ask, t) ==
    IF AtBand(l, bid, ask)
    THEN IF l.state = "normal" THEN Entered(l, "limit", t)
         ELSE IF TimedOut(l, t) THEN Paused(l) ELSE l
    ELSE IF InBands(l, bid, ask) THEN Entered(l, "normal", 0)
    ELSE IF l.state = "normal" THEN Entered(l, "straddle", t)
    ELSE IF l.state = "straddle" /\ TimedOut(l, t) THEN Paused(l) ELSE l

set_reference_price(p) ==
    /\ luld' = Referenced(luld, p)
    /\ UNCHANGED <<now, mmp, locates, rule201>>

update_nbbo(bid, ask, t) ==
    /\ now' = t
    /\ luld' = IF luld.reference = 0 \/ luld.state = "pause" THEN luld
               ELSE [Quoted(luld, bid, ask, t) EXCEPT !.first =
                        IF InBands(luld, bid, ask) THEN Inside
                        ELSE IF luld.first = Inside THEN t ELSE luld.first,
                                                      !.limit = AtBand(luld, bid, ask)]
    /\ UNCHANGED <<mmp, locates, rule201>>

resume_trading(p) ==
    /\ luld' = Referenced([luld EXCEPT !.state = "normal", !.start = 0, !.first = Inside,
                                       !.limit = FALSE], p)
    /\ UNCHANGED <<now, mmp, locates, rule201>>

is_trade_allowed(l, price) ==
    l.state # "pause" /\ (l.reference = 0 \/ price \in l.lower .. l.upper)

LuldNext ==
    \/ \E p \in References : set_reference_price(p) \/ resume_trading(p)
    \/ \E q \in Nbbo, t \in Later : update_nbbo(q[1], q[2], t)

\* Trading pauses only when the quotes have been off the inside of the bands for
\* the whole time-out, and the first quote at a band after that long does pause it.
PausesInTime ==
    /\ luld.state = "pause" => luld.first # Inside /\ now >= luld.first + luld.config.timeout
    /\ (luld.state \in {"limit", "straddle"} /\ luld.limit) =>
            luld.start = now \/ now < luld.start + luld.config.timeout
    /\ luld.state = "normal" => luld.first = Inside

-----------------------------------------------------------------------------
(***************************************************************************)
(* ShortSaleLocateEngine.  offered is history: the largest inventory a     *)
(* symbol ever had.                                                        *)
(***************************************************************************)
NoPool == [registered |-> FALSE, available |-> 0, allocated |-> 0, total |-> 0, offered |-> 0]

\* Mutant: an update forgets what is already lent.
Restocked(pool, total) ==
    [pool EXCEPT !.registered = TRUE, !.available = total, !.total = total,
                 !.offered = Max({pool.offered, total})]

Inventoried(pool, total) ==
    [pool EXCEPT !.registered = TRUE, !.available = total - pool.allocated, !.total = total,
                 !.offered = Max({pool.offered, total})]

set_borrow_inventory(s, total) ==
    /\ \/ locates.pools[s].registered
       \/ Cardinality({x \in Symbols : locates.pools[x].registered}) < kMaxSymbols
    /\ locates' = [locates EXCEPT !.pools[s] = Inventoried(@, total)]
    /\ UNCHANGED <<now, mmp, luld, rule201>>

request_locate(client, s, shares, t) ==
    /\ shares > 0
    /\ locates.pools[s].registered
    /\ locates.pools[s].available >= shares
    /\ Len(locates.allocations) < kMaxAllocations
    /\ locates' = [pools |-> [locates.pools EXCEPT ![s].available = @ - shares,
                                                   ![s].allocated = @ + shares],
                   allocations |-> Append(locates.allocations,
                        [client |-> client, symbol |-> s, shares |-> shares,
                         expiry |-> t + LocateDuration])]
    /\ now' = t
    /\ UNCHANGED <<mmp, luld, rule201>>

Located(client, s, t) ==
    LET a == locates.allocations
    IN  FoldLeft(+, 0, [k \in DOMAIN a |->
            IF a[k].client = client /\ a[k].symbol = s /\ a[k].expiry > t THEN a[k].shares ELSE 0])

validate_short_order(client, s, qty, t) == Located(client, s, t) >= qty

LocateNext ==
    \/ \E s \in Symbols, total \in Inventories : set_borrow_inventory(s, total)
    \/ \E c \in Clients, s \in Symbols, q \in LocateQtys, t \in Later : request_locate(c, s, q, t)

\* What the allocations of a symbol come to.
Lent(a, s) ==
    FoldLeft(+, 0, [k \in DOMAIN a |-> IF a[k].symbol = s THEN a[k].shares ELSE 0])

\* The shares all clients together may sell short never exceed what a lender
\* offered at some time, and the pool's two numbers add up to what it offers now.
LocatesBacked ==
    \A s \in Symbols :
        LET pool == locates.pools[s]
        IN  /\ pool.available + pool.allocated = pool.total
            /\ Lent(locates.allocations, s) = pool.allocated
            /\ \A q \in LocateQtys :
                 (\E c \in Clients : validate_short_order(c, s, q, now)) => q <= pool.offered

-----------------------------------------------------------------------------
(***************************************************************************)
(* SECRule201UptickEngine.  fell is history: the day a symbol last fell to *)
(* its trigger price while unrestricted, since it was registered.          *)
(***************************************************************************)
Unknown201 == [registered |-> FALSE, trigger |-> 0, active |-> FALSE, until |-> 0, fell |-> Inside]

\* prev_close * 0.90; a price in cents is at or below it when ten times it is.
register_symbol(s, close) ==
    /\ close > 0
    /\ \/ rule201[s].registered
       \/ Cardinality({x \in Symbols : rule201[x].registered}) < kMaxSymbols
    /\ rule201' = [rule201 EXCEPT ![s] = [@ EXCEPT !.registered = TRUE, !.trigger = 9 * close,
                                                   !.active = FALSE, !.fell = Inside]]
    /\ UNCHANGED <<now, mmp, luld, locates>>

on_price_update(s, price) ==
    LET fallen == rule201[s].registered /\ 10 * price <= rule201[s].trigger
    IN  /\ fallen /\ ~rule201[s].active
        /\ rule201' = [rule201 EXCEPT ![s].active = TRUE, ![s].until = now + 1, ![s].fell = now]
        /\ UNCHANGED <<now, mmp, luld, locates>>

\* Mutant: the restriction ends with the day it began.
ExpiredEarly(r, day) == r.active /\ day >= r.until

Expired201(r, day) == r.active /\ day > r.until

on_day_rollover ==
    /\ now < LastTick
    /\ now' = now + 1
    /\ rule201' = [s \in Symbols |->
                     IF Expired201(rule201[s], now + 1) THEN [rule201[s] EXCEPT !.active = FALSE]
                     ELSE rule201[s]]
    /\ UNCHANGED <<mmp, luld, locates>>

SaleTypes == {"long", "short", "exempt"}

validate_201(s, type, price, bid) ==
    \/ type \in {"long", "exempt"}
    \/ ~rule201[s].registered
    \/ ~rule201[s].active
    \/ price > bid

Rule201Next ==
    \/ \E s \in Symbols, c \in Closes : register_symbol(s, c)
    \/ \E s \in Symbols, p \in Trades201 : on_price_update(s, p)
    \/ on_day_rollover

\* On the day a registered symbol fell ten percent and on the next one, and on no
\* later day, a short sale at or below the best bid is refused.
RestrictionLasts ==
    \A s \in Symbols :
        LET restricted == rule201[s].fell # Inside /\ now <= rule201[s].fell + 1
        IN  \A p, bid \in Trades201 :
                /\ validate_201(s, "short", p, bid) <=> (~restricted \/ p > bid)
                /\ validate_201(s, "long", p, bid) /\ validate_201(s, "exempt", p, bid)

-----------------------------------------------------------------------------
ProtectionsInit ==
    /\ now = 0
    /\ mmp = MmpFresh
    /\ luld \in [config : LuldConfigs, reference : {0}, lower : {0}, upper : {0},
                 state : {"normal"}, start : {0}, first : {Inside}, limit : {FALSE}]
    /\ locates = [pools |-> [s \in Symbols |-> NoPool], allocations |-> <<>>]
    /\ rule201 = [s \in Symbols |-> Unknown201]

\* Two orders of one firm never trade with each other: what is left of at most one
\* of them goes on, except that cancelling neither is what "none" and firm 0 ask for.
SelfTradesPrevented ==
    \A firm, other \in {0, 1, 2}, mode \in StpModes, mine, rest \in 1 .. 3 :
        LET r == stp_evaluate(firm, other, mode, mine, rest)
        IN  /\ r.detected => r.left[1] = 0 \/ r.left[2] = 0
            /\ ~r.detected => r.left = <<mine, rest>>
            /\ r.left[1] <= mine /\ r.left[2] <= rest

\* The protections of the research headers keep what they promise over every
\* sequence of calls.
ProtectionsSound == MmpBound /\ PausesInTime /\ LocatesBacked /\ RestrictionLasts
=============================================================================
