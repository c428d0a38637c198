---------------------------- MODULE Venue_proofs -----------------------------
(***************************************************************************)
(* The venue's controls of run controls: market protections, session       *)
(* services and encodings, for every value of the constants.  The lemmas   *)
(* on sorting and on sums are those of Controls_proofs.                    *)
(***************************************************************************)
EXTENDS Controls_proofs

LEMMA MaxOfTwo ==
    ASSUME NEW a \in Int, NEW b \in Int
    PROVE  Max({a, b}) = IF a <= b THEN b ELSE a
<1> DEFINE m == IF a <= b THEN b ELSE a
<1>1. m \in {a, b} /\ \A y \in {a, b} : m >= y
  OBVIOUS
<1>2. \A x \in {a, b} : (\A y \in {a, b} : x >= y) => x = m
  OBVIOUS
<1> HIDE DEF m
<1>3. Max({a, b}) = m
  BY <1>1, <1>2 DEF Max
<1> QED BY <1>3 DEF m

-----------------------------------------------------------------------------
(***************************************************************************)
(* Market-maker protection.                                                *)
(***************************************************************************)
Allowed == [at : Nat, qty : Nat]
MmpType == [tripped : BOOLEAN, start : Nat, volume : Nat, notional : Nat, delta : Int,
            history : Seq(Allowed)]

LEMMA ProtectionNumbers ==
    /\ Mmp.window \in Nat /\ Mmp.volume \in Nat /\ LastTick \in Nat
    /\ \A x \in MmpTrades : x.side \in {"buy", "sell"} /\ x.qty \in Nat /\ x.price \in Nat
BY ProtectionsAssumption

\* A sum within a window, and what one more trade adds to it.
LEMMA WithinGrows ==
    ASSUME NEW h \in Seq(Allowed), NEW e \in Allowed
    PROVE  /\ \A i \in 1 .. Len(h) : /\ Within(h, i) \in Nat
                                     /\ Within(Append(h, e), i)
                                          = Within(h, i) + (IF e.at <= h[i].at + Mmp.window THEN e.qty ELSE 0)
           /\ Within(Append(h, e), Len(h) + 1) = e.qty
<1> DEFINE n == Len(h)
           g == Append(h, e)
           W == Mmp.window
<1>0. n \in Nat /\ DOMAIN h = 1 .. n /\ DOMAIN g = 1 .. n + 1 /\ W \in Nat
  BY ProtectionNumbers
<1>1. /\ \A k \in 1 .. n : g[k] = h[k] /\ h[k].at \in Nat /\ h[k].qty \in Nat
      /\ g[n + 1] = e /\ e.at \in Nat /\ e.qty \in Nat
  <2>1. \A k \in 1 .. n : h[k] \in Allowed /\ g[k] = h[k]
    OBVIOUS
  <2> QED BY <2>1 DEF Allowed
<1> HIDE DEF n, g, W
<1> DEFINE old(i) == [k \in 1 .. n |-> IF k >= i /\ h[k].at <= h[i].at + W THEN h[k].qty ELSE 0]
           new(i) == [k \in 1 .. n + 1 |-> IF k >= i /\ g[k].at <= g[i].at + W THEN g[k].qty ELSE 0]
<1>2. \A i : Within(h, i) = Total(old(i)) /\ Within(g, i) = Total(new(i))
  BY <1>0 DEF Within, Total, W
<1>3. \A i \in 1 .. n : /\ old(i) \in [1 .. n -> Nat] /\ new(i) \in [1 .. n + 1 -> Nat]
                        /\ \A k \in 1 .. n : new(i)[k] = old(i)[k]
                        /\ new(i)[n + 1] = IF e.at <= h[i].at + W THEN e.qty ELSE 0
  BY <1>0, <1>1
<1>4. ASSUME NEW i \in 1 .. n
      PROVE  /\ Within(h, i) \in Nat
             /\ Within(g, i) = Within(h, i) + (IF e.at <= h[i].at + W THEN e.qty ELSE 0)
  <2> DEFINE u == old(i)
             v == new(i)
  <2>1. u \in [1 .. n -> Nat] /\ v \in [1 .. n + 1 -> Nat] /\ \A k \in 1 .. n : v[k] = u[k]
    BY <1>3
  <2> HIDE DEF u, v
  <2>2. Total(v) = Total(u) + v[n + 1]
    BY <1>0, <2>1, TotalNext
  <2>3. u \in Seq(Nat)
    BY <1>0, <2>1 DEF Seq
  <2>4. Total(u) \in Nat
    BY <2>3, TotalNat
  <2> QED BY <1>2, <1>3, <2>2, <2>4 DEF u, v
<1>5. Within(g, n + 1) = e.qty
  <2> DEFINE u == [k \in 1 .. n |-> 0]
             v == new(n + 1)
  <2>1. u \in [1 .. n -> Nat] /\ v \in [1 .. n + 1 -> Nat] /\ (\A k \in 1 .. n : v[k] = u[k] /\ u[k] = 0)
        /\ v[n + 1] = e.qty
    BY <1>0, <1>1
  <2> HIDE DEF u, v
  <2>2. Total(v) = Total(u) + v[n + 1]
    BY <1>0, <2>1, TotalNext
  <2>3. u \in Seq(Nat) /\ Len(u) = n
    BY <1>0, <2>1 DEF Seq
  <2>4. Total(u) = 0
    BY <2>1, <2>3, TotalZero
  <2> QED BY <1>1, <1>2, <2>1, <2>2, <2>4 DEF v
<1> QED BY <1>4, <1>5 DEF n, g, W

\* Trades of the current window count in full, those of the one before it at most
\* up to the limit.
Covered(m, i) ==
    /\ m.history[i].at >= m.start => Within(m.history, i) <= m.volume
    /\ (m.history[i].at < m.start /\ m.history[i].at + Mmp.window >= m.start) =>
            Within(m.history, i) <= Mmp.volume + m.volume
Doubled(h) == \A i \in 1 .. Len(h) : Within(h, i) <= 2 * Mmp.volume

MmpOK(m, t) ==
    /\ m \in MmpType /\ m.start <= t
    /\ \A i \in 1 .. Len(m.history) : m.history[i].at <= m.start + Mmp.window
    /\ Doubled(m.history)
    /\ ~m.tripped => m.volume <= Mmp.volume /\ \A i \in 1 .. Len(m.history) : Covered(m, i)

MmpMoved(m, t, q, z) ==
    /\ z \in MmpType /\ z.history = m.history /\ z.tripped = m.tripped
    /\ t > m.start + Mmp.window => z.start = t /\ z.volume = q
    /\ ~(t > m.start + Mmp.window) => z.start = m.start /\ z.volume = m.volume + q

LEMMA MmpMoves ==
    ASSUME NEW m \in MmpType, NEW t \in Nat, NEW x \in MmpTrades
    PROVE  MmpMoved(m, t, x.qty, Counted(Slid(m, t), x))
<1> DEFINE s == Slid(m, t)
<1>1. x.side \in {"buy", "sell"} /\ x.qty \in Nat /\ x.price \in Nat
  BY ProtectionNumbers
<1>2. /\ s \in MmpType /\ s.history = m.history /\ s.tripped = m.tripped
      /\ t > m.start + Mmp.window => s.start = t /\ s.volume = 0
      /\ ~(t > m.start + Mmp.window) => s.start = m.start /\ s.volume = m.volume
  <2>1. CASE t > m.start + Mmp.window
    <3>1. s = [m EXCEPT !.start = t, !.volume = 0, !.notional = 0, !.delta = 0]
      BY <2>1 DEF Slid
    <3> HIDE DEF s
    <3>2. m \in MmpType /\ t \in Nat
      OBVIOUS
    <3>3. s \in MmpType /\ s.history = m.history /\ s.tripped = m.tripped /\ s.start = t /\ s.volume = 0
      <4> DEFINE a == [m EXCEPT !.start = t]
                 b == [a EXCEPT !.volume = 0]
                 c == [b EXCEPT !.notional = 0]
      <4>0. s = [c EXCEPT !.delta = 0]
        BY <3>1, <3>2 DEF MmpType
      <4>1. a \in MmpType /\ a.history = m.history /\ a.tripped = m.tripped /\ a.start = t
        BY ONLY <3>2 DEF MmpType
      <4> HIDE DEF a
      <4>2. b \in MmpType /\ b.history = a.history /\ b.tripped = a.tripped /\ b.start = a.start /\ b.volume = 0
        BY ONLY <4>1 DEF MmpType
      <4> HIDE DEF b
      <4>3. c \in MmpType /\ c.history = b.history /\ c.tripped = b.tripped /\ c.start = b.start /\ c.volume = 0
        BY ONLY <4>2 DEF MmpType
      <4> HIDE DEF c
      <4>4. s \in MmpType /\ s.history = c.history /\ s.tripped = c.tripped /\ s.start = c.start /\ s.volume = 0
        BY ONLY <4>0, <4>3 DEF MmpType
      <4> QED BY <4>1, <4>2, <4>3, <4>4
    <3> QED BY <2>1, <3>3
  <2>2. CASE ~(t > m.start + Mmp.window)
    BY <2>2 DEF Slid
  <2> QED BY <2>1, <2>2
<1> HIDE DEF s
<1>3. /\ s.volume \in Nat /\ s.notional \in Nat /\ s.delta \in Int /\ x.qty * x.price \in Nat
      /\ m.volume \in Nat /\ m.start \in Nat
  BY <1>1, <1>2 DEF MmpType
<1> DEFINE v == s.volume + x.qty
           p == s.notional + x.qty * x.price
           d == s.delta + (IF x.side = "buy" THEN x.qty ELSE -x.qty)
           z == [s EXCEPT !.volume = v, !.notional = p, !.delta = d]
<1>4. v \in Nat /\ p \in Nat /\ d \in Int
  <2> DEFINE y == x.qty * x.price
  <2>1. y \in Nat
    BY <1>3
  <2> HIDE DEF y
  <2>2. s.notional + y \in Nat
    BY <1>3, <2>1
  <2> QED BY <1>1, <1>3, <2>2 DEF y
<1>5. Counted(s, x) = z
  BY DEF Counted
<1> HIDE DEF v, p, d
<1>6. z \in MmpType /\ z.history = s.history /\ z.tripped = s.tripped /\ z.start = s.start /\ z.volume = v
  BY ONLY <1>2, <1>4 DEF MmpType
<1> HIDE DEF z
<1>7. (s.volume = 0 => v = x.qty) /\ (s.volume = m.volume => v = m.volume + x.qty)
  BY <1>1, <1>3 DEF v
<1> QED BY <1>2, <1>5, <1>6, <1>7 DEF MmpMoved, s

LEMMA MmpTrades_ ==
    ASSUME NEW m, NEW u \in Nat, MmpOK(m, u), ~m.tripped, NEW t \in Nat, u <= t, NEW q \in Nat,
           NEW z, MmpMoved(m, t, q, z), z.volume <= Mmp.volume,
           NEW y, y = [z EXCEPT !.history = Append(z.history, [at |-> t, qty |-> q])]
    PROVE  MmpOK(y, t)
<1> DEFINE h == m.history
           n == Len(h)
           e == [at |-> t, qty |-> q]
           g == Append(h, e)
           W == Mmp.window
           V == Mmp.volume
<1>0. W \in Nat /\ V \in Nat
  BY ProtectionNumbers
<1>1. /\ h \in Seq(Allowed) /\ m.start \in Nat /\ m.volume \in Nat /\ m.start <= u /\ m.volume <= V
      /\ \A i \in 1 .. n : h[i].at <= m.start + W /\ Within(h, i) <= 2 * V /\ Covered(m, i)
  BY DEF MmpOK, MmpType, Doubled
<1>2. n \in Nat /\ e \in Allowed /\ e.at = t /\ e.qty = q /\ \A i \in 1 .. n : h[i].at \in Nat
  <2>1. \A i \in 1 .. n : h[i] \in Allowed
    BY <1>1
  <2> QED BY <1>1, <2>1 DEF Allowed
<1>3. z \in MmpType /\ z.history = h /\ z.tripped = m.tripped
  BY DEF MmpMoved
<1>4. g \in Seq(Allowed) /\ Len(g) = n + 1 /\ g[n + 1] = e /\ \A i \in 1 .. n : g[i] = h[i]
  BY <1>1, <1>2
<1>5. /\ y \in MmpType /\ y.history = g /\ ~y.tripped /\ y.start = z.start /\ y.volume = z.volume
  <2> HIDE DEF g
  <2>1. y = [z EXCEPT !.history = g]
    BY <1>3 DEF g
  <2> QED BY ONLY <1>3, <1>4, <2>1, ~m.tripped DEF MmpType
<1>6. z.start \in Nat /\ z.volume \in Nat
  BY <1>3 DEF MmpType
<1>7. /\ \A i \in 1 .. n : /\ Within(h, i) \in Nat
                           /\ Within(g, i) = Within(h, i) + (IF t <= h[i].at + W THEN q ELSE 0)
      /\ Within(g, n + 1) = q
  BY <1>1, <1>2, WithinGrows
<1>8. \/ t > m.start + W /\ z.start = t /\ z.volume = q
      \/ t <= m.start + W /\ z.start = m.start /\ z.volume = m.volume + q
  BY <1>0, <1>1 DEF MmpMoved
<1> HIDE DEF h, n, e, g, W, V
<1>9. z.start <= t
  BY <1>1, <1>8
<1>10. ASSUME NEW i \in 1 .. n
       PROVE  /\ h[i].at <= z.start + W /\ Within(g, i) <= 2 * V
              /\ h[i].at >= z.start => Within(g, i) <= z.volume
              /\ (h[i].at < z.start /\ h[i].at + W >= z.start) => Within(g, i) <= V + z.volume
  <2> DEFINE a == h[i].at
             w == Within(h, i)
             b == m.start
             c == m.volume
  <2>1. /\ a \in Nat /\ w \in Nat /\ b \in Nat /\ c \in Nat /\ c <= V /\ a <= b + W /\ w <= 2 * V
        /\ (a >= b => w <= c) /\ (a < b /\ a + W >= b => w <= V + c)
        /\ Within(g, i) = w + (IF t <= a + W THEN q ELSE 0)
    BY <1>1, <1>2, <1>7 DEF Covered, h, W, V
  <2>2. z.volume <= V
    BY DEF V
  <2> HIDE DEF a, w, b, c
  <2>3. \/ t > b + W /\ z.start = t /\ z.volume = q
        \/ t <= b + W /\ b <= t /\ z.start = b /\ z.volume = c + q
    BY <1>1, <1>8 DEF b, c
  <2> DEFINE f == Within(g, i)
             k == z.start
             l == z.volume
  <2>4. /\ f = w + (IF t <= a + W THEN q ELSE 0) /\ l <= V /\ W \in Nat /\ V \in Nat /\ t \in Nat /\ q \in Nat
        /\ \/ t > b + W /\ k = t /\ l = q
           \/ t <= b + W /\ b <= t /\ k = b /\ l = c + q
    BY <1>0, <2>1, <2>2, <2>3
  <2> HIDE DEF f, k, l
  <2>5. /\ a <= k + W /\ f <= 2 * V /\ (a >= k => f <= l)
        /\ (a < k /\ a + W >= k) => f <= V + l
    <3>1. CASE t > b + W /\ k = t /\ l = q
      BY ONLY <2>1, <2>4, <3>1
    <3>2. CASE t <= b + W /\ b <= t /\ k = b /\ l = c + q
      BY ONLY <2>1, <2>4, <3>2
    <3> QED BY <2>4, <3>1, <3>2
  <2> QED BY <2>5 DEF a, f, k, l
<1>11. /\ g[n + 1].at = t /\ t <= z.start + W /\ Within(g, n + 1) <= 2 * V
       /\ Within(g, n + 1) <= z.volume /\ t >= z.start
  <2>1. z.volume <= V
    BY DEF V
  <2>2. q <= z.volume /\ q <= 2 * V
    BY <1>0, <1>1, <1>6, <1>8, <2>1
  <2>3. t <= z.start + W
    BY <1>0, <1>1, <1>8
  <2> QED BY <1>2, <1>4, <1>6, <1>7, <1>9, <2>2, <2>3
<1>12. \A i \in 1 .. Len(g) : i \in 1 .. n \/ i = n + 1
  BY <1>2, <1>4
<1>13. \A i \in 1 .. Len(g) : g[i].at <= z.start + W /\ Within(g, i) <= 2 * V
  BY <1>4, <1>10, <1>11, <1>12
<1>14. ASSUME NEW i \in 1 .. Len(g) PROVE Covered(y, i)
  <2>1. CASE i \in 1 .. n
    BY <1>4, <1>5, <1>10, <2>1 DEF Covered, W, V
  <2>2. CASE i = n + 1
    <3>1. ~(t < z.start)
      BY <1>6, <1>9
    <3>2. y.history[i].at = t /\ y.start = z.start /\ y.volume = z.volume /\ Within(y.history, i) <= z.volume
      BY <1>5, <1>11, <2>2
    <3> QED BY <3>1, <3>2 DEF Covered
  <2> QED BY <1>12, <2>1, <2>2
<1> QED BY <1>5, <1>9, <1>13, <1>14 DEF MmpOK, Doubled, W, V

LEMMA MmpKeeps ==
    ASSUME now \in Nat, MmpOK(mmp, now), MmpNext
    PROVE  MmpOK(mmp, now)' /\ now' \in Nat
<1>1. ASSUME NEW t \in Later, NEW x \in MmpTrades, on_trade(t, x) PROVE MmpOK(mmp, now)' /\ now' \in Nat
  <2> DEFINE z == Counted(Slid(mmp, t), x)
             q == x.qty
  <2>1. /\ ~mmp.tripped /\ now' = t
        /\ mmp' = IF Breached(z) THEN [z EXCEPT !.tripped = TRUE]
                  ELSE [z EXCEPT !.history = Append(z.history, [at |-> t, qty |-> q])]
    BY <1>1 DEF on_trade
  <2>2. t \in Nat /\ now <= t /\ q \in Nat /\ mmp \in MmpType
    BY ProtectionNumbers DEF Later, MmpOK
  <2>3. MmpMoved(mmp, t, q, z)
    BY <2>2, MmpMoves
  <2> HIDE DEF z, q
  <2>4. z \in MmpType /\ z.history = mmp.history
    BY <2>3 DEF MmpMoved
  <2>5. CASE Breached(z)
    <3>1. mmp' = [z EXCEPT !.tripped = TRUE]
      BY <2>1, <2>5
    <3>2. mmp' \in MmpType /\ mmp'.history = mmp.history /\ mmp'.tripped /\ mmp'.start = z.start
      BY ONLY <2>4, <3>1 DEF MmpType
    <3>3. mmp.start \in Nat /\ mmp.start <= now /\ Mmp.window \in Nat
      BY ProtectionNumbers DEF MmpOK, MmpType
    <3>4. z.start <= t /\ mmp.start <= z.start /\ z.start \in Nat
      <4>1. z.start = t \/ z.start = mmp.start
        BY <2>3 DEF MmpMoved
      <4> QED BY <2>2, <3>3, <4>1
    <3>5. \A i \in 1 .. Len(mmp.history) : mmp.history[i].at <= z.start + Mmp.window
      <4> TAKE i \in 1 .. Len(mmp.history)
      <4>1. mmp.history[i].at <= mmp.start + Mmp.window
        BY DEF MmpOK
      <4>2. mmp.history[i].at \in Nat
        <5>1. mmp.history \in Seq(Allowed)
          BY <2>2 DEF MmpType
        <5>2. mmp.history[i] \in Allowed
          BY <5>1
        <5> QED BY <5>2 DEF Allowed
      <4> QED BY <3>3, <3>4, <4>1, <4>2
    <3> QED BY <2>1, <2>2, <3>2, <3>4, <3>5 DEF MmpOK
  <2>6. CASE ~Breached(z)
    <3>1. z.volume <= Mmp.volume
      <4>1. z.volume \in Nat /\ Mmp.volume \in Nat
        BY <2>4, ProtectionNumbers DEF MmpType
      <4> QED BY <2>6, <4>1 DEF Breached
    <3>2. mmp' = [z EXCEPT !.history = Append(z.history, [at |-> t, qty |-> q])]
      BY <2>1, <2>6
    <3>3. MmpOK(mmp', t)
      BY <2>1, <2>2, <2>3, <3>1, <3>2, MmpTrades_
    <3> QED BY <2>1, <2>2, <3>3
  <2> QED BY <2>5, <2>6
<1>2. ASSUME mmp_reset PROVE MmpOK(mmp, now)' /\ now' \in Nat
  <2>1. mmp' = MmpFresh /\ now' = now
    BY <1>2 DEF mmp_reset
  <2>2. MmpOK(MmpFresh, now)
    BY ProtectionNumbers DEF MmpOK, MmpFresh, MmpType, Doubled
  <2> QED BY <2>1, <2>2
<1> QED BY <1>1, <1>2 DEF MmpNext

-----------------------------------------------------------------------------
(***************************************************************************)
(* Limit-up limit-down.                                                    *)
(***************************************************************************)
LuldType == [config : LuldConfigs, reference : Nat, lower : Int, upper : Int,
             state : {"normal", "limit", "straddle", "pause"}, start : Nat, first : Int, limit : BOOLEAN]

\* The quotes left the bands when the state did.
LuldOK(l, t) ==
    /\ l \in LuldType /\ (l.state = "normal" => l.first = Inside)
    /\ l.state # "normal" => l.reference # 0 /\ l.first = l.start
    /\ l.state = "pause" => t >= l.start + l.config.timeout
    /\ (l.state \in {"limit", "straddle"} /\ l.limit) => l.start = t \/ t < l.start + l.config.timeout

LEMMA BandsAreNumbers ==
    ASSUME NEW c, NEW p \in Nat
    PROVE  recalculate_bands(c, p).lower \in Int /\ recalculate_bands(c, p).upper \in Int
<1> DEFINE b == BasisPoints(c, p)
           wide == (p * b) \div 10000
           delta == IF p <= 7500 THEN Min({wide, 1500}) ELSE wide
<1>1. b \in Nat
  BY DEF BasisPoints
<1> HIDE DEF b
<1>2. wide \in Int
  <2> DEFINE q == p * b
  <2>1. q \in Nat
    BY <1>1
  <2> HIDE DEF q
  <2>2. q \div 10000 \in Int
    BY <2>1
  <2> QED BY <2>2 DEF q
<1> HIDE DEF wide
<1>3. delta \in Int
  <2>1. Min({wide, 1500}) = IF wide <= 1500 THEN wide ELSE 1500
    BY <1>2, MinOfTwo
  <2> QED BY <1>2, <2>1
<1> HIDE DEF delta
<1>4. p - delta \in Int /\ p + delta \in Int
  BY <1>3
<1>5. Max({p - delta, 0}) = IF p - delta <= 0 THEN 0 ELSE p - delta
  <2> DEFINE d == p - delta
  <2>1. d \in Int
    BY <1>4
  <2> HIDE DEF d
  <2>2. Max({d, 0}) = IF d <= 0 THEN 0 ELSE d
    BY <2>1, MaxOfTwo
  <2> QED BY <2>2 DEF d
<1>6. Max({p - delta, 0}) \in Int
  BY <1>4, <1>5
<1>7. recalculate_bands(c, p) = [lower |-> Max({p - delta, 0}), upper |-> p + delta]
  BY DEF recalculate_bands, delta, wide, b
<1> QED BY <1>4, <1>6, <1>7

SameState(l, k) == k.config = l.config /\ k.state = l.state /\ k.start = l.start /\ k.first = l.first /\ k.limit = l.limit

LEMMA ReferencedIs ==
    ASSUME NEW l \in LuldType, NEW p \in Nat
    PROVE  /\ Referenced(l, p) \in LuldType /\ SameState(l, Referenced(l, p))
           /\ Referenced(l, p).reference = p
<1> DEFINE x == recalculate_bands(l.config, p).lower
           y == recalculate_bands(l.config, p).upper
<1>1. x \in Int /\ y \in Int
  BY BandsAreNumbers
<1>2. Referenced(l, p) = [l EXCEPT !.reference = p, !.lower = x, !.upper = y]
  BY DEF Referenced
<1> HIDE DEF x, y
<1> DEFINE a == [l EXCEPT !.reference = p]
           b == [a EXCEPT !.lower = x]
           c == [b EXCEPT !.upper = y]
<1>3. Referenced(l, p) = c
  BY <1>2 DEF LuldType
<1>4. a \in LuldType /\ SameState(l, a) /\ a.reference = p
  BY DEF LuldType, SameState
<1> HIDE DEF a
<1>5. b \in LuldType /\ SameState(a, b) /\ b.reference = a.reference
  BY <1>1, <1>4 DEF LuldType, SameState
<1> HIDE DEF b
<1>6. c \in LuldType /\ SameState(b, c) /\ c.reference = b.reference
  BY <1>1, <1>5 DEF LuldType, SameState
<1> HIDE DEF c
<1> QED BY <1>3, <1>4, <1>5, <1>6 DEF SameState

EntersAs(l, s, t, k) ==
    /\ k \in LuldType /\ k.state = s /\ k.start = t /\ k.first = l.first /\ k.config = l.config
    /\ k.reference = l.reference

LEMMA EnteredIs ==
    ASSUME NEW l \in LuldType, NEW s \in {"normal", "limit", "straddle", "pause"}, NEW t \in Nat
    PROVE  EntersAs(l, s, t, Entered(l, s, t))
BY DEF LuldType, Entered, EntersAs

Noted(l, f, b) == [l EXCEPT !.first = f, !.limit = b]
NotedAs(l, f, b, k) ==
    /\ k \in LuldType /\ k.state = l.state /\ k.start = l.start /\ k.config = l.config
    /\ k.first = f /\ k.limit = b /\ k.reference = l.reference

LEMMA NotedIs ==
    ASSUME NEW l \in LuldType, NEW f \in Int, NEW b \in BOOLEAN
    PROVE  NotedAs(l, f, b, Noted(l, f, b))
BY DEF LuldType, Noted, NotedAs

LEMMA LuldQuoted ==
    ASSUME NEW l, NEW u \in Nat, LuldOK(l, u), l.state # "pause", l.reference # 0, NEW t \in Nat, u <= t, NEW bid \in Nat,
           NEW ask \in Nat, NEW k,
           k = [Quoted(l, bid, ask, t) EXCEPT
                    !.first = IF InBands(l, bid, ask) THEN Inside ELSE IF l.first = Inside THEN t ELSE l.first,
                    !.limit = AtBand(l, bid, ask)]
    PROVE  LuldOK(k, t)
<1> DEFINE q == Quoted(l, bid, ask, t)
           f == IF InBands(l, bid, ask) THEN Inside ELSE IF l.first = Inside THEN t ELSE l.first
           b == AtBand(l, bid, ask)
<1>1. /\ l \in LuldType /\ l.start \in Nat /\ l.first \in Int /\ l.config.timeout \in Nat
      /\ (l.state = "normal" => l.first = Inside) /\ (l.state # "normal" => l.first = l.start)
      /\ l.state \in {"normal", "limit", "straddle", "pause"}
  <2>1. l \in LuldType /\ l.config \in LuldConfigs
    BY DEF LuldOK, LuldType
  <2>2. l.config.timeout \in Nat
    BY <2>1, ProtectionsAssumption
  <2> QED BY <2>1, <2>2 DEF LuldOK, LuldType
<1>2. f \in Int /\ b \in BOOLEAN
  BY <1>1 DEF Inside, AtBand
<1>3. InBands(l, bid, ask) => ~b
  BY DEF InBands
<1>4. /\ q = l \/ q = Entered(l, "limit", t) \/ q = Paused(l) \/ q = Entered(l, "normal", 0)
         \/ q = Entered(l, "straddle", t)
  BY DEF Quoted
<1> DEFINE timed == TimedOut(l, t)
<1>5. /\ b /\ l.state = "normal" => q = Entered(l, "limit", t)
      /\ b /\ l.state # "normal" /\ timed => q = Paused(l)
      /\ b /\ l.state # "normal" /\ ~timed => q = l
      /\ InBands(l, bid, ask) => q = Entered(l, "normal", 0)
      /\ ~b /\ ~InBands(l, bid, ask) /\ l.state = "normal" => q = Entered(l, "straddle", t)
      /\ ~b /\ ~InBands(l, bid, ask) /\ l.state = "straddle" /\ timed => q = Paused(l)
      /\ ~b /\ ~InBands(l, bid, ask) /\ l.state # "normal" /\ ~(l.state = "straddle" /\ timed) => q = l
  BY <1>3 DEF Quoted
<1>6. timed <=> t >= l.start + l.config.timeout
  BY DEF TimedOut
<1>7. k = Noted(q, f, b)
  BY DEF Noted
<1> HIDE DEF q, f, timed, b
<1>9. ASSUME q \in LuldType
      PROVE  /\ k \in LuldType /\ k.state = q.state /\ k.start = q.start /\ k.config = q.config
             /\ k.first = f /\ k.limit = b /\ k.reference = q.reference
  <2>1. NotedAs(q, f, b, Noted(q, f, b))
    BY ONLY <1>2, <1>9, NotedIs
  <2> QED BY <1>7, <2>1 DEF NotedAs
<1>10. CASE q = l
  <2>1. /\ l.state # "normal" /\ ~InBands(l, bid, ask) /\ (b => ~timed)
        \/ q = Paused(l) \/ q = Entered(l, "normal", 0) \/ q = Entered(l, "limit", t) \/ q = Entered(l, "straddle", t)
    BY <1>5
  <2>2. CASE l.state # "normal" /\ ~InBands(l, bid, ask) /\ (b => ~timed)
    <3>1. f = l.first
      <4>1. l.first # Inside
        BY <1>1, <2>2 DEF Inside
      <4> QED BY <2>2, <4>1 DEF f
    <3>2. b => t < l.start + l.config.timeout
      BY <1>1, <1>6, <2>2
    <3>3. /\ k \in LuldType /\ k.state = l.state /\ k.start = l.start /\ k.config = l.config /\ k.first = f
          /\ k.limit = b /\ k.reference = l.reference
      BY <1>1, <1>9, <1>10
    <3> QED BY <1>1, <2>2, <3>1, <3>2, <3>3 DEF LuldOK
  <2>3. CASE InBands(l, bid, ask)
    <3>1. q = Entered(l, "normal", 0)
      BY <1>5, <2>3
    <3>2. l.state = "normal"
      <4>1. Entered(l, "normal", 0).state = "normal"
        <5>1. EntersAs(l, "normal", 0, Entered(l, "normal", 0))
          BY <1>1, EnteredIs
        <5> QED BY ONLY <5>1 DEF EntersAs
      <4> QED BY ONLY <1>10, <3>1, <4>1
    <3>3. f = Inside
      BY <2>3 DEF f
    <3> QED BY <1>1, <1>9, <1>10, <3>2, <3>3 DEF LuldOK
  <2>4. CASE ~InBands(l, bid, ask) /\ ~(l.state # "normal" /\ (b => ~timed))
    <3>1. CASE l.state = "normal"
      <4>1. q = Entered(l, "limit", t) \/ q = Entered(l, "straddle", t)
        BY <1>5, <2>4, <3>1
      <4>2. Entered(l, "limit", t).state = "limit" /\ Entered(l, "straddle", t).state = "straddle"
        <5>1. EntersAs(l, "limit", t, Entered(l, "limit", t)) /\ EntersAs(l, "straddle", t, Entered(l, "straddle", t))
          BY <1>1, EnteredIs
        <5> QED BY ONLY <5>1 DEF EntersAs
      <4> QED BY ONLY <1>10, <3>1, <4>1, <4>2
    <3>2. CASE l.state # "normal" /\ b /\ timed
      <4>1. q = Paused(l)
        BY ONLY <1>5, <3>2
      <4>2. Paused(l).state = "pause"
        BY ONLY <1>1 DEF Paused, LuldType
      <4> QED BY <1>10, <4>1, <4>2
    <3> QED BY <2>4, <3>1, <3>2
  <2> QED BY <2>2, <2>3, <2>4
<1>11. CASE q # l /\ (q = Entered(l, "limit", t) \/ q = Entered(l, "straddle", t)) /\ ~InBands(l, bid, ask)
            /\ l.state = "normal"
  <2>1. EntersAs(l, "limit", t, Entered(l, "limit", t)) /\ EntersAs(l, "straddle", t, Entered(l, "straddle", t))
    BY <1>1, EnteredIs
  <2>11. /\ q \in LuldType /\ q.state \in {"limit", "straddle"} /\ q.start = t /\ q.config = l.config
         /\ q.reference = l.reference
    BY <1>11, <2>1 DEF EntersAs
  <2>2. f = t
    BY <1>1, <1>11 DEF f
  <2> QED BY <1>9, <2>11, <2>2 DEF LuldOK
<1>12. CASE InBands(l, bid, ask)
  <2>1. q = Entered(l, "normal", 0) /\ f = Inside
    BY <1>5, <1>12 DEF f
  <2>2. q \in LuldType /\ q.state = "normal"
    <3>1. EntersAs(l, "normal", 0, Entered(l, "normal", 0))
      BY <1>1, EnteredIs
    <3> QED BY <2>1, <3>1 DEF EntersAs
  <2> QED BY <1>9, <2>1, <2>2 DEF LuldOK
<1>13. CASE q = Paused(l) /\ ~InBands(l, bid, ask) /\ l.state # "normal" /\ timed
  <2>1. q \in LuldType /\ q.state = "pause" /\ q.start = l.start /\ q.config = l.config /\ q.reference = l.reference
    BY <1>1, <1>13 DEF Paused, LuldType
  <2>2. f = l.first
    <3>1. l.first # Inside
      BY <1>1, <1>13 DEF Inside
    <3> QED BY <1>13, <3>1 DEF f
  <2> QED BY <1>1, <1>6, <1>9, <1>13, <2>1, <2>2 DEF LuldOK
<1> QED BY <1>5, <1>10, <1>11, <1>12, <1>13

LEMMA LuldKeeps ==
    ASSUME now \in Nat, LuldOK(luld, now), LuldNext
    PROVE  LuldOK(luld, now)' /\ now' \in Nat
<1>0. luld \in LuldType /\ References \subseteq Nat \ {0} /\ 0 \in Nat
  BY ProtectionsAssumption DEF LuldOK
<1>1. ASSUME NEW p \in References, set_reference_price(p) PROVE LuldOK(luld, now)' /\ now' \in Nat
  <2>1. luld' = Referenced(luld, p) /\ now' = now
    BY <1>1 DEF set_reference_price
  <2>2. luld' \in LuldType /\ SameState(luld, luld') /\ luld'.reference # 0
    BY <1>0, <2>1, ReferencedIs
  <2> QED BY <2>1, <2>2 DEF LuldOK, SameState
<1>2. ASSUME NEW p \in References, resume_trading(p) PROVE LuldOK(luld, now)' /\ now' \in Nat
  <2> DEFINE a == Entered(luld, "normal", 0)
             b == Noted(a, Inside, FALSE)
  <2>1. luld' = Referenced(b, p) /\ now' = now
    <3>1. [luld EXCEPT !.state = "normal", !.start = 0, !.first = Inside, !.limit = FALSE] = b
      BY <1>0 DEF LuldType, Entered, Noted
    <3> QED BY <1>2, <3>1 DEF resume_trading
  <2>2. a \in LuldType /\ a.state = "normal"
    <3>1. EntersAs(luld, "normal", 0, a)
      BY <1>0, EnteredIs
    <3> QED BY <3>1 DEF EntersAs
  <2>3. Inside \in Int /\ FALSE \in BOOLEAN
    BY DEF Inside
  <2> HIDE DEF a
  <2>4. b \in LuldType /\ b.state = "normal" /\ b.first = Inside
    <3>1. NotedAs(a, Inside, FALSE, b)
      BY <2>2, <2>3, NotedIs
    <3> QED BY <2>2, <3>1 DEF NotedAs
  <2> HIDE DEF b
  <2>5. luld' \in LuldType /\ SameState(b, luld')
    BY <1>0, <2>1, <2>4, ReferencedIs
  <2> QED BY <2>1, <2>4, <2>5 DEF LuldOK, SameState
<1>3. ASSUME NEW q \in Nbbo, NEW t \in Later, update_nbbo(q[1], q[2], t)
      PROVE  LuldOK(luld, now)' /\ now' \in Nat
  <2>1. t \in Nat /\ now <= t /\ q[1] \in Nat /\ q[2] \in Nat /\ now' = t
    <3>1. q \in Nat \X Nat
      BY ProtectionsAssumption
    <3> QED BY <1>3, <3>1, ProtectionNumbers DEF update_nbbo, Later
  <2>2. CASE luld.reference = 0 \/ luld.state = "pause"
    <3>1. luld' = luld
      BY <1>3, <2>2 DEF update_nbbo
    <3>2. luld.start \in Nat /\ luld.config.timeout \in Nat
      <4>1. luld.start \in Nat /\ luld.config \in LuldConfigs
        BY <1>0 DEF LuldType
      <4> QED BY <4>1, ProtectionsAssumption
    <3>3. luld.state = "pause" => t >= luld.start + luld.config.timeout
      <4> DEFINE x == luld.start
                 y == luld.config.timeout
      <4>1. x \in Nat /\ y \in Nat /\ (luld.state = "pause" => now >= x + y)
        BY <3>2 DEF LuldOK
      <4> HIDE DEF x, y
      <4>2. luld.state = "pause" => t >= x + y
        BY <2>1, <4>1
      <4> QED BY <4>2 DEF x, y
    <3>4. luld.state = "pause" => luld.state \notin {"limit", "straddle", "normal"}
      OBVIOUS
    <3>5. CASE luld.state = "pause"
      BY <2>1, <3>1, <3>3, <3>5 DEF LuldOK
    <3>6. CASE luld.state = "normal"
      BY <2>1, <3>1, <3>6 DEF LuldOK
    <3>7. CASE luld.reference = 0 /\ luld.state \in {"limit", "straddle"}
      <4>1. luld.state # "normal"
        BY <3>7
      <4> QED BY <3>7, <4>1 DEF LuldOK
    <3> QED BY <1>0, <2>2, <3>5, <3>6, <3>7 DEF LuldType
  <2>3. CASE ~(luld.reference = 0 \/ luld.state = "pause")
    <3>1. LuldOK(luld', t)
      BY <1>3, <2>1, <2>3, LuldQuoted DEF update_nbbo
    <3> QED BY <2>1, <3>1
  <2> QED BY <2>2, <2>3
<1> QED BY <1>1, <1>2, <1>3 DEF LuldNext

-----------------------------------------------------------------------------
(***************************************************************************)
(* Short-sale locates.                                                     *)
(***************************************************************************)
Pool == [registered : BOOLEAN, available : Int, allocated : Nat, total : Nat, offered : Nat]
Allocation == [client : Clients, symbol : Symbols, shares : Nat, expiry : Nat]
PoolOK(p) == p.available + p.allocated = p.total /\ p.total <= p.offered /\ p.allocated <= p.offered

LocatesOK(l) ==
    /\ l \in [pools : [Symbols -> Pool], allocations : Seq(Allocation)]
    /\ \A s \in Symbols : PoolOK(l.pools[s]) /\ Lent(l.allocations, s) = l.pools[s].allocated

LEMMA LentNext ==
    ASSUME NEW a \in Seq(Allocation), NEW e \in Allocation
    PROVE  \A s : /\ Lent(a, s) \in Nat
                  /\ Lent(Append(a, e), s) = Lent(a, s) + (IF e.symbol = s THEN e.shares ELSE 0)
<1> TAKE s
<1> DEFINE n == Len(a)
           g == Append(a, e)
           u == [k \in 1 .. n |-> IF a[k].symbol = s THEN a[k].shares ELSE 0]
           v == [k \in 1 .. n + 1 |-> IF g[k].symbol = s THEN g[k].shares ELSE 0]
<1>0. n \in Nat /\ DOMAIN a = 1 .. n /\ DOMAIN g = 1 .. n + 1
  OBVIOUS
<1>1. (\A k \in 1 .. n : g[k] = a[k] /\ a[k].shares \in Nat) /\ g[n + 1] = e /\ e.shares \in Nat
  <2>1. \A k \in 1 .. n : a[k] \in Allocation /\ g[k] = a[k]
    OBVIOUS
  <2> QED BY <2>1 DEF Allocation
<1>2. Lent(a, s) = Total(u) /\ Lent(g, s) = Total(v)
  BY <1>0 DEF Lent, Total
<1> HIDE DEF n, g
<1>3. /\ u \in [1 .. n -> Nat] /\ v \in [1 .. n + 1 -> Nat] /\ (\A k \in 1 .. n : v[k] = u[k])
      /\ v[n + 1] = IF e.symbol = s THEN e.shares ELSE 0
  BY <1>0, <1>1
<1> HIDE DEF u, v
<1>4. Total(v) = Total(u) + v[n + 1]
  BY <1>0, <1>3, TotalNext
<1>5. u \in Seq(Nat)
  BY <1>0, <1>3 DEF Seq
<1>6. Total(u) \in Nat
  BY <1>5, TotalNat
<1> QED BY <1>2, <1>3, <1>4, <1>6 DEF g

LEMMA InventoriedIs ==
    ASSUME NEW p \in Pool, PoolOK(p), NEW total \in Nat
    PROVE  Inventoried(p, total) \in Pool /\ PoolOK(Inventoried(p, total)) /\ Inventoried(p, total).allocated = p.allocated
<1> DEFINE a == p.allocated
           m == Max({p.offered, total})
           d == total - a
           w == [p EXCEPT !.registered = TRUE]
           x == [w EXCEPT !.available = d]
           y == [x EXCEPT !.total = total]
           z == [y EXCEPT !.offered = m]
<1>1. p.offered \in Nat /\ a \in Nat /\ a <= p.offered
  BY DEF Pool, PoolOK
<1>2. m \in Nat /\ total <= m /\ a <= m /\ d \in Int /\ d + a = total
  <2>1. m = IF p.offered <= total THEN total ELSE p.offered
    BY <1>1, MaxOfTwo
  <2> DEFINE o == p.offered
  <2> HIDE DEF o, a
  <2>2. o \in Nat /\ a \in Nat /\ a <= o /\ m = IF o <= total THEN total ELSE o
    BY <1>1, <2>1 DEF o
  <2> HIDE DEF m
  <2> QED BY <2>2
<1>3. Inventoried(p, total) = z
  BY DEF Inventoried, Pool
<1> HIDE DEF m, d, a
<1>4. w \in Pool /\ w.allocated = p.allocated
  BY DEF Pool
<1> HIDE DEF w
<1>5. x \in Pool /\ x.allocated = w.allocated /\ x.available = d
  BY <1>2, <1>4 DEF Pool
<1> HIDE DEF x
<1>6. y \in Pool /\ y.allocated = x.allocated /\ y.available = x.available /\ y.total = total
  BY <1>2, <1>5 DEF Pool
<1> HIDE DEF y
<1>7. z \in Pool /\ z.allocated = y.allocated /\ z.available = y.available /\ z.total = y.total /\ z.offered = m
  BY <1>2, <1>6 DEF Pool
<1> HIDE DEF z
<1>8. z.allocated = a
  BY <1>4, <1>5, <1>6, <1>7 DEF a
<1> QED BY <1>2, <1>3, <1>5, <1>6, <1>7, <1>8 DEF PoolOK, a

LEMMA LocatesKeep ==
    ASSUME now \in Nat, LocatesOK(locates), LocateNext
    PROVE  LocatesOK(locates)' /\ now' \in Nat /\ now' >= now
<1> DEFINE pools == locates.pools
           a == locates.allocations
<1>0. /\ pools \in [Symbols -> Pool] /\ a \in Seq(Allocation) /\ locates = [pools |-> pools, allocations |-> a]
      /\ \A s \in Symbols : PoolOK(pools[s]) /\ Lent(a, s) = pools[s].allocated /\ pools[s] \in Pool
  BY DEF LocatesOK
<1>1. ASSUME NEW s \in Symbols, NEW total \in Inventories, set_borrow_inventory(s, total)
      PROVE  LocatesOK(locates)' /\ now' \in Nat /\ now' >= now
  <2> DEFINE new == [pools EXCEPT ![s] = Inventoried(pools[s], total)]
  <2>1. locates' = [locates EXCEPT !.pools[s] = Inventoried(locates.pools[s], total)] /\ now' = now
    BY <1>1 DEF set_borrow_inventory
  <2>2. locates' = [pools |-> new, allocations |-> a]
    BY <1>0, <2>1
  <2>3. total \in Nat
    BY ProtectionsAssumption
  <2>4. /\ Inventoried(pools[s], total) \in Pool /\ PoolOK(Inventoried(pools[s], total))
        /\ Inventoried(pools[s], total).allocated = pools[s].allocated
    BY <1>0, <2>3, InventoriedIs
  <2>5. new \in [Symbols -> Pool] /\ \A x \in Symbols : PoolOK(new[x]) /\ new[x].allocated = pools[x].allocated
    BY <1>0, <2>4
  <2> HIDE DEF new
  <2>6. locates'.pools = new /\ locates'.allocations = a
    BY <2>2
  <2> QED BY <1>0, <2>1, <2>2, <2>5, <2>6 DEF LocatesOK
<1>2. ASSUME NEW c \in Clients, NEW s \in Symbols, NEW q \in LocateQtys, NEW t \in Later, request_locate(c, s, q, t)
      PROVE  LocatesOK(locates)' /\ now' \in Nat /\ now' >= now
  <2> DEFINE p == pools[s]
             z == [[p EXCEPT !.available = @ - q] EXCEPT !.allocated = @ + q]
             new == [pools EXCEPT ![s] = z]
             e == [client |-> c, symbol |-> s, shares |-> q, expiry |-> t + LocateDuration]
             b == Append(a, e)
  <2>1. p.available >= q /\ now' = t /\ locates' = [pools |-> new, allocations |-> b]
    <3>1. [pools EXCEPT ![s].available = @ - q, ![s].allocated = @ + q] = new
      BY <1>0 DEF Pool
    <3> QED BY <1>2, <3>1 DEF request_locate
  <2>2. t \in Nat /\ t >= now /\ q \in Nat /\ e \in Allocation /\ e.symbol = s /\ e.shares = q
    <3>1. t \in Nat /\ t >= now /\ q \in Nat
      BY ProtectionNumbers, ProtectionsAssumption DEF Later
    <3>2. t + LocateDuration \in Nat
      BY <3>1, ProtectionsAssumption
    <3> QED BY <3>1, <3>2 DEF Allocation
  <2>3. p \in Pool /\ PoolOK(p)
    BY <1>0
  <2> HIDE DEF p
  <2>4. z \in Pool /\ PoolOK(z) /\ z.allocated = p.allocated + q
    <3> DEFINE v == p.available
               w == p.allocated
               y == [p EXCEPT !.available = v - q]
    <3>1. v \in Int /\ w \in Nat /\ p.total \in Nat /\ p.offered \in Nat
      BY <2>3 DEF Pool
    <3>2. v - q \in Int /\ w + q \in Nat /\ (v - q) + (w + q) = v + w
      <4> HIDE DEF v, w
      <4> QED BY <2>2, <3>1
    <3>3. y \in Pool /\ y.available = v - q /\ y.allocated = w /\ y.total = p.total /\ y.offered = p.offered
      BY <2>3, <3>2 DEF Pool
    <3>31. z = [y EXCEPT !.allocated = w + q]
      BY <2>3, <3>3 DEF Pool
    <3> HIDE DEF v, w, y, z
    <3>4. z \in Pool /\ z.available = v - q /\ z.allocated = w + q /\ z.total = p.total /\ z.offered = p.offered
      BY <3>2, <3>3, <3>31 DEF Pool
    <3>5. v + w = p.total /\ p.total <= p.offered /\ v >= q
      BY <2>1, <2>3 DEF PoolOK, v, w
    <3>6. w + q <= p.offered
      BY <2>2, <3>1, <3>5
    <3>7. PoolOK(z)
      BY <3>2, <3>4, <3>5, <3>6 DEF PoolOK
    <3> QED BY <3>4, <3>7 DEF w
  <2> HIDE DEF z
  <2>5. new \in [Symbols -> Pool] /\ new[s] = z /\ \A x \in Symbols : x # s => new[x] = pools[x]
    BY <1>0, <2>4
  <2> HIDE DEF new
  <2>6. locates'.pools = new /\ locates'.allocations = b /\ b \in Seq(Allocation)
    BY <1>0, <2>1, <2>2
  <2>7. \A x : Lent(a, x) \in Nat /\ Lent(b, x) = Lent(a, x) + (IF e.symbol = x THEN e.shares ELSE 0)
    BY <1>0, <2>2, LentNext
  <2> HIDE DEF b, e
  <2>8. ASSUME NEW x \in Symbols PROVE PoolOK(new[x]) /\ Lent(b, x) = new[x].allocated
    <3>1. CASE x = s
      <4>1. Lent(b, x) = Lent(a, x) + q
        BY <2>2, <2>7, <3>1
      <4> QED BY <1>0, <2>4, <2>5, <3>1, <4>1 DEF p
    <3>2. CASE x # s
      <4>1. Lent(b, x) = Lent(a, x) + 0 /\ Lent(a, x) \in Nat
        BY <2>2, <2>7, <3>2
      <4> QED BY <1>0, <2>5, <3>2, <4>1
    <3> QED BY <3>1, <3>2
  <2> QED BY <2>1, <2>2, <2>5, <2>6, <2>8 DEF LocatesOK
<1> QED BY <1>1, <1>2 DEF LocateNext

LEMMA LocatesSuffice ==
    ASSUME LocatesOK(locates)
    PROVE  LocatesBacked
<1> DEFINE a == locates.allocations
           n == Len(a)
<1>0. a \in Seq(Allocation) /\ \A s \in Symbols : /\ PoolOK(locates.pools[s]) /\ locates.pools[s] \in Pool
                                                  /\ Lent(a, s) = locates.pools[s].allocated
  BY DEF LocatesOK
<1>1. n \in Nat /\ DOMAIN a = 1 .. n /\ \A k \in 1 .. n : a[k].shares \in Nat
  <2>1. \A k \in 1 .. n : a[k] \in Allocation
    BY <1>0
  <2> QED BY <1>0, <2>1 DEF Allocation
<1>2. ASSUME NEW c, NEW s, NEW t PROVE Located(c, s, t) \in Nat /\ Lent(a, s) \in Nat /\ Located(c, s, t) <= Lent(a, s)
  <2> DEFINE u == [k \in 1 .. n |-> IF a[k].client = c /\ a[k].symbol = s /\ a[k].expiry > t THEN a[k].shares ELSE 0]
             v == [k \in 1 .. n |-> IF a[k].symbol = s THEN a[k].shares ELSE 0]
  <2>1. Located(c, s, t) = Total(u) /\ Lent(a, s) = Total(v)
    BY <1>1 DEF Located, Lent, Total
  <2> HIDE DEF a, n
  <2>2. u \in [1 .. n -> Nat] /\ v \in [1 .. n -> Nat] /\ \A k \in 1 .. n : u[k] <= v[k]
    BY <1>1
  <2> HIDE DEF u, v
  <2>3. u \in Seq(Nat) /\ v \in Seq(Nat) /\ Len(u) = n /\ Len(v) = n
    BY <1>1, <2>2 DEF Seq
  <2>4. Len(u) <= Len(v)
    BY <1>1, <2>3
  <2>5. Total(u) <= Total(v)
    BY <2>2, <2>3, <2>4, TotalCompares
  <2> QED BY <2>1, <2>3, <2>5, TotalNat
<1> HIDE DEF a, n
<1>3. ASSUME NEW s \in Symbols, NEW q \in LocateQtys, NEW c \in Clients, validate_short_order(c, s, q, now)
      PROVE  q <= locates.pools[s].offered
  <2> DEFINE p == locates.pools[s]
  <2>1. q \in Nat /\ p.allocated \in Nat /\ p.offered \in Nat /\ p.allocated <= p.offered
    <3>1. q \in Nat
      BY ProtectionsAssumption
    <3> QED BY <1>0, <3>1 DEF PoolOK, Pool
  <2>2. Located(c, s, now) >= q
    BY <1>3 DEF validate_short_order
  <2>3. Located(c, s, now) \in Nat /\ Located(c, s, now) <= p.allocated
    BY <1>0, <1>2
  <2> QED BY <2>1, <2>2, <2>3
<1> QED BY <1>0, <1>3 DEF LocatesBacked, PoolOK, a

-----------------------------------------------------------------------------
(***************************************************************************)
(* Rule 201.                                                               *)
(***************************************************************************)
Tested == [registered : BOOLEAN, trigger : Nat, active : BOOLEAN, until : Nat, fell : Int]

\* A restriction is on from the day of the fall to the next.
TestedOK(r, d) ==
    /\ r.active => r.registered /\ r.fell \in Nat /\ r.until = r.fell + 1 /\ d <= r.until
    /\ ~r.active => r.fell = Inside \/ d > r.fell + 1

Rule201OK(u, d) == u \in [Symbols -> Tested] /\ \A s \in Symbols : TestedOK(u[s], d)

LEMMA Rule201Keeps ==
    ASSUME now \in Nat, Rule201OK(rule201, now), Rule201Next
    PROVE  Rule201OK(rule201, now)' /\ now' \in Nat /\ now' >= now
<1>0. rule201 \in [Symbols -> Tested] /\ \A s \in Symbols : TestedOK(rule201[s], now) /\ rule201[s] \in Tested
  BY DEF Rule201OK
<1>1. ASSUME NEW s \in Symbols, NEW z \in Tested, TestedOK(z, now), rule201' = [rule201 EXCEPT ![s] = z], now' = now
      PROVE  Rule201OK(rule201, now)' /\ now' \in Nat /\ now' >= now
  BY <1>0, <1>1 DEF Rule201OK
<1>2. ASSUME NEW s \in Symbols, NEW c \in Closes, register_symbol(s, c)
      PROVE  Rule201OK(rule201, now)' /\ now' \in Nat /\ now' >= now
  <2> DEFINE r == rule201[s]
             z == [r EXCEPT !.registered = TRUE, !.trigger = 9 * c, !.active = FALSE, !.fell = Inside]
  <2>1. rule201' = [rule201 EXCEPT ![s] = z] /\ now' = now
    BY <1>2 DEF register_symbol
  <2>2. 9 * c \in Nat /\ Inside \in Int
    BY ProtectionsAssumption DEF Inside
  <2>3. r \in Tested
    BY <1>0
  <2> HIDE DEF r
  <2>4. z \in Tested /\ ~z.active /\ z.fell = Inside
    <3> DEFINE k == 9 * c
               a == [r EXCEPT !.registered = TRUE]
               b == [a EXCEPT !.trigger = k]
               d == [b EXCEPT !.active = FALSE]
    <3>0. z = [d EXCEPT !.fell = Inside]
      BY <2>3 DEF Tested
    <3>1. k \in Nat
      BY <2>2
    <3> HIDE DEF k
    <3>2. a \in Tested
      BY <2>3 DEF Tested
    <3> HIDE DEF a
    <3>3. b \in Tested
      BY <3>1, <3>2 DEF Tested
    <3> HIDE DEF b
    <3>4. d \in Tested /\ ~d.active
      BY <3>3 DEF Tested
    <3> HIDE DEF d, z
    <3> QED BY <2>2, <3>0, <3>4 DEF Tested
  <2> HIDE DEF z
  <2>5. TestedOK(z, now)
    BY <2>4 DEF TestedOK
  <2> QED BY <1>1, <2>1, <2>4, <2>5
<1>3. ASSUME NEW s \in Symbols, NEW p \in Trades201, on_price_update(s, p)
      PROVE  Rule201OK(rule201, now)' /\ now' \in Nat /\ now' >= now
  <2> DEFINE r == rule201[s]
             z == [r EXCEPT !.active = TRUE, !.until = now + 1, !.fell = now]
  <2>1. r.registered /\ rule201' = [rule201 EXCEPT ![s] = z] /\ now' = now
    <3>1. [rule201 EXCEPT ![s].active = TRUE, ![s].until = now + 1, ![s].fell = now] = [rule201 EXCEPT ![s] = z]
      BY <1>0 DEF Tested
    <3> QED BY <1>3, <3>1 DEF on_price_update
  <2>3. r \in Tested
    BY <1>0
  <2> HIDE DEF r
  <2>4. z \in Tested /\ z.active /\ z.registered /\ z.fell = now /\ z.until = now + 1
    <3> DEFINE k == now + 1
               a == [r EXCEPT !.active = TRUE]
               b == [a EXCEPT !.until = k]
    <3>0. z = [b EXCEPT !.fell = now]
      BY <2>3 DEF Tested
    <3>1. k \in Nat /\ now \in Int
      OBVIOUS
    <3> HIDE DEF k
    <3>2. a \in Tested /\ a.active /\ a.registered
      BY <2>1, <2>3 DEF Tested
    <3> HIDE DEF a
    <3>3. b \in Tested /\ b.active /\ b.registered /\ b.until = k
      BY <3>1, <3>2 DEF Tested
    <3> HIDE DEF b, z
    <3>4. z \in Tested /\ z.active /\ z.registered /\ z.until = k /\ z.fell = now
      BY <3>0, <3>1, <3>3 DEF Tested
    <3> QED BY <3>4 DEF k
  <2> HIDE DEF z
  <2>5. TestedOK(z, now)
    BY <2>4 DEF TestedOK
  <2> QED BY <1>1, <2>1, <2>4, <2>5
<1>4. ASSUME on_day_rollover PROVE Rule201OK(rule201, now)' /\ now' \in Nat /\ now' >= now
  <2> DEFINE new(s) == IF Expired201(rule201[s], now + 1) THEN [rule201[s] EXCEPT !.active = FALSE] ELSE rule201[s]
  <2>1. now' = now + 1 /\ rule201' = [s \in Symbols |-> new(s)]
    BY <1>4 DEF on_day_rollover
  <2>2. ASSUME NEW s \in Symbols PROVE new(s) \in Tested /\ TestedOK(new(s), now + 1)
    <3> DEFINE r == rule201[s]
               z == [r EXCEPT !.active = FALSE]
    <3>1. r \in Tested /\ TestedOK(r, now)
      BY <1>0
    <3>2. r.until \in Nat /\ r.fell \in Int /\ r.active \in BOOLEAN
      BY <3>1 DEF Tested
    <3> HIDE DEF r
    <3>3. CASE Expired201(r, now + 1)
      <4>1. z \in Tested /\ ~z.active /\ z.fell = r.fell
        BY <3>1 DEF Tested
      <4>2. now + 1 > r.fell + 1
        BY <3>1, <3>2, <3>3 DEF Expired201, TestedOK
      <4> HIDE DEF z
      <4>3. TestedOK(z, now + 1)
        BY <4>1, <4>2 DEF TestedOK
      <4> QED BY <3>3, <4>1, <4>3 DEF r, z
    <3>4. CASE ~Expired201(r, now + 1)
      <4>1. TestedOK(r, now + 1)
        BY <3>1, <3>2, <3>4 DEF Expired201, TestedOK, Inside
      <4> QED BY <3>1, <3>4, <4>1 DEF r
    <3> QED BY <3>3, <3>4
  <2> HIDE DEF new
  <2> QED BY <2>1, <2>2 DEF Rule201OK
<1> QED BY <1>2, <1>3, <1>4 DEF Rule201Next

LEMMA Rule201Suffices ==
    ASSUME now \in Nat, Rule201OK(rule201, now)
    PROVE  RestrictionLasts
<1> SUFFICES ASSUME NEW s \in Symbols, NEW p \in Trades201, NEW bid \in Trades201
             PROVE  /\ validate_201(s, "short", p, bid) <=>
                          (~(rule201[s].fell # Inside /\ now <= rule201[s].fell + 1) \/ p > bid)
                    /\ validate_201(s, "long", p, bid) /\ validate_201(s, "exempt", p, bid)
  BY DEF RestrictionLasts
<1> DEFINE r == rule201[s]
<1>1. r \in Tested /\ TestedOK(r, now)
  BY DEF Rule201OK
<1>2. r.fell \in Int /\ r.active \in BOOLEAN
  BY <1>1 DEF Tested
<1>3. r.active <=> r.fell # Inside /\ now <= r.fell + 1
  BY <1>1, <1>2 DEF TestedOK, Inside
<1>4. r.active => r.registered
  BY <1>1 DEF TestedOK
<1>5. validate_201(s, "long", p, bid) /\ validate_201(s, "exempt", p, bid)
  BY DEF validate_201
<1>6. validate_201(s, "short", p, bid) <=> (~r.registered \/ ~r.active \/ p > bid)
  BY DEF validate_201
<1> QED BY <1>3, <1>4, <1>5, <1>6

\* Whatever the modes and the quantities are.
LEMMA StpPrevents == SelfTradesPrevented
<1> SUFFICES ASSUME NEW firm \in {0, 1, 2}, NEW other \in {0, 1, 2}, NEW mode \in StpModes,
                    NEW mine \in 1 .. 3, NEW rest \in 1 .. 3
             PROVE  LET r == stp_evaluate(firm, other, mode, mine, rest)
                    IN  /\ r.detected => r.left[1] = 0 \/ r.left[2] = 0
                        /\ ~r.detected => r.left = <<mine, rest>>
                        /\ r.left[1] <= mine /\ r.left[2] <= rest
  BY DEF SelfTradesPrevented
<1> DEFINE r == stp_evaluate(firm, other, mode, mine, rest)
           a == Adjusted(mode, mine, rest)
<1>1. CASE ~SelfTrade(firm, other, mode)
  <2>1. ~r.detected /\ r.left = <<mine, rest>>
    BY <1>1 DEF stp_evaluate
  <2> QED BY <2>1
<1>2. CASE SelfTrade(firm, other, mode)
  <2>1. r.detected /\ r.left = a
    BY <1>2 DEF stp_evaluate
  <2>2. mode \in {"newest", "oldest", "both", "decrement"}
    BY <1>2 DEF StpModes, SelfTrade
  <2>3. (a[1] = 0 \/ a[2] = 0) /\ a[1] <= mine /\ a[2] <= rest
    <3>1. CASE mode # "decrement"
      <4>1. a = <<0, rest>> \/ a = <<mine, 0>> \/ a = <<0, 0>>
        BY <2>2, <3>1 DEF Adjusted
      <4> HIDE DEF a
      <4> QED BY <4>1
    <3>2. CASE mode = "decrement"
      <4> DEFINE x == mine - rest
                 y == rest - mine
      <4>1. a = <<Max({x, 0}), Max({y, 0})>>
        BY <3>2 DEF Adjusted
      <4>2. x \in Int /\ y \in Int
        OBVIOUS
      <4> HIDE DEF a, x, y
      <4>3. Max({x, 0}) = (IF x <= 0 THEN 0 ELSE x) /\ Max({y, 0}) = (IF y <= 0 THEN 0 ELSE y)
        BY <4>2, MaxOfTwo
      <4> QED BY <4>1, <4>3 DEF x, y
    <3> QED BY <3>1, <3>2
  <2> HIDE DEF a
  <2> QED BY <2>1, <2>3
<1> QED BY <1>1, <1>2

-----------------------------------------------------------------------------
(***************************************************************************)
(* The protections together; they share the clock.                         *)
(***************************************************************************)
ProtectionStep ==
    /\ part' = part
    /\ \/ part = "mmp" /\ MmpNext
       \/ part = "luld" /\ LuldNext
       \/ part = "locates" /\ LocateNext
       \/ part = "rule201" /\ Rule201Next
       \/ UNCHANGED protectionVars

LEMMA ProtectionSteps == [Next]_vars => ProtectionStep
BY DEF vars, allVars, Next, Alone, Encodings, Tables, Limits, Trails_, Metrics, Conditional,
       Venues, Sessions, ProtectionStep

ProtectionsInv ==
    /\ now \in Nat /\ MmpOK(mmp, now) /\ LuldOK(luld, now) /\ LocatesOK(locates) /\ Rule201OK(rule201, now)
    /\ part # "luld" => luld.state = "normal"
    /\ part # "rule201" => \A s \in Symbols : ~rule201[s].active /\ rule201[s].fell = Inside

LEMMA ProtectionsStart == ProtectionsInit => ProtectionsInv
<1> SUFFICES ASSUME ProtectionsInit PROVE ProtectionsInv
  OBVIOUS
<1>1. now = 0 /\ MmpOK(mmp, 0)
  <2>1. now = 0 /\ mmp = MmpFresh
    BY DEF ProtectionsInit
  <2>2. MmpOK(MmpFresh, 0)
    BY ProtectionNumbers DEF MmpOK, MmpFresh, MmpType, Doubled
  <2> QED BY <2>1, <2>2
<1>2. LuldOK(luld, 0) /\ luld.state = "normal"
  <2>1. luld \in [config : LuldConfigs, reference : {0}, lower : {0}, upper : {0},
                  state : {"normal"}, start : {0}, first : {Inside}, limit : {FALSE}]
    BY DEF ProtectionsInit
  <2>2. luld \in LuldType /\ luld.state = "normal" /\ luld.first = Inside
    <3>1. Inside \in Int
      BY DEF Inside
    <3>2. /\ luld.config \in LuldConfigs /\ luld.reference = 0 /\ luld.lower = 0 /\ luld.upper = 0
          /\ luld.state = "normal" /\ luld.start = 0 /\ luld.first = Inside /\ luld.limit = FALSE
          /\ luld = [config |-> luld.config, reference |-> luld.reference, lower |-> luld.lower,
                     upper |-> luld.upper, state |-> luld.state, start |-> luld.start,
                     first |-> luld.first, limit |-> luld.limit]
      BY ONLY <2>1
    <3>4. luld.limit \in BOOLEAN
      BY ONLY <2>1, Zenon
    <3>5. /\ luld.config \in LuldConfigs /\ luld.reference \in Nat /\ luld.lower \in Int /\ luld.upper \in Int
          /\ luld.state \in {"normal", "limit", "straddle", "pause"} /\ luld.start \in Nat /\ luld.first \in Int
      BY ONLY <3>1, <3>2
    <3>6. luld = [config |-> luld.config, reference |-> luld.reference, lower |-> luld.lower,
                  upper |-> luld.upper, state |-> luld.state, start |-> luld.start,
                  first |-> luld.first, limit |-> luld.limit]
      BY ONLY <3>2
    <3>3. luld \in LuldType
      BY ONLY <3>4, <3>5, <3>6 DEF LuldType
    <3> QED BY <3>2, <3>3
  <2> QED BY <2>2 DEF LuldOK
<1>3. LocatesOK(locates)
  <2>1. locates = [pools |-> [s \in Symbols |-> NoPool], allocations |-> << >>]
    BY DEF ProtectionsInit
  <2>2. NoPool \in Pool /\ PoolOK(NoPool) /\ NoPool.allocated = 0
    BY DEF NoPool, Pool, PoolOK
  <2>3. \A s : Lent(<< >>, s) = 0
    <3> TAKE s
    <3>1. [k \in DOMAIN << >> |-> IF << >>[k].symbol = s THEN << >>[k].shares ELSE 0] = << >>
      OBVIOUS
    <3> QED BY <3>1, TotalNone DEF Lent, Total
  <2> HIDE DEF ProtectionsInit
  <2>4. locates.pools = [s \in Symbols |-> NoPool] /\ locates.allocations = << >> /\ << >> \in Seq(Allocation)
    BY <2>1
  <2> QED BY <2>1, <2>2, <2>3, <2>4 DEF LocatesOK
<1>4. Rule201OK(rule201, 0) /\ \A s \in Symbols : ~rule201[s].active /\ rule201[s].fell = Inside
  <2>1. rule201 = [s \in Symbols |-> Unknown201]
    BY DEF ProtectionsInit
  <2>2. Unknown201 \in Tested /\ ~Unknown201.active /\ Unknown201.fell = Inside
    BY DEF Unknown201, Tested, Inside
  <2> QED BY <2>1, <2>2 DEF Rule201OK, TestedOK
<1> QED BY <1>1, <1>2, <1>3, <1>4 DEF ProtectionsInv

LEMMA ProtectionsKeep ==
    ASSUME ProtectionsInv, ProtectionStep
    PROVE  ProtectionsInv'
<1>0. /\ now \in Nat /\ MmpOK(mmp, now) /\ LuldOK(luld, now) /\ LocatesOK(locates) /\ Rule201OK(rule201, now)
      /\ (part # "luld" => luld.state = "normal") /\ part' = part
      /\ (part # "rule201" => \A s \in Symbols : ~rule201[s].active /\ rule201[s].fell = Inside)
  BY DEF ProtectionsInv, ProtectionStep
<1>1. ASSUME NEW t \in Nat, t >= now PROVE MmpOK(mmp, t)
  <2>1. mmp.start \in Nat /\ mmp.start <= now
    BY <1>0 DEF MmpOK, MmpType
  <2>2. mmp.start <= t
    BY <1>0, <1>1, <2>1
  <2> QED BY <1>0, <2>2 DEF MmpOK
<1>2. ASSUME NEW t \in Nat, part # "luld" PROVE LuldOK(luld, t)
  <2>1. luld.state = "normal"
    BY <1>0, <1>2
  <2> QED BY <1>0, <2>1 DEF LuldOK
<1>3. ASSUME NEW t \in Nat, part # "rule201" PROVE Rule201OK(rule201, t)
  BY <1>0, <1>3 DEF Rule201OK, TestedOK
<1>4. CASE part = "mmp" /\ MmpNext
  <2>1. luld' = luld /\ locates' = locates /\ rule201' = rule201
    BY <1>4 DEF MmpNext, on_trade, mmp_reset
  <2>2. MmpOK(mmp, now)' /\ now' \in Nat
    BY <1>0, <1>4, MmpKeeps
  <2> QED BY <1>0, <1>2, <1>3, <1>4, <2>1, <2>2 DEF ProtectionsInv
<1>5. CASE part = "luld" /\ LuldNext
  <2>1. mmp' = mmp /\ locates' = locates /\ rule201' = rule201
    BY <1>5 DEF LuldNext, set_reference_price, resume_trading, update_nbbo
  <2>2. LuldOK(luld, now)' /\ now' \in Nat
    BY <1>0, <1>5, LuldKeeps
  <2>3. now' >= now
    <3>1. now' = now \/ now' \in Later
      BY <1>5 DEF LuldNext, set_reference_price, resume_trading, update_nbbo
    <3> QED BY <1>0, <2>2, <3>1, ProtectionNumbers DEF Later
  <2> QED BY <1>0, <1>1, <1>3, <1>5, <2>1, <2>2, <2>3 DEF ProtectionsInv
<1>6. CASE part = "locates" /\ LocateNext
  <2>1. mmp' = mmp /\ luld' = luld /\ rule201' = rule201
    BY <1>6 DEF LocateNext, set_borrow_inventory, request_locate
  <2>2. LocatesOK(locates)' /\ now' \in Nat /\ now' >= now
    BY <1>0, <1>6, LocatesKeep
  <2> QED BY <1>0, <1>1, <1>2, <1>3, <1>6, <2>1, <2>2 DEF ProtectionsInv
<1>7. CASE part = "rule201" /\ Rule201Next
  <2>1. mmp' = mmp /\ luld' = luld /\ locates' = locates
    BY <1>7 DEF Rule201Next, register_symbol, on_price_update, on_day_rollover
  <2>2. Rule201OK(rule201, now)' /\ now' \in Nat /\ now' >= now
    BY <1>0, <1>7, Rule201Keeps
  <2> QED BY <1>0, <1>1, <1>2, <1>7, <2>1, <2>2 DEF ProtectionsInv
<1>8. CASE UNCHANGED protectionVars
  BY <1>0, <1>8 DEF protectionVars, ProtectionsInv
<1> QED BY <1>4, <1>5, <1>6, <1>7, <1>8 DEF ProtectionStep

LEMMA ProtectionsSuffice == ProtectionsInv => ProtectionsSound
<1> SUFFICES ASSUME ProtectionsInv PROVE ProtectionsSound
  OBVIOUS
<1>1. MmpBound
  <2>1. mmp.history \in Seq(Allowed) /\ Doubled(mmp.history)
    BY DEF ProtectionsInv, MmpOK, MmpType
  <2>2. DOMAIN mmp.history = 1 .. Len(mmp.history)
    BY <2>1
  <2> QED BY <2>1, <2>2 DEF MmpBound, Doubled
<1>2. PausesInTime
  <2>1. LuldOK(luld, now) /\ luld.start \in Nat
    BY DEF ProtectionsInv, LuldOK, LuldType
  <2>2. luld.start # Inside
    BY <2>1 DEF Inside
  <2> QED BY <2>1, <2>2 DEF PausesInTime, LuldOK
<1>3. LocatesBacked
  BY LocatesSuffice DEF ProtectionsInv
<1>4. RestrictionLasts
  BY Rule201Suffices DEF ProtectionsInv
<1> QED BY <1>1, <1>2, <1>3, <1>4 DEF ProtectionsSound

-----------------------------------------------------------------------------
(***************************************************************************)
(* The guard of an inbound session.                                        *)
(***************************************************************************)
GuardAnswers == {"none", "terminated", "ip", "rate", "replay", "success", "signature"}
GuardType ==
    [active : BOOLEAN, max : Nat, window : SUBSET Nat, tokens : Nat, updated : Nat, at : Nat,
     first : Nat, spent : Nat, seen : SUBSET Nat, accepted : [Numbers -> Nat], sent : Nat,
     last : [number : Nat, answer : GuardAnswers, known : BOOLEAN, behind : Nat]]

\* What was taken and what is left came from the burst and the rate.
BucketOK(g) ==
    /\ g.at = g.updated /\ g.first <= g.at /\ (g.updated = 0 => g.first = 0)
    /\ g.spent + g.tokens <= Burst + Rate * (g.at - g.first)

\* The bits of the window are the numbers that reached it and that it still covers.
WindowOK(g) ==
    /\ \A n \in g.seen : 1 <= n /\ n <= g.max /\ (g.max - n < ReplayWindow => g.max - n \in g.window)
    /\ \A d \in g.window : d < ReplayWindow /\ g.max - d \in g.seen
AcceptedOK(g) == \A n \in Numbers : g.accepted[n] <= 1 /\ (g.accepted[n] >= 1 => n \in g.seen)
AnswerOK(g) ==
    g.last.answer = "replay" => g.last.number = 0 \/ g.last.known \/ g.last.behind >= ReplayWindow

GuardOK(g) == g \in GuardType /\ BucketOK(g) /\ WindowOK(g) /\ AcceptedOK(g) /\ AnswerOK(g)

SameBucket(g, h) ==
    h.tokens = g.tokens /\ h.updated = g.updated /\ h.at = g.at /\ h.first = g.first /\ h.spent = g.spent
SameWindow(g, h) == h.max = g.max /\ h.window = g.window /\ h.seen = g.seen
SameAccepted(g, h) == h.accepted = g.accepted

LEMMA SessionNumbers ==
    /\ ReplayWindow \in Nat \ {0} /\ ReplayBufferSize \in Nat \ {0} /\ Burst \in Nat /\ Rate \in Nat
    /\ LastSecond \in Nat /\ Numbers \subseteq Nat
BY SessionAssumption

LEMMA RateSums ==
    ASSUME NEW a \in Nat, NEW b \in Nat, NEW c \in Nat, NEW r \in Nat, a <= b, b <= c
    PROVE  r * (c - b) + r * (b - a) = r * (c - a) /\ r * (c - b) \in Nat /\ r * (b - a) \in Nat
<1>1. PICK x \in Nat : b = a + x
  BY b - a \in Nat
<1>2. PICK y \in Nat : c = b + y
  BY c - b \in Nat
<1>3. c - b = y /\ b - a = x /\ c - a = x + y
  BY <1>1, <1>2
<1>4. r * y \in Nat /\ r * x \in Nat /\ r * y + r * x = r * (x + y)
  BY <1>1, <1>2
<1> QED BY <1>3, <1>4

LEMMA RefilledOK ==
    ASSUME NEW g, GuardOK(g), NEW t \in Nat, g.at <= t
    PROVE  GuardOK(Refilled(g, t))
<1> DEFINE h == Refilled(g, t)
<1>1. g \in GuardType /\ BucketOK(g)
  BY DEF GuardOK
<1>2. /\ g.tokens \in Nat /\ g.updated \in Nat /\ g.at \in Nat /\ g.first \in Nat /\ g.spent \in Nat
  BY <1>1 DEF GuardType
<1> DEFINE Kept == h \in GuardType /\ BucketOK(h) /\ SameWindow(g, h) /\ SameAccepted(g, h) /\ h.last = g.last
<1>4. ASSUME g.updated = 0 PROVE Kept
  <2>1. h = [g EXCEPT !.updated = t, !.first = t, !.at = t]
    BY <1>4 DEF Refilled
  <2> HIDE DEF h
  <2>2. /\ h \in GuardType /\ SameWindow(g, h) /\ SameAccepted(g, h) /\ h.last = g.last
        /\ h.updated = t /\ h.first = t /\ h.at = t /\ h.tokens = g.tokens /\ h.spent = g.spent
    <3> DEFINE a == [g EXCEPT !.updated = t]
               b == [a EXCEPT !.first = t]
    <3>0. h = [b EXCEPT !.at = t]
      BY <1>1, <2>1 DEF GuardType
    <3>1. a \in GuardType /\ SameWindow(g, a) /\ SameAccepted(g, a) /\ a.last = g.last /\ a.updated = t
          /\ a.tokens = g.tokens /\ a.spent = g.spent
      BY ONLY <1>1, t \in Nat DEF GuardType, SameWindow, SameAccepted
    <3> HIDE DEF a
    <3>2. b \in GuardType /\ SameWindow(a, b) /\ SameAccepted(a, b) /\ b.last = a.last /\ b.updated = a.updated
          /\ b.tokens = a.tokens /\ b.spent = a.spent /\ b.first = t
      BY ONLY <3>1, t \in Nat DEF GuardType, SameWindow, SameAccepted
    <3> HIDE DEF b
    <3>3. h \in GuardType /\ SameWindow(b, h) /\ SameAccepted(b, h) /\ h.last = b.last /\ h.updated = b.updated
          /\ h.tokens = b.tokens /\ h.spent = b.spent /\ h.first = b.first /\ h.at = t
      BY ONLY <3>0, <3>2, t \in Nat DEF GuardType, SameWindow, SameAccepted
    <3> QED BY <3>1, <3>2, <3>3 DEF SameWindow, SameAccepted
  <2>3. g.first = g.at
    BY <1>1, <1>2, <1>4 DEF BucketOK
  <2>4. g.at - g.first = t - t /\ t - t = 0
    BY <1>2, <2>3
  <2>5. BucketOK(h)
    BY <1>1, <2>2, <2>4 DEF BucketOK
  <2> QED BY <2>2, <2>5
<1>5. ASSUME g.updated # 0, t > g.updated PROVE Kept
  <2> DEFINE w == Rate * (t - g.updated)
             k == Min({Burst, g.tokens + w})
  <2>0. h = [g EXCEPT !.tokens = k, !.updated = t, !.at = t]
    BY <1>5 DEF Refilled
  <2> HIDE DEF h
  <2>1. g.first <= g.updated /\ g.at = g.updated
    BY <1>1 DEF BucketOK
  <2>2. w + Rate * (g.updated - g.first) = Rate * (t - g.first) /\ w \in Nat
    BY <1>2, <1>5, <2>1, SessionNumbers, RateSums
  <2> HIDE DEF w
  <2>3. k \in Nat /\ k <= g.tokens + w
    <3>1. g.tokens + w \in Int /\ Burst \in Int /\ g.tokens + w >= 0 /\ Burst >= 0
      BY <1>2, <2>2, SessionNumbers
    <3>2. Min({Burst, g.tokens + w}) = IF Burst <= g.tokens + w THEN Burst ELSE g.tokens + w
      BY <3>1, MinOfTwo
    <3> QED BY <3>1, <3>2
  <2> HIDE DEF k
  <2>4. /\ h \in GuardType /\ SameWindow(g, h) /\ SameAccepted(g, h) /\ h.last = g.last
        /\ h.updated = t /\ h.first = g.first /\ h.at = t /\ h.tokens = k /\ h.spent = g.spent
    <3> DEFINE a == [g EXCEPT !.tokens = k]
               b == [a EXCEPT !.updated = t]
    <3>0. h = [b EXCEPT !.at = t]
      BY <1>1, <2>0 DEF GuardType
    <3>1. a \in GuardType /\ SameWindow(g, a) /\ SameAccepted(g, a) /\ a.last = g.last
          /\ a.tokens = k /\ a.spent = g.spent /\ a.first = g.first
      BY ONLY <1>1, <2>3 DEF GuardType, SameWindow, SameAccepted
    <3> HIDE DEF a
    <3>2. b \in GuardType /\ SameWindow(a, b) /\ SameAccepted(a, b) /\ b.last = a.last /\ b.updated = t
          /\ b.tokens = a.tokens /\ b.spent = a.spent /\ b.first = a.first
      BY ONLY <3>1, t \in Nat DEF GuardType, SameWindow, SameAccepted
    <3> HIDE DEF b
    <3>3. h \in GuardType /\ SameWindow(b, h) /\ SameAccepted(b, h) /\ h.last = b.last /\ h.updated = b.updated
          /\ h.tokens = b.tokens /\ h.spent = b.spent /\ h.first = b.first /\ h.at = t
      BY ONLY <3>0, <3>2, t \in Nat DEF GuardType, SameWindow, SameAccepted
    <3> QED BY <3>1, <3>2, <3>3 DEF SameWindow, SameAccepted
  <2> DEFINE q == Rate * (g.updated - g.first)
             p == Rate * (t - g.first)
  <2>5. q \in Nat /\ w + q = p /\ g.spent + g.tokens <= Burst + q
    <3>1. q \in Nat
      BY <1>2, <2>1, SessionNumbers, RateSums
    <3> QED BY <1>1, <2>1, <2>2, <3>1 DEF BucketOK
  <2> HIDE DEF q
  <2>6. g.spent + k <= Burst + (w + q)
    BY <1>2, <2>2, <2>3, <2>5, SessionNumbers
  <2>7. g.first <= t
    BY <1>2, <1>5, <2>1
  <2> QED BY <1>2, <1>5, <2>4, <2>5, <2>6, <2>7 DEF BucketOK
<1>6. ASSUME g.updated # 0, ~(t > g.updated) PROVE Kept
  <2>1. h = g
    BY <1>6 DEF Refilled
  <2> QED BY <1>1, <2>1 DEF SameWindow, SameAccepted
<1>7. Kept
  BY <1>4, <1>5, <1>6
<1> HIDE DEF h
<1>8. WindowOK(h)
  BY <1>7 DEF GuardOK, WindowOK, SameWindow
<1>9. AcceptedOK(h) /\ AnswerOK(h)
  BY <1>7 DEF GuardOK, AcceptedOK, AnswerOK, SameWindow, SameAccepted
<1> QED BY <1>7, <1>8, <1>9 DEF GuardOK, h

LEMMA SpentOK ==
    ASSUME NEW g, GuardOK(g), ~(g.tokens < 1)
    PROVE  GuardOK([g EXCEPT !.tokens = @ - 1, !.spent = @ + 1])
<1>1. g \in GuardType /\ BucketOK(g) /\ g.tokens \in Nat /\ g.spent \in Nat
  BY DEF GuardOK, GuardType
<1> DEFINE k == g.tokens - 1
           l == g.spent + 1
           a == [g EXCEPT !.tokens = k]
           h == [a EXCEPT !.spent = l]
<1>2. k \in Nat /\ l \in Nat /\ l + k = g.spent + g.tokens
  BY <1>1
<1>3. h = [g EXCEPT !.tokens = @ - 1, !.spent = @ + 1]
  BY <1>1 DEF GuardType
<1> HIDE DEF k, l
<1>4. /\ a \in GuardType /\ a.tokens = k /\ a.updated = g.updated /\ a.at = g.at /\ a.first = g.first
      /\ SameWindow(g, a) /\ SameAccepted(g, a) /\ a.last = g.last
  BY ONLY <1>1, <1>2 DEF GuardType, SameWindow, SameAccepted
<1> HIDE DEF a
<1>5. /\ h \in GuardType /\ h.tokens = a.tokens /\ h.updated = a.updated /\ h.at = a.at /\ h.first = a.first
      /\ SameWindow(a, h) /\ SameAccepted(a, h) /\ h.last = a.last /\ h.spent = l
  BY ONLY <1>2, <1>4 DEF GuardType, SameWindow, SameAccepted
<1> HIDE DEF h
<1>6. BucketOK(h)
  BY <1>1, <1>2, <1>4, <1>5 DEF BucketOK
<1>7. SameWindow(g, h) /\ SameAccepted(g, h) /\ h.last = g.last
  BY <1>4, <1>5 DEF SameWindow, SameAccepted
<1>8. WindowOK(h)
  BY <1>7 DEF GuardOK, WindowOK, SameWindow
<1>9. AcceptedOK(h) /\ AnswerOK(h)
  BY <1>7 DEF GuardOK, AcceptedOK, AnswerOK, SameWindow, SameAccepted
<1> QED BY <1>3, <1>5, <1>6, <1>8, <1>9 DEF GuardOK

\* An answer changes nothing else.
AnsweredAs(g, h) ==
    GuardOK(h) /\ SameBucket(g, h) /\ SameWindow(g, h) /\ SameAccepted(g, h)

LEMMA AnsweredOK ==
    ASSUME NEW g, GuardOK(g), NEW n \in Numbers, NEW said \in GuardAnswers,
           said = "replay" => Replayed(g, n)
    PROVE  AnsweredAs(g, Answered(g, n, said))
<1>1. g \in GuardType /\ BucketOK(g) /\ WindowOK(g) /\ g.max \in Nat /\ g.seen \subseteq Nat /\ g.sent \in Nat
  BY DEF GuardOK, GuardType
<1>2. n \in Nat
  BY SessionNumbers
<1> DEFINE b == Max({g.max - n, 0})
           e == [number |-> n, answer |-> said, known |-> n \in g.seen, behind |-> b]
           a == [g EXCEPT !.last = e]
           h == [a EXCEPT !.sent = g.sent + 1]
<1>3. b \in Nat /\ b >= g.max - n
  <2>1. b = IF g.max - n >= 0 THEN g.max - n ELSE 0
    BY <1>1, <1>2, MaxOfTwo
  <2> QED BY <1>1, <1>2, <2>1
<1>4. h = Answered(g, n, said)
  BY <1>1 DEF Answered, GuardType
<1> HIDE DEF b
<1>5. (n \in g.seen) \in BOOLEAN
  OBVIOUS
<1>6. e \in [number : Nat, answer : GuardAnswers, known : BOOLEAN, behind : Nat]
      /\ e.answer = said /\ e.number = n /\ (e.known <=> n \in g.seen) /\ e.behind = b
  BY <1>2, <1>3, <1>5
<1> HIDE DEF e
<1>7. a \in GuardType /\ SameBucket(g, a) /\ SameWindow(g, a) /\ SameAccepted(g, a) /\ a.last = e /\ a.sent = g.sent
  BY ONLY <1>1, <1>6 DEF GuardType, SameWindow, SameBucket, SameAccepted
<1>8. g.sent + 1 \in Nat
  BY <1>1
<1> HIDE DEF a
<1>9. h \in GuardType /\ SameBucket(a, h) /\ SameWindow(a, h) /\ SameAccepted(a, h) /\ h.last = a.last
  BY ONLY <1>7, <1>8 DEF GuardType, SameWindow, SameBucket, SameAccepted
<1> HIDE DEF h
<1>10. SameBucket(g, h) /\ SameWindow(g, h) /\ SameAccepted(g, h) /\ h.last = e
  BY <1>7, <1>9 DEF SameBucket, SameWindow, SameAccepted
<1>11. BucketOK(h)
  BY <1>10 DEF GuardOK, BucketOK, SameBucket
<1>12. WindowOK(h)
  BY <1>10 DEF GuardOK, WindowOK, SameWindow
<1>13. AcceptedOK(h)
  BY <1>10 DEF GuardOK, AcceptedOK, SameWindow, SameAccepted
<1>14. AnswerOK(h)
  <2> SUFFICES ASSUME said = "replay" PROVE n = 0 \/ n \in g.seen \/ b >= ReplayWindow
    BY <1>6, <1>10 DEF AnswerOK
  <2>1. n = 0 \/ (n <= g.max /\ (g.max - n >= ReplayWindow \/ g.max - n \in g.window))
    BY DEF Replayed
  <2>2. CASE n <= g.max /\ g.max - n >= ReplayWindow
    BY <1>1, <1>2, <1>3, <2>2, SessionNumbers
  <2>3. CASE n <= g.max /\ g.max - n \in g.window
    <3>1. g.max - (g.max - n) \in g.seen
      BY <1>1, <2>3 DEF WindowOK
    <3>2. g.max - (g.max - n) = n
      BY <1>1, <1>2
    <3> QED BY <3>1, <3>2
  <2> QED BY <2>1, <2>2, <2>3
<1> QED BY <1>4, <1>9, <1>10, <1>11, <1>12, <1>13, <1>14 DEF GuardOK, AnsweredAs

\* A number that is no replay is new; the window then holds it and still every
\* number it covers.
MarkedAs(g, n, h) ==
    /\ h \in GuardType /\ SameBucket(g, h) /\ h.last = g.last /\ SameAccepted(g, h)
    /\ n \notin g.seen /\ WindowOK([h EXCEPT !.seen = g.seen \cup {n}]) /\ h.seen = g.seen

LEMMA MarkedOK ==
    ASSUME NEW g, GuardOK(g), NEW n \in Numbers, ~Replayed(g, n)
    PROVE  MarkedAs(g, n, Marked(g, n))
<1> DEFINE W == ReplayWindow
           m == g.max
           h == Marked(g, n)
           u == IF n > m THEN n ELSE m
           s == g.seen \cup {n}
           w == IF n > m THEN IF n - m < W THEN Shifted(g.window, n - m) \cup {0} ELSE {0}
                ELSE g.window \cup {m - n}
<1>1. /\ g \in GuardType /\ m \in Nat /\ g.window \subseteq Nat /\ g.seen \subseteq Nat /\ W \in Nat \ {0}
      /\ n \in Nat /\ n # 0
  BY SessionNumbers DEF GuardOK, GuardType, Replayed
<1>2. /\ \A k \in g.seen : 1 <= k /\ k <= m /\ (m - k < W => m - k \in g.window)
      /\ \A d \in g.window : d < W /\ m - d \in g.seen
  BY DEF GuardOK, WindowOK
<1>3. n <= m => m - n < W /\ m - n \notin g.window
  BY <1>1 DEF Replayed
<1>4. n \notin g.seen
  BY <1>1, <1>2, <1>3
<1>5. /\ \A k \in s : 1 <= k /\ k <= u /\ (u - k < W => u - k \in w)
      /\ \A d \in w : d \in Nat /\ d < W /\ u - d \in s
  <2>1. CASE n > m
    <3>1. u = n
      BY <2>1
    <3>2. CASE n - m < W
      <4>1. w = ({i + (n - m) : i \in g.window} \cap 0 .. W - 1) \cup {0}
        BY <2>1, <3>2 DEF Shifted
      <4> HIDE DEF w, u, s
      <4>2. ASSUME NEW k \in g.seen PROVE 1 <= k /\ k <= n /\ (n - k < W => n - k \in w)
        <5>1. k \in Nat /\ 1 <= k /\ k <= m /\ (m - k < W => m - k \in g.window)
          BY <1>1, <1>2
        <5>2. ASSUME n - k < W PROVE n - k \in w
          <6>1. m - k < W /\ n - k = (m - k) + (n - m) /\ n - k \in 0 .. W - 1
            BY <1>1, <2>1, <5>1, <5>2
          <6> QED BY <4>1, <5>1, <6>1
        <5> QED BY <1>1, <2>1, <5>1, <5>2
      <4>3. ASSUME NEW d \in w PROVE d \in Nat /\ d < W /\ n - d \in s
        <5>1. CASE d = 0
          BY <1>1, <5>1 DEF s
        <5>2. CASE d # 0
          <6>1. PICK i \in g.window : d = i + (n - m) /\ d \in 0 .. W - 1
            BY <4>1, <5>2
          <6>2. n - d = m - i
            BY <1>1, <6>1
          <6> QED BY <1>1, <1>2, <6>1, <6>2 DEF s
        <5> QED BY <5>1, <5>2
      <4>4. n - n \in w /\ 1 <= n /\ n <= n
        BY <1>1, <4>1
      <4> QED BY <3>1, <4>2, <4>3, <4>4 DEF s
    <3>3. CASE ~(n - m < W)
      <4>1. w = {0}
        BY <2>1, <3>3
      <4> HIDE DEF w, u, s
      <4>2. ASSUME NEW k \in g.seen PROVE 1 <= k /\ k <= n /\ ~(n - k < W)
        BY <1>1, <1>2, <2>1, <3>3
      <4>3. n - n \in w /\ 1 <= n /\ n <= n /\ 0 < W /\ n - 0 \in s
        BY <1>1, <4>1 DEF s
      <4> QED BY <3>1, <4>1, <4>2, <4>3 DEF s
    <3> QED BY <3>2, <3>3
  <2>2. CASE ~(n > m)
    <3>1. u = m /\ w = g.window \cup {m - n} /\ n <= m
      BY <1>1, <2>2
    <3> HIDE DEF w, u, s
    <3>2. m - n \in Nat /\ m - n < W /\ m - (m - n) = n /\ 1 <= n
      BY <1>1, <1>3, <3>1
    <3> QED BY <1>1, <1>2, <3>1, <3>2 DEF s
  <2> QED BY <2>1, <2>2
<1>6. u \in Nat /\ w \subseteq Nat
  <2>1. w \subseteq Nat
    BY <1>5
  <2> HIDE DEF w
  <2> QED BY <1>1, <2>1
<1>7. h = IF n > m THEN [g EXCEPT !.max = u, !.window = w] ELSE [g EXCEPT !.window = w]
  BY DEF Marked, Jumped
<1> HIDE DEF u, w, h
<1>8. h \in GuardType /\ SameBucket(g, h) /\ h.last = g.last /\ SameAccepted(g, h) /\ h.seen = g.seen /\ h.window = w /\ h.max = u
  <2>1. CASE n > m
    <3> DEFINE a == [g EXCEPT !.max = u]
    <3>0. h = [a EXCEPT !.window = w]
      BY <1>1, <1>7, <2>1 DEF GuardType
    <3>1. a \in GuardType /\ SameBucket(g, a) /\ a.last = g.last /\ SameAccepted(g, a) /\ a.seen = g.seen /\ a.max = u
      BY ONLY <1>1, <1>6 DEF GuardType, SameBucket, SameAccepted
    <3> HIDE DEF a
    <3>2. h \in GuardType /\ SameBucket(a, h) /\ h.last = a.last /\ SameAccepted(a, h) /\ h.seen = a.seen /\ h.max = a.max
          /\ h.window = w
      BY ONLY <1>6, <3>0, <3>1 DEF GuardType, SameBucket, SameAccepted
    <3> QED BY <3>1, <3>2 DEF SameBucket, SameAccepted
  <2>2. CASE ~(n > m)
    <3>1. h = [g EXCEPT !.window = w] /\ u = m
      BY <1>7, <2>2 DEF u
    <3> HIDE DEF m
    <3>2. h \in GuardType /\ SameBucket(g, h) /\ h.last = g.last /\ SameAccepted(g, h) /\ h.seen = g.seen /\ h.max = g.max
          /\ h.window = w
      BY ONLY <1>1, <1>6, <3>1 DEF GuardType, SameBucket, SameAccepted
    <3> QED BY <3>1, <3>2 DEF m
  <2> QED BY <2>1, <2>2
<1>9. s \subseteq Nat
  BY <1>1
<1> DEFINE z == [h EXCEPT !.seen = s]
<1> HIDE DEF s
<1>10. z.seen = s /\ z.window = h.window /\ z.max = h.max
  BY ONLY <1>8, <1>9 DEF GuardType
<1> HIDE DEF z
<1>11. WindowOK(z)
  BY <1>5, <1>8, <1>10 DEF WindowOK
<1> QED BY <1>4, <1>8, <1>11 DEF MarkedAs, z, s, h

LEMMA ValidatedOK ==
    ASSUME NEW g, GuardOK(g), NEW n \in Numbers, NEW signed \in BOOLEAN
    PROVE  GuardOK(Validated(g, n, signed))
<1>1. CASE Replayed(g, n)
  BY <1>1, AnsweredOK DEF Validated, AnsweredAs, GuardAnswers
<1>2. CASE ~Replayed(g, n)
  <2> DEFINE r == IF signed THEN "success" ELSE "signature"
             e == Answered(g, n, r)
             h == Marked(e, n)
             z == [h EXCEPT !.seen = g.seen \cup {n}]
             c == z.accepted[n] + 1
             y == [z EXCEPT !.accepted[n] = c]
  <2>1. r \in GuardAnswers /\ r # "replay"
    BY DEF GuardAnswers
  <2> HIDE DEF r
  <2>2. GuardOK(e) /\ SameBucket(g, e) /\ SameWindow(g, e) /\ SameAccepted(g, e)
    BY <2>1, AnsweredOK DEF AnsweredAs
  <2> HIDE DEF e
  <2>3. ~Replayed(e, n) /\ e.seen = g.seen
    BY <1>2, <2>2 DEF Replayed, SameWindow
  <2>4. MarkedAs(e, n, h)
    BY <2>2, <2>3, MarkedOK
  <2>5. Validated(g, n, signed) = IF signed THEN y ELSE z
    <3>1. h.seen = g.seen
      BY <2>3, <2>4 DEF MarkedAs
    <3> QED BY <1>2, <3>1 DEF Validated, e, r
  <2> HIDE DEF h
  <2>6. /\ h \in GuardType /\ SameBucket(e, h) /\ h.last = e.last /\ SameAccepted(e, h)
        /\ n \notin g.seen /\ h.seen = g.seen /\ WindowOK(z)
    BY <2>3, <2>4 DEF MarkedAs
  <2>7. g.seen \cup {n} \in SUBSET Nat
    BY SessionNumbers DEF GuardOK, GuardType
  <2>8. z \in GuardType /\ SameBucket(h, z) /\ z.last = h.last /\ SameAccepted(h, z) /\ z.seen = g.seen \cup {n}
    <3> DEFINE s == g.seen \cup {n}
    <3> HIDE DEF s
    <3>1. z = [h EXCEPT !.seen = s] /\ s \in SUBSET Nat
      BY <2>7 DEF s
    <3> HIDE DEF z
    <3>2. z \in GuardType /\ SameBucket(h, z) /\ z.last = h.last /\ SameAccepted(h, z) /\ z.seen = s
      BY ONLY <2>6, <3>1 DEF GuardType, SameBucket, SameAccepted
    <3> QED BY <3>2 DEF s
  <2> HIDE DEF z
  <2>9. BucketOK(z)
    BY <2>2, <2>6, <2>8 DEF GuardOK, BucketOK, SameBucket
  <2>10. AcceptedOK(z) /\ z.accepted = g.accepted
    BY <2>2, <2>6, <2>8 DEF GuardOK, AcceptedOK, SameAccepted, SameWindow
  <2>11. AnswerOK(z)
    BY <2>2, <2>6, <2>8 DEF GuardOK, AnswerOK
  <2>12. GuardOK(z)
    BY <2>6, <2>8, <2>9, <2>10, <2>11 DEF GuardOK
  <2>13. z.accepted \in [Numbers -> Nat] /\ z.accepted[n] = 0
    <3>1. z.accepted \in [Numbers -> Nat]
      BY <2>8 DEF GuardType
    <3>2. ~(g.accepted[n] >= 1)
      BY <2>6 DEF GuardOK, AcceptedOK
    <3> QED BY <2>10, <3>1, <3>2
  <2>14. c = 1
    BY <2>13
  <2> HIDE DEF c
  <2> DEFINE f == [z.accepted EXCEPT ![n] = c]
  <2>15. f \in [Numbers -> Nat] /\ f[n] = 1 /\ \A k \in Numbers : k # n => f[k] = z.accepted[k]
    BY <2>13, <2>14
  <2> HIDE DEF f
  <2>16. y = [z EXCEPT !.accepted = f]
    BY <2>8 DEF GuardType, f
  <2> HIDE DEF y
  <2>17. y \in GuardType /\ SameBucket(z, y) /\ SameWindow(z, y) /\ y.last = z.last /\ y.accepted = f
    BY ONLY <2>8, <2>15, <2>16 DEF GuardType, SameBucket, SameWindow
  <2>18. BucketOK(y)
    BY <2>9, <2>17 DEF BucketOK, SameBucket
  <2>19. WindowOK(y)
    BY <2>6, <2>17 DEF WindowOK, SameWindow
  <2>20. AnswerOK(y)
    BY <2>11, <2>17 DEF AnswerOK
  <2>21. AcceptedOK(y)
    BY <2>8, <2>10, <2>15, <2>17 DEF AcceptedOK, SameWindow
  <2>22. GuardOK(y)
    BY <2>17, <2>18, <2>19, <2>20, <2>21 DEF GuardOK
  <2> QED BY <2>5, <2>12, <2>22
<1> QED BY <1>1, <1>2

LEMMA GuardStarts == ASSUME GuardInit PROVE GuardOK(guard)
<1>1. guard \in GuardType
  <2>1. [n \in Numbers |-> 0] \in [Numbers -> Nat] /\ Burst \in Nat
    BY SessionNumbers
  <2> QED BY <2>1 DEF GuardInit, GuardType, GuardAnswers
<1>2. /\ guard.at = 0 /\ guard.updated = 0 /\ guard.first = 0 /\ guard.spent = 0 /\ guard.tokens = Burst
      /\ guard.seen = {} /\ guard.window = {} /\ guard.last.answer = "none"
      /\ guard.accepted = [n \in Numbers |-> 0]
  BY DEF GuardInit
<1>3. BucketOK(guard)
  <2>1. Rate * (0 - 0) = 0
    BY SessionNumbers
  <2> QED BY <1>2, <2>1, SessionNumbers DEF BucketOK
<1>4. AcceptedOK(guard)
  BY <1>2 DEF AcceptedOK
<1> QED BY <1>1, <1>2, <1>3, <1>4 DEF GuardOK, WindowOK, AnswerOK

LEMMA GuardKeeps == ASSUME GuardOK(guard), GuardNext PROVE GuardOK(guard)'
<1>1. ASSUME NEW peer_ \in BOOLEAN, NEW signed \in BOOLEAN, NEW n \in Numbers, NEW t \in guard.at .. LastSecond,
             validate_inbound_message(peer_, n, signed, t)
      PROVE  GuardOK(guard)'
  <2> DEFINE g == Refilled(guard, t)
             h == [g EXCEPT !.tokens = @ - 1, !.spent = @ + 1]
  <2>1. t \in Nat /\ guard.at <= t
    BY SessionNumbers DEF GuardOK, GuardType
  <2>2. GuardOK(g)
    BY <2>1, RefilledOK
  <2> HIDE DEF g
  <2>3. guard' = IF ~guard.active THEN Answered(guard, n, "terminated")
                    ELSE IF ~peer_ THEN Answered(guard, n, "ip")
                    ELSE IF g.tokens < 1 THEN Answered(g, n, "rate")
                    ELSE Validated(h, n, signed)
    BY <1>1 DEF validate_inbound_message, g
  <2>4. /\ GuardOK(Answered(guard, n, "terminated")) /\ GuardOK(Answered(guard, n, "ip"))
        /\ GuardOK(Answered(g, n, "rate"))
    <3>1. "terminated" \in GuardAnswers /\ "ip" \in GuardAnswers /\ "rate" \in GuardAnswers
      BY DEF GuardAnswers
    <3> QED BY <2>2, <3>1, AnsweredOK DEF AnsweredAs
  <2>5. ASSUME ~(g.tokens < 1) PROVE GuardOK(Validated(h, n, signed))
    <3>1. GuardOK(h)
      BY <2>2, <2>5, SpentOK
    <3> HIDE DEF h
    <3> QED BY <3>1, ValidatedOK
  <2> HIDE DEF h
  <2> QED BY <2>3, <2>4, <2>5
<1>2. ASSUME terminate_session PROVE GuardOK(guard)'
  <2>1. guard' = [guard EXCEPT !.active = FALSE] /\ guard \in GuardType
    BY <1>2 DEF terminate_session, GuardOK
  <2>2. guard' \in GuardType /\ SameBucket(guard, guard') /\ SameWindow(guard, guard') /\ SameAccepted(guard, guard')
        /\ guard'.last = guard.last
    BY ONLY <2>1 DEF GuardType, SameBucket, SameWindow, SameAccepted
  <2>3. BucketOK(guard')
    BY <2>2 DEF GuardOK, BucketOK, SameBucket
  <2>4. WindowOK(guard')
    BY <2>2 DEF GuardOK, WindowOK, SameWindow
  <2>5. AcceptedOK(guard') /\ AnswerOK(guard')
    BY <2>2 DEF GuardOK, AcceptedOK, AnswerOK, SameWindow, SameAccepted
  <2>6. GuardOK(guard')
    BY <2>2, <2>3, <2>4, <2>5 DEF GuardOK
  <2> QED BY <2>6
<1> QED BY <1>1, <1>2 DEF GuardNext

LEMMA GuardSuffices == ASSUME GuardOK(guard) PROVE GuardSound
<1>1. \A n \in Numbers : guard.accepted[n] <= 1
  BY DEF GuardOK, AcceptedOK
<1>2. guard.tokens \in Nat /\ guard.spent \in Nat /\ guard.at \in Nat /\ guard.first \in Nat
  BY DEF GuardOK, GuardType
<1>3. guard.spent + guard.tokens <= Burst + Rate * (guard.at - guard.first) /\ guard.first <= guard.at
  BY DEF GuardOK, BucketOK
<1>4. Rate * (guard.at - guard.first) \in Nat
  BY <1>2, <1>3, SessionNumbers, RateSums
<1>5. guard.spent <= Burst + Rate * (guard.at - guard.first)
  <2> DEFINE q == Rate * (guard.at - guard.first)
  <2>1. q \in Nat /\ guard.spent + guard.tokens <= Burst + q
    BY <1>3, <1>4
  <2> HIDE DEF q
  <2>2. guard.spent <= Burst + q
    BY <1>2, <2>1, SessionNumbers
  <2> QED BY <2>2 DEF q
<1> QED BY <1>1, <1>5 DEF GuardOK, AnswerOK, GuardSound

-----------------------------------------------------------------------------
(***************************************************************************)
(* The drop copy.                                                          *)
(***************************************************************************)
WrittenBy(F, s, S, wanted, limit) ==
    /\ F \in [0 .. Len(s) -> Seq(S)] /\ F[0] = << >> /\ F[Len(s)] = Written(s, wanted, limit)
    /\ \A n \in 1 .. Len(s) :
          F[n] = IF s[n] \in wanted /\ Len(F[n - 1]) < limit THEN Append(F[n - 1], s[n]) ELSE F[n - 1]

\* A buffer is written entry by entry.
LEMMA WrittenInOrder ==
    ASSUME NEW S, NEW s \in Seq(S), NEW wanted, NEW limit \in Nat
    PROVE  \E F : WrittenBy(F, s, S, wanted, limit)
<1> DEFINE N == Len(s)
           T == Seq(S)
           V(w, i) == IF s[i] \in wanted /\ Len(w) < limit THEN Append(w, s[i]) ELSE w
           step == [i \in 1 .. N |-> [w \in T |-> V(w, i)]]
           body(g) == [t \in SUBSET (1 .. N) |-> IF t = {} THEN << >> ELSE V(g[t \ {Max(t)}], Max(t))]
           fold == CHOOSE g : g = body(g)
<1>0. N \in Nat /\ DOMAIN s = 1 .. N /\ \A i \in 1 .. N : s[i] \in S
  OBVIOUS
<1>1. \A t \in SUBSET (1 .. N) : t # {} => Max(t) \in t
  <2> TAKE t \in SUBSET (1 .. N)
  <2>1. t \subseteq 0 .. N
    BY <1>0
  <2> QED BY <1>0, <2>1, MaxIn
<1>3. \A w \in T, i \in 1 .. N :
          /\ V(w, i) \in T
          /\ V(w, i) = IF s[i] \in wanted /\ Len(w) < limit THEN Append(w, s[i]) ELSE w
  BY <1>0
<1>4. Written(s, wanted, limit) = fold[1 .. N]
  BY <1>0 DEF Written, FoldLeft, MapThenFoldSet
<1> HIDE DEF V, T
<1>5. step \in [1 .. N -> [T -> T]] /\ << >> \in T
  BY <1>3 DEF T
<1>6. PICK f : Folds(f, step, << >>, T, N)
  <2> HIDE DEF step
  <2> QED BY ONLY <1>0, <1>5, FoldsExist
<1>7. f = body(f)
  <2>1. ASSUME NEW t \in SUBSET (1 .. N) PROVE f[t] = body(f)[t]
    <3>1. CASE t = {}
      BY <1>6, <3>1 DEF Folds
    <3>2. CASE t # {}
      <4>1. Max(t) \in 1 .. N /\ t \ {Max(t)} \in SUBSET (1 .. N)
        BY <1>1, <3>2
      <4>2. f[t \ {Max(t)}] \in T /\ f[t] = step[Max(t)][f[t \ {Max(t)}]]
        BY <1>6, <3>2, <4>1 DEF Folds
      <4>3. step[Max(t)][f[t \ {Max(t)}]] = V(f[t \ {Max(t)}], Max(t))
        BY <4>1, <4>2
      <4> QED BY <3>2, <4>2, <4>3
    <3> QED BY <3>1, <3>2
  <2> QED BY <1>6, <2>1 DEF Folds
<1>8. fold = body(fold)
  <2> HIDE DEF body
  <2> QED BY <1>7
<1> HIDE DEF fold
<1>9. fold[{}] = << >> /\ fold[1 .. 0] = << >>
  <2>1. 1 .. 0 = {}
    OBVIOUS
  <2> QED BY <1>8, <2>1
<1>10. ASSUME NEW n \in 1 .. N PROVE fold[1 .. n] = V(fold[1 .. (n - 1)], n)
  <2>1. \A i \in 1 .. n : i \in 1 .. N
    BY <1>0
  <2>2. n \in 1 .. n /\ n \in Nat \ {0}
    BY <1>0
  <2>3. fold[1 .. n] = V(fold[(1 .. n) \ {Max(1 .. n)}], Max(1 .. n))
    BY <1>8, <2>1, <2>2
  <2> QED BY <2>2, <2>3, MaxPrefix
<1> DEFINE F == [n \in 0 .. N |-> fold[1 .. n]]
           I == {n \in Nat : n <= N => fold[1 .. n] \in T}
<1>11. 0 \in I
  BY <1>5, <1>9
<1>12. \A n \in Nat : n \in I => n + 1 \in I
  <2> HIDE DEF N
  <2> SUFFICES ASSUME NEW n \in Nat, n \in I, n + 1 <= N PROVE fold[1 .. (n + 1)] \in T
    OBVIOUS
  <2>1. n + 1 \in 1 .. N /\ (n + 1) - 1 = n /\ n <= N
    BY <1>0
  <2>2. fold[1 .. (n + 1)] = V(fold[1 .. n], n + 1)
    BY <1>10, <2>1
  <2> QED BY <1>3, <2>1, <2>2
<1>13. \A n \in Nat : n \in I
  <2> HIDE DEF I
  <2> QED BY <1>11, <1>12, NatSetInduction
<1>14. F \in [0 .. N -> T]
  BY <1>0, <1>13
<1>15. F[0] = << >> /\ F[N] = fold[1 .. N]
  BY <1>0, <1>9
<1>16. ASSUME NEW n \in 1 .. N PROVE F[n] = V(F[n - 1], n) /\ F[n - 1] \in T
  <2>1. n \in 0 .. N /\ n - 1 \in 0 .. N
    BY <1>0
  <2>2. F[n] = fold[1 .. n] /\ F[n - 1] = fold[1 .. (n - 1)]
    BY <2>1
  <2> QED BY <1>10, <1>14, <2>1, <2>2
<1> HIDE DEF F
<1>17. WrittenBy(F, s, S, wanted, limit)
  BY <1>3, <1>4, <1>14, <1>15, <1>16 DEF WrittenBy, T
<1> QED BY <1>17

\* The slots hold the last executions under the numbers they were published with.
CopyOK(c) ==
    /\ c \in [seq : Nat, count : Nat, buffer : [0 .. ReplayBufferSize - 1 -> Nat]] /\ c.seq = c.count + 1
    /\ \A j \in Nat : j < c.count /\ c.count - j <= ReplayBufferSize => c.buffer[j % ReplayBufferSize] = j + 1

LEMMA CopyKeeps == ASSUME CopyOK(copy), CopyNext PROVE CopyOK(copy)'
<1> DEFINE R == ReplayBufferSize
           n == copy.count
           b == copy.buffer
           x == n % R
           d == [b EXCEPT ![x] = n + 1]
<1>0. R \in Nat \ {0}
  BY SessionAssumption
<1>1. n \in Nat /\ b \in [0 .. R - 1 -> Nat] /\ copy.seq = n + 1
  BY DEF CopyOK
<1>2. \A j \in Nat : j < n /\ n - j <= R => b[j % R] = j + 1
  BY DEF CopyOK
<1>3. x \in 0 .. R - 1
  BY <1>0, <1>1, PlaceIn
<1>4. copy' = [seq |-> (n + 1) + 1, count |-> n + 1, buffer |-> d]
  BY <1>1 DEF CopyNext, publish_execution, CopySlot
<1> HIDE DEF n, b, R
<1>5. d \in [0 .. R - 1 -> Nat] /\ d[x] = n + 1 /\ \A i \in 0 .. R - 1 : i # x => d[i] = b[i]
  BY <1>1, <1>3
<1>6. ASSUME NEW j \in Nat, j < n + 1, (n + 1) - j <= R PROVE d[j % R] = j + 1
  <2>1. CASE j = n
    BY <1>5, <2>1
  <2>2. CASE j # n
    <3>1. j < n /\ n - j < R
      BY <1>0, <1>1, <1>6, <2>2
    <3>2. j % R # x
      BY <1>0, <1>1, <3>1, PlacesDistinct
    <3>3. j % R \in 0 .. R - 1
      BY <1>0, PlaceIn
    <3>5. n - j <= R
      BY <1>0, <1>1, <3>1
    <3>4. b[j % R] = j + 1
      BY ONLY <1>2, <3>1, <3>5, j \in Nat
    <3> QED BY <1>5, <3>2, <3>3, <3>4
  <2> QED BY <2>1, <2>2
<1> HIDE DEF d
<1>7. copy' \in [seq : Nat, count : Nat, buffer : [0 .. R - 1 -> Nat]] /\ copy'.seq = copy'.count + 1
      /\ copy'.count = n + 1 /\ copy'.buffer = d
  BY <1>1, <1>4, <1>5
<1> QED BY <1>6, <1>7 DEF CopyOK, R

\* The numbers from low on, k of them.
LEMMA RangeGrows ==
    ASSUME NEW low \in Nat, NEW k \in Nat
    PROVE  /\ Len([i \in 1 .. k |-> low + i - 1]) = k
           /\ [i \in 1 .. k |-> low + i - 1] \in Seq(Int)
           /\ Append([i \in 1 .. k |-> low + i - 1], low + k) = [i \in 1 .. k + 1 |-> low + i - 1]
<1> DEFINE u == [i \in 1 .. k |-> low + i - 1]
           v == [i \in 1 .. k + 1 |-> low + i - 1]
<1>1. u \in [1 .. k -> Int] /\ v \in [1 .. k + 1 -> Int] /\ v[k + 1] = low + k /\ \A i \in 1 .. k : v[i] = u[i]
  OBVIOUS
<1> HIDE DEF u, v
<1>2. u \in Seq(Int) /\ v \in Seq(Int) /\ Len(u) = k /\ Len(v) = k + 1
  BY <1>1 DEF Seq
<1>3. Append(u, low + k) \in Seq(Int) /\ Len(Append(u, low + k)) = k + 1
  BY <1>2
<1>4. ASSUME NEW i \in 1 .. k + 1 PROVE Append(u, low + k)[i] = v[i]
  BY <1>1, <1>2, <1>4
<1>5. Append(u, low + k) = v
  BY <1>2, <1>3, <1>4, SeqEqual
<1> QED BY <1>2, <1>5 DEF u, v

\* How many of the numbers o + 1, ..., o + n fit, when those from low to high are wanted.
Reach(o, n, low, high, limit) ==
    LET top == IF o + n <= high THEN o + n ELSE high
        c == top - low + 1
    IN  IF c < 0 THEN 0 ELSE IF c <= limit THEN c ELSE limit

ReachStep(o, n, low, high, limit, k, l) ==
    /\ k \in Nat
    /\ l = IF low <= o + n + 1 /\ o + n + 1 <= high /\ k < limit THEN k + 1 ELSE k
    /\ low <= o + n + 1 /\ o + n + 1 <= high /\ k < limit => o + n + 1 = low + k

LEMMA ReachNext ==
    ASSUME NEW o \in Nat, NEW n \in Nat, NEW low \in Nat, NEW high \in Nat, NEW limit \in Nat, o < low
    PROVE  /\ Reach(o, 0, low, high, limit) = 0
           /\ ReachStep(o, n, low, high, limit, Reach(o, n, low, high, limit), Reach(o, n + 1, low, high, limit))
BY DEF Reach, ReachStep

LEMMA ReplayIs ==
    ASSUME CopyOK(copy), NEW begin \in Nat \ {0}, NEW end \in Nat, NEW limit \in Nat
    PROVE  replay_range(begin, end, limit)
             = LET low == Max({begin, copy.count - ReplayBufferSize + 1})
                   high == Min({end, copy.count})
               IN  [i \in 1 .. Max({0, Min({limit, high - low + 1})}) |-> low + i - 1]
<1> DEFINE R == ReplayBufferSize
           n == copy.count
           v == IF n <= R THEN n ELSE R
           o == n - v
           low == IF begin <= n - R + 1 THEN n - R + 1 ELSE begin
           high == IF end <= n THEN end ELSE n
           h == [i \in 1 .. v |-> copy.buffer[(n - v + i - 1) % R]]
           K(k) == Reach(o, k, low, high, limit)
           Rng(k) == [i \in 1 .. k |-> low + i - 1]
<1>0. R \in Nat \ {0} /\ n \in Nat
  BY SessionAssumption DEF CopyOK
<1>1. Min({n, R}) = v /\ Max({begin, n - R + 1}) = low /\ Min({end, n}) = high
  BY <1>0, MinOfTwo, MaxOfTwo
<1>2. v \in Nat /\ o \in Nat /\ v <= R /\ low \in Nat \ {0} /\ high \in Nat /\ o + v = n /\ o < low /\ high <= n
      /\ begin <= low /\ high <= end /\ (o + 1 >= begin => low <= o + 1) /\ (o + 1 < begin => low = begin)
  BY <1>0
<1>3. Max({0, Min({limit, high - low + 1})}) = K(v)
  <2> HIDE DEF low, high, v, o
  <2>0. limit \in Int /\ high - low + 1 \in Int
    BY <1>2
  <2>1. Min({limit, high - low + 1}) = IF limit <= high - low + 1 THEN limit ELSE high - low + 1
    BY <2>0, MinOfTwo
  <2>2. Min({limit, high - low + 1}) \in Int
    BY <2>0, <2>1
  <2>3. Max({0, Min({limit, high - low + 1})})
          = IF 0 <= Min({limit, high - low + 1}) THEN Min({limit, high - low + 1}) ELSE 0
    BY <2>2, MaxOfTwo
  <2> DEFINE m == Min({limit, high - low + 1})
  <2>4. m = IF limit <= high - low + 1 THEN limit ELSE high - low + 1
    BY <2>1
  <2> HIDE DEF m, low, high, v, o
  <2>5. (IF 0 <= m THEN m ELSE 0) = K(v)
    BY <1>2, <2>4 DEF Reach
  <2> QED BY <2>3, <2>5 DEF m
<1>4. ASSUME NEW i \in 1 .. v PROVE h[i] = o + i
  <2>1. o + i - 1 \in Nat /\ o + i - 1 < n /\ n - (o + i - 1) <= R /\ (o + i - 1) + 1 = o + i
    BY <1>0, <1>2
  <2>2. copy.buffer[(o + i - 1) % R] = (o + i - 1) + 1
    BY <2>1 DEF CopyOK
  <2> QED BY <2>1, <2>2
<1> HIDE DEF R, v, o, low, high, n
<1>5. h \in Seq(Nat) /\ Len(h) = v
  <2>1. \A i \in 1 .. v : h[i] \in Nat
    BY <1>2, <1>4
  <2>2. h \in [1 .. v -> Nat]
    BY <2>1
  <2> HIDE DEF h
  <2> QED BY <1>2, <2>2 DEF Seq
<1>6. replay_range(begin, end, limit) = IF begin > end THEN << >> ELSE Written(h, begin .. end, limit)
  BY <1>1 DEF replay_range, R, n, v
<1> HIDE DEF h, K, Rng
<1>7. ASSUME begin > end PROVE replay_range(begin, end, limit) = Rng(K(v))
  <2>1. K(v) = 0
    <3>1. high < low
      BY <1>2, <1>7
    <3> QED BY <1>2, <3>1 DEF K, Reach
  <2>2. Rng(0) = << >>
    BY DEF Rng
  <2> QED BY ONLY <1>6, <1>7, <2>1, <2>2
<1>8. ASSUME begin <= end PROVE replay_range(begin, end, limit) = Rng(K(v))
  <2> DEFINE w == begin .. end
  <2>1. PICK F : WrittenBy(F, h, Nat, w, limit)
    BY <1>5, WrittenInOrder
  <2>2. /\ F[0] = << >> /\ F[v] = Written(h, w, limit)
        /\ \A k \in 1 .. v : F[k] = IF h[k] \in w /\ Len(F[k - 1]) < limit THEN Append(F[k - 1], h[k]) ELSE F[k - 1]
    BY <1>5, <2>1 DEF WrittenBy
  <2> DEFINE I == {k \in Nat : k <= v => F[k] = Rng(K(k))}
  <2>3. 0 \in I
    <3>1. K(0) = 0 /\ Rng(0) = << >>
      BY <1>2, ReachNext DEF K, Rng
    <3> QED BY <2>2, <3>1
  <2>4. ASSUME NEW k \in Nat, k \in I PROVE k + 1 \in I
    <3> SUFFICES ASSUME k + 1 <= v PROVE F[k + 1] = Rng(K(k + 1))
      OBVIOUS
    <3>1. k + 1 \in 1 .. v /\ (k + 1) - 1 = k /\ k <= v
      BY <1>2
    <3>2. F[k] = Rng(K(k)) /\ h[k + 1] = o + k + 1
      BY <1>2, <1>4, <2>4, <3>1
    <3>3. /\ K(k) \in Nat
          /\ K(k + 1) = IF low <= o + k + 1 /\ o + k + 1 <= high /\ K(k) < limit THEN K(k) + 1 ELSE K(k)
          /\ low <= o + k + 1 /\ o + k + 1 <= high /\ K(k) < limit => o + k + 1 = low + K(k)
      <4>1. ReachStep(o, k, low, high, limit, K(k), K(k + 1))
        BY <1>2, ReachNext DEF K
      <4> QED BY <4>1 DEF ReachStep
    <3>4. Len(Rng(K(k))) = K(k) /\ Append(Rng(K(k)), low + K(k)) = Rng(K(k) + 1)
      BY <1>2, <3>3, RangeGrows DEF Rng
    <3>5. h[k + 1] \in w <=> low <= o + k + 1 /\ o + k + 1 <= high
      <4>1. o + k + 1 \in Nat /\ o + k + 1 <= n /\ (o + k + 1 <= end <=> o + k + 1 <= high)
        BY <1>0, <1>2, <3>1 DEF high
      <4>2. begin <= o + k + 1 <=> low <= o + k + 1
        BY <1>2
      <4> QED BY <3>2, <4>1, <4>2
    <3>6. F[k + 1] = IF h[k + 1] \in w /\ Len(F[k]) < limit THEN Append(F[k], h[k + 1]) ELSE F[k]
      BY <2>2, <3>1
    <3>7. CASE h[k + 1] \in w /\ K(k) < limit
      BY <3>2, <3>3, <3>4, <3>5, <3>6, <3>7
    <3>8. CASE ~(h[k + 1] \in w /\ K(k) < limit)
      BY <3>2, <3>3, <3>4, <3>5, <3>6, <3>8
    <3> QED BY <3>7, <3>8
  <2>5. \A k \in Nat : k \in I
    <3> HIDE DEF I
    <3> QED BY <2>3, <2>4, NatSetInduction
  <2>6. F[v] = Rng(K(v))
    BY <1>2, <2>5
  <2>7. ~(begin > end)
    BY <1>8
  <2> QED BY ONLY <1>6, <2>2, <2>6, <2>7
<1>9. replay_range(begin, end, limit) = Rng(K(v))
  BY <1>2, <1>7, <1>8
<1>10. Rng(K(v)) = [i \in 1 .. Max({0, Min({limit, high - low + 1})}) |-> low + i - 1]
  BY ONLY <1>3 DEF Rng
<1>11. /\ Max({begin, copy.count - ReplayBufferSize + 1}) = low /\ Min({end, copy.count}) = high
  BY ONLY <1>1 DEF R, n
<1> HIDE DEF low, high
<1> QED BY ONLY <1>9, <1>10, <1>11

LEMMA CopySuffices == ASSUME CopyOK(copy) PROVE ReplayInOrder
<1>1. ASSUME NEW begin \in 1 .. MaxPublished, NEW end \in 1 .. MaxPublished, NEW limit \in 1 .. ReplayBufferSize
      PROVE  begin \in Nat \ {0} /\ end \in Nat /\ limit \in Nat
  BY SessionAssumption
<1> QED BY <1>1, ReplayIs DEF ReplayInOrder

LEMMA CopyStarts == ASSUME CopyInit PROVE CopyOK(copy)
<1>1. [i \in 0 .. ReplayBufferSize - 1 |-> 0] \in [0 .. ReplayBufferSize - 1 -> Nat]
  OBVIOUS
<1>2. copy.seq = 1 /\ copy.count = 0
  BY DEF CopyInit
<1> QED BY <1>1, <1>2 DEF CopyInit, CopyOK

-----------------------------------------------------------------------------
(***************************************************************************)
(* Front and back office reconciliation.                                   *)
(***************************************************************************)
\* A buffer with room for one entry is left empty only when nothing was wanted.
LEMMA WrittenNothing ==
    ASSUME NEW S, NEW s \in Seq(S), NEW wanted, NEW limit \in Nat \ {0}, Written(s, wanted, limit) = << >>,
           NEW i \in 1 .. Len(s)
    PROVE  s[i] \notin wanted
<1> DEFINE N == Len(s)
<1>0. N \in Nat
  OBVIOUS
<1>1. PICK F : WrittenBy(F, s, S, wanted, limit)
  BY WrittenInOrder
<1>2. F \in [0 .. N -> Seq(S)] /\ F[N] = << >>
  BY <1>1 DEF WrittenBy
<1>3. \A n \in 1 .. N : F[n] = IF s[n] \in wanted /\ Len(F[n - 1]) < limit THEN Append(F[n - 1], s[n]) ELSE F[n - 1]
  BY <1>1 DEF WrittenBy
<1>4. \A n \in 1 .. N : s[n] \in S
  OBVIOUS
<1> HIDE DEF N
<1> DEFINE I == {k \in Nat : k <= N => \A n \in 1 .. k : s[n] \in wanted => Len(F[k]) >= 1}
<1>5. 0 \in I
  OBVIOUS
<1>6. ASSUME NEW k \in Nat, k \in I PROVE k + 1 \in I
  <2> SUFFICES ASSUME k + 1 <= N, NEW n \in 1 .. k + 1, s[n] \in wanted PROVE Len(F[k + 1]) >= 1
    OBVIOUS
  <2>1. k + 1 \in 1 .. N /\ (k + 1) - 1 = k /\ k \in 0 .. N /\ (n = k + 1 \/ n \in 1 .. k)
    BY <1>0
  <2>2. F[k] \in Seq(S) /\ s[k + 1] \in S
    BY <1>2, <1>4, <2>1
  <2>3. F[k + 1] = IF s[k + 1] \in wanted /\ Len(F[k]) < limit THEN Append(F[k], s[k + 1]) ELSE F[k]
    BY <1>3, <2>1
  <2>4. Len(Append(F[k], s[k + 1])) = Len(F[k]) + 1 /\ Len(F[k]) \in Nat
    BY <2>2
  <2>5. n \in 1 .. k => Len(F[k]) >= 1
    BY <1>6, <2>1
  <2>6. CASE s[k + 1] \in wanted /\ Len(F[k]) < limit
    BY <2>3, <2>4, <2>6
  <2>7. CASE ~(s[k + 1] \in wanted /\ Len(F[k]) < limit)
    <3>1. Len(F[k]) >= 1
      BY <2>1, <2>4, <2>5, <2>7
    <3> QED BY <2>3, <2>7, <3>1
  <2> QED BY <2>6, <2>7
<1>7. \A k \in Nat : k \in I
  <2> HIDE DEF I
  <2> QED BY <1>5, <1>6, NatSetInduction
<1>8. s[i] \in wanted => Len(F[N]) >= 1
  BY <1>0, <1>7 DEF N
<1>9. ~(Len(<< >>) >= 1)
  OBVIOUS
<1> QED BY <1>2, <1>8, <1>9

\* j is the first trade of that id.
IsFirst(b, id, j) ==
    j \in 1 .. Len(b) /\ b[j].id = id /\ \A k \in 1 .. Len(b) : b[k].id = id => j <= k

LEMMA FirstBackIs ==
    ASSUME offices.back \in Seq(OfficeTrades), NEW id
    PROVE  /\ FirstBack(id) # 0 => IsFirst(offices.back, id, FirstBack(id))
           /\ FirstBack(id) = 0 => \A k \in 1 .. Len(offices.back) : offices.back[k].id # id
<1> DEFINE b == offices.back
           I == {i \in 1 .. Len(b) : b[i].id = id}
<1>1. FirstBack(id) = IF I # {} THEN Min(I) ELSE 0
  BY DEF FirstBack, SelectInSeq
<1>2. I \subseteq 1 .. Len(b) /\ Len(b) \in Nat
  OBVIOUS
<1>3. I # {} => Min(I) \in I /\ \A k \in I : Min(I) <= k
  <2>1. I \subseteq Nat
    BY <1>2
  <2> HIDE DEF I
  <2> QED BY <2>1, MinIn
<1>4. I # {} => Min(I) # 0
  BY <1>2, <1>3
<1> QED BY <1>1, <1>3, <1>4 DEF IsFirst

BreakTypes == {"none", "front", "quantity", "price", "back"}
Breaks == [id : {x.id : x \in OfficeTrades} \cup {0}, type : BreakTypes]
OfficesType ==
    [front : Seq(OfficeTrades), back : Seq(OfficeTrades), matched : SUBSET Nat, breaks : Seq(Breaks), ran : BOOLEAN]

\* A flag stands for a trade of the front office, and a clean report leaves none out.
MatchedOK(f, b, m) == \A j \in m : \E i \in 1 .. Len(f) : IsFirst(b, f[i].id, j)
CleanOK(f, b, m) ==
    /\ \A i \in 1 .. Len(f) : \E j \in 1 .. Len(b) :
          IsFirst(b, f[i].id, j) /\ f[i].qty = b[j].qty /\ f[i].price = b[j].price
    /\ \A j \in 1 .. Len(b) : j \in m
OfficesOK(o) ==
    /\ o \in OfficesType /\ MatchedOK(o.front, o.back, o.matched)
    /\ o.ran /\ o.breaks = << >> => CleanOK(o.front, o.back, o.matched)

LEMMA OfficesSuffice == ASSUME OfficesOK(offices) PROVE CleanMeansAgreed
<1> DEFINE f == offices.front
           b == offices.back
           m == offices.matched
<1>1. f \in Seq(OfficeTrades) /\ b \in Seq(OfficeTrades)
  BY DEF OfficesOK, OfficesType
<1>2. ToSet(f) = {f[i] : i \in 1 .. Len(f)} /\ ToSet(b) = {b[j] : j \in 1 .. Len(b)}
  BY <1>1 DEF ToSet
<1> SUFFICES ASSUME offices.ran, offices.breaks = << >>
             PROVE  /\ {x.id : x \in ToSet(f)} = {x.id : x \in ToSet(b)}
                    /\ \A x \in ToSet(f) : \E y \in ToSet(b) : <<y.id, y.qty, y.price>> = <<x.id, x.qty, x.price>>
                    /\ \A y, z \in ToSet(b) : y.id = z.id => y = z
  BY DEF CleanMeansAgreed
<1>3. MatchedOK(f, b, m) /\ CleanOK(f, b, m)
  BY DEF OfficesOK
<1> HIDE DEF f, b, m
<1>4. ASSUME NEW i \in 1 .. Len(f)
      PROVE  \E j \in 1 .. Len(b) : b[j].id = f[i].id /\ f[i].qty = b[j].qty /\ f[i].price = b[j].price
  BY <1>3, <1>4 DEF CleanOK, IsFirst
<1>5. ASSUME NEW j \in 1 .. Len(b)
      PROVE  /\ \E i \in 1 .. Len(f) : f[i].id = b[j].id
             /\ \A k \in 1 .. Len(b) : b[k].id = b[j].id => j <= k
  BY <1>3, <1>5 DEF CleanOK, MatchedOK, IsFirst
<1>6. {x.id : x \in ToSet(f)} = {x.id : x \in ToSet(b)}
  <2>1. ASSUME NEW x \in ToSet(f) PROVE \E y \in ToSet(b) : y.id = x.id
    BY <1>2, <1>4
  <2>2. ASSUME NEW y \in ToSet(b) PROVE \E x \in ToSet(f) : x.id = y.id
    BY <1>2, <1>5
  <2> HIDE <1>2
  <2>3. ASSUME NEW n \in {x.id : x \in ToSet(f)} PROVE n \in {x.id : x \in ToSet(b)}
    BY ONLY <2>1, <2>3
  <2>4. ASSUME NEW n \in {x.id : x \in ToSet(b)} PROVE n \in {x.id : x \in ToSet(f)}
    BY ONLY <2>2, <2>4
  <2> QED BY <2>3, <2>4
<1>7. ASSUME NEW x \in ToSet(f) PROVE \E y \in ToSet(b) : <<y.id, y.qty, y.price>> = <<x.id, x.qty, x.price>>
  <2>1. PICK i \in 1 .. Len(f) : x = f[i]
    BY <1>2
  <2>2. PICK j \in 1 .. Len(b) : b[j].id = f[i].id /\ f[i].qty = b[j].qty /\ f[i].price = b[j].price
    BY <1>4
  <2> QED BY <1>2, <2>1, <2>2
<1>8. ASSUME NEW y \in ToSet(b), NEW z \in ToSet(b), y.id = z.id PROVE y = z
  <2>1. PICK j \in 1 .. Len(b), k \in 1 .. Len(b) : y = b[j] /\ z = b[k]
    BY <1>2
  <2>2. j <= k /\ k <= j
    BY <1>5, <1>8, <2>1
  <2>3. j = k
    BY <1>1, <2>2
  <2> QED BY <2>1, <2>3
<1> QED BY <1>6, <1>7, <1>8

\* A record more moves no first trade.
LEMMA MatchedGrows ==
    ASSUME NEW f \in Seq(OfficeTrades), NEW b \in Seq(OfficeTrades), NEW m, MatchedOK(f, b, m), NEW x \in OfficeTrades
    PROVE  MatchedOK(Append(f, x), b, m) /\ MatchedOK(f, Append(b, x), m)
<1>1. /\ Len(Append(f, x)) = Len(f) + 1 /\ Len(Append(b, x)) = Len(b) + 1 /\ Len(f) \in Nat /\ Len(b) \in Nat
      /\ \A i \in 1 .. Len(f) : i \in 1 .. Len(f) + 1 /\ Append(f, x)[i] = f[i]
      /\ \A i \in 1 .. Len(b) : i \in 1 .. Len(b) + 1 /\ Append(b, x)[i] = b[i]
      /\ \A i \in 1 .. Len(b) + 1 : i \in 1 .. Len(b) \/ i = Len(b) + 1
  OBVIOUS
<1>2. MatchedOK(Append(f, x), b, m)
  BY <1>1 DEF MatchedOK
<1>3. ASSUME NEW id, NEW j, IsFirst(b, id, j) PROVE IsFirst(Append(b, x), id, j)
  <2>1. j \in 1 .. Len(b) /\ b[j].id = id
    BY <1>3 DEF IsFirst
  <2>2. ASSUME NEW k \in 1 .. Len(b) + 1, Append(b, x)[k].id = id PROVE j <= k
    <3>1. CASE k \in 1 .. Len(b)
      BY <1>1, <1>3, <2>2, <3>1 DEF IsFirst
    <3>2. CASE k = Len(b) + 1
      BY <1>1, <2>1, <3>2
    <3> QED BY <1>1, <3>1, <3>2
  <2> QED BY <1>1, <2>1, <2>2 DEF IsFirst
<1>4. MatchedOK(f, Append(b, x), m)
  BY <1>3 DEF MatchedOK
<1> QED BY <1>2, <1>4

\* The report, and what it says when it is empty.
LEMMA ReconcileOK == ASSUME OfficesOK(offices), reconcile_trades PROVE OfficesOK(offices')
<1> DEFINE f == offices.front
           b == offices.back
           n == Len(f)
           l == Len(b)
           m == offices.matched \cup ({FirstBack(x.id) : x \in ToSet(f)} \ {0})
           s == [i \in 1 .. n + l |-> IF i <= n THEN BreakOf(f[i]) ELSE Unmatched(i - n, m)]
           wanted == ToSet(s) \ {NoBreak}
           r == Written(s, wanted, MaxBreaks)
<1>1. /\ offices \in OfficesType /\ f \in Seq(OfficeTrades) /\ b \in Seq(OfficeTrades) /\ offices.matched \subseteq Nat
  BY DEF OfficesOK, OfficesType
<1>2. MaxBreaks \in Nat \ {0} /\ offices' = [offices EXCEPT !.matched = m, !.ran = TRUE, !.breaks = r]
  BY SessionAssumption DEF reconcile_trades
<1>3. ToSet(f) = {f[i] : i \in 1 .. n} /\ n \in Nat /\ l \in Nat /\ \A i \in 1 .. n : f[i] \in OfficeTrades
  BY <1>1 DEF ToSet
<1>4. ASSUME NEW j, j \in m PROVE j \in Nat /\ \E i \in 1 .. n : IsFirst(b, f[i].id, j)
  <2>1. CASE j \in offices.matched
    BY <1>1, <2>1 DEF OfficesOK, MatchedOK
  <2>2. CASE j \notin offices.matched
    <3>1. PICK x \in ToSet(f) : j = FirstBack(x.id) /\ j # 0
      BY <1>4, <2>2
    <3>2. PICK i \in 1 .. n : x = f[i]
      BY <1>3
    <3>3. IsFirst(b, f[i].id, j)
      BY <1>1, <3>1, <3>2, FirstBackIs
    <3> QED BY <1>3, <3>3 DEF IsFirst, l
  <2> QED BY <2>1, <2>2
<1>5. m \in SUBSET Nat /\ MatchedOK(f, b, m)
  <2> HIDE DEF m
  <2> QED BY <1>4 DEF MatchedOK
<1>6. ASSUME NEW i \in 1 .. n PROVE BreakOf(f[i]) \in Breaks
  BY <1>3, <1>6 DEF BreakOf, NoBreak, Breaks, BreakTypes
<1>7. ASSUME NEW j \in 1 .. l PROVE Unmatched(j, m) \in Breaks /\ (Unmatched(j, m) = NoBreak => j \in m)
  <2>1. b[j] \in OfficeTrades
    BY <1>1
  <2> HIDE DEF m
  <2> QED BY <2>1 DEF Unmatched, NoBreak, Breaks, BreakTypes
<1>8. ASSUME NEW i \in 1 .. n, BreakOf(f[i]) = NoBreak
      PROVE  \E j \in 1 .. l : IsFirst(b, f[i].id, j) /\ f[i].qty = b[j].qty /\ f[i].price = b[j].price
  <2> DEFINE j == FirstBack(f[i].id)
  <2>1. j # 0 /\ f[i].qty = b[j].qty /\ f[i].price = b[j].price
    BY <1>8 DEF BreakOf, NoBreak
  <2>2. IsFirst(b, f[i].id, j)
    BY <1>1, <2>1, FirstBackIs
  <2> HIDE DEF j
  <2> QED BY <2>1, <2>2 DEF IsFirst, l
<1> HIDE DEF m, n, l
<1>9. s \in Seq(Breaks) /\ Len(s) = n + l
  <2>1. ASSUME NEW i \in 1 .. n + l PROVE s[i] \in Breaks
    <3>1. CASE i <= n
      BY <1>3, <1>6, <3>1
    <3>2. CASE ~(i <= n)
      <4>1. i - n \in 1 .. l
        BY <1>3, <3>2
      <4> QED BY <1>7, <3>2, <4>1
    <3> QED BY <3>1, <3>2
  <2>2. s \in [1 .. n + l -> Breaks]
    BY <2>1
  <2>3. n + l \in Nat
    BY <1>3
  <2> HIDE DEF s
  <2> QED BY <2>2, <2>3 DEF Seq
<1>10. r \in Seq(Breaks)
  <2>1. PICK F : WrittenBy(F, s, Breaks, wanted, MaxBreaks)
    BY <1>2, <1>9, WrittenInOrder
  <2> HIDE DEF s, wanted, r
  <2>2. F[Len(s)] = r
    BY <2>1 DEF WrittenBy, r
  <2>3. Len(s) \in 0 .. Len(s)
    BY <1>9
  <2> QED BY <2>1, <2>2, <2>3 DEF WrittenBy
<1>11. ASSUME r = << >> PROVE CleanOK(f, b, m)
  <2>1. ASSUME NEW i \in 1 .. n + l PROVE s[i] = NoBreak
    <3>1. s[i] \notin wanted
      <4> HIDE DEF s, wanted
      <4> QED BY <1>2, <1>9, <1>11, WrittenNothing
    <3>2. s[i] \in ToSet(s)
      <4>1. DOMAIN s = 1 .. n + l
        OBVIOUS
      <4> HIDE DEF s
      <4> QED BY <4>1 DEF ToSet
    <3> HIDE DEF s
    <3> QED BY <3>1, <3>2
  <2>2. ASSUME NEW i \in 1 .. n PROVE BreakOf(f[i]) = NoBreak
    <3>1. i \in 1 .. n + l /\ i <= n
      BY <1>3
    <3> QED BY <2>1, <3>1
  <2>3. ASSUME NEW j \in 1 .. l PROVE j \in m
    <3>1. n + j \in 1 .. n + l /\ ~(n + j <= n) /\ (n + j) - n = j
      BY <1>3
    <3>2. Unmatched(j, m) = NoBreak
      BY <2>1, <3>1
    <3> QED BY <1>7, <3>2
  <2> HIDE DEF s, f, b
  <2> QED BY <1>8, <2>2, <2>3 DEF CleanOK, n, l
<1> HIDE DEF r, s
<1>12. /\ offices' \in OfficesType /\ offices'.front = f /\ offices'.back = b /\ offices'.matched = m
       /\ offices'.breaks = r
  <2> DEFINE a == [offices EXCEPT !.matched = m]
             c == [a EXCEPT !.ran = TRUE]
  <2>0. offices' = [c EXCEPT !.breaks = r]
    BY <1>1, <1>2 DEF OfficesType
  <2>1. a \in OfficesType /\ a.front = f /\ a.back = b /\ a.matched = m
    BY ONLY <1>1, <1>5 DEF OfficesType, f, b
  <2> HIDE DEF a, f, b
  <2>2. c \in OfficesType /\ c.front = f /\ c.back = b /\ c.matched = m
    BY ONLY <2>1 DEF OfficesType
  <2> HIDE DEF c
  <2> QED BY ONLY <1>10, <2>0, <2>2 DEF OfficesType
<1> HIDE DEF f, b
<1> QED BY <1>5, <1>11, <1>12 DEF OfficesOK

LEMMA OfficesKeep == ASSUME OfficesOK(offices), OfficesNext PROVE OfficesOK(offices)'
<1>1. offices \in OfficesType /\ offices.front \in Seq(OfficeTrades) /\ offices.back \in Seq(OfficeTrades)
      /\ MatchedOK(offices.front, offices.back, offices.matched)
  BY DEF OfficesOK, OfficesType
<1>2. ASSUME NEW x \in OfficeTrades, record_front_office(x) PROVE OfficesOK(offices')
  <2> DEFINE f == Append(offices.front, x)
             a == [offices EXCEPT !.front = f]
  <2>1. f \in Seq(OfficeTrades)
    BY <1>1
  <2>2. MatchedOK(f, offices.back, offices.matched)
    BY <1>1, MatchedGrows
  <2>3. offices' = [a EXCEPT !.ran = FALSE]
    BY <1>1, <1>2 DEF record_front_office, OfficesType
  <2> HIDE DEF f
  <2>4. a \in OfficesType /\ a.front = f /\ a.back = offices.back /\ a.matched = offices.matched
    BY ONLY <1>1, <2>1 DEF OfficesType
  <2> HIDE DEF a
  <2>5. offices' \in OfficesType /\ offices'.front = f /\ offices'.back = a.back /\ offices'.matched = a.matched
        /\ ~offices'.ran
    BY ONLY <2>3, <2>4 DEF OfficesType
  <2> QED BY <2>2, <2>4, <2>5 DEF OfficesOK
<1>3. ASSUME NEW x \in OfficeTrades, record_back_office(x) PROVE OfficesOK(offices')
  <2> DEFINE f == Append(offices.back, x)
             a == [offices EXCEPT !.back = f]
  <2>1. f \in Seq(OfficeTrades)
    BY <1>1
  <2>2. MatchedOK(offices.front, f, offices.matched)
    BY <1>1, MatchedGrows
  <2>3. offices' = [a EXCEPT !.ran = FALSE]
    BY <1>1, <1>3 DEF record_back_office, OfficesType
  <2> HIDE DEF f
  <2>4. a \in OfficesType /\ a.back = f /\ a.front = offices.front /\ a.matched = offices.matched
    BY ONLY <1>1, <2>1 DEF OfficesType
  <2> HIDE DEF a
  <2>5. offices' \in OfficesType /\ offices'.back = f /\ offices'.front = a.front /\ offices'.matched = a.matched
        /\ ~offices'.ran
    BY ONLY <2>3, <2>4 DEF OfficesType
  <2> QED BY <2>2, <2>4, <2>5 DEF OfficesOK
<1> QED BY <1>2, <1>3, ReconcileOK DEF OfficesNext

LEMMA OfficesStart == ASSUME OfficesInit PROVE OfficesOK(offices)
<1>1. << >> \in Seq(OfficeTrades) /\ << >> \in Seq(Breaks)
  OBVIOUS
<1> QED BY <1>1 DEF OfficesInit, OfficesOK, OfficesType, MatchedOK

-----------------------------------------------------------------------------
(***************************************************************************)
(* The latency watchdog.                                                   *)
(***************************************************************************)
\* The samples a sorted run of them leaves above its entry x.
SortedOver(s, t) ==
    /\ t \in Seq(Nat) /\ Len(t) = Len(s) /\ Ascends(t, Len(s))
    /\ \A i \in 1 .. Len(s) : \E j \in 1 .. Len(s) : t[i] = s[j]
    /\ \A x \in 1 .. Len(s) : /\ Cardinality({i \in 1 .. Len(s) : s[i] > t[x]}) \in Nat
                              /\ Cardinality({i \in 1 .. Len(s) : s[i] > t[x]}) <= Len(s) - x
    /\ \A i \in 1 .. Len(s) : s[i] <= t[Len(s)]

LEMMA LatenciesSort ==
    ASSUME watchdog.samples \in Seq(Nat)
    PROVE  SortedOver(watchdog.samples, sorted_latencies)
<1> DEFINE s == watchdog.samples
           n == Len(s)
           P == CHOOSE p \in Surjection(DOMAIN s, DOMAIN s) :
                  \A i, j \in DOMAIN s : i < j => s[p[i]] <= s[p[j]]
           t == [i \in 1 .. n |-> s[P[i]]]
<1>1. n \in Nat /\ DOMAIN s = 1 .. n /\ \A i \in 1 .. n : s[i] \in Nat
  OBVIOUS
<1>2. sorted_latencies = t
  BY <1>1 DEF sorted_latencies
<1>3. PICK p : SortedBy(s, n, p)
  BY <1>1, SortExists
<1>4. p \in Surjection(DOMAIN s, DOMAIN s)
  BY <1>1, <1>3 DEF SortedBy, Surjection
<1>5. \A i, j \in DOMAIN s : i < j => s[p[i]] <= s[p[j]]
  BY <1>1, <1>3 DEF SortedBy
<1>6. P \in Surjection(DOMAIN s, DOMAIN s) /\ \A i, j \in DOMAIN s : i < j => s[P[i]] <= s[P[j]]
  BY <1>4, <1>5
<1> HIDE DEF P, s
<1>7. P \in [1 .. n -> 1 .. n] /\ \A j \in 1 .. n : \E i \in 1 .. n : P[i] = j
  BY <1>1, <1>6 DEF Surjection
<1> HIDE DEF n
<1>8. t \in [1 .. n -> Nat] /\ \A i \in 1 .. n : t[i] = s[P[i]]
  BY <1>1, <1>7
<1> HIDE DEF t
<1>9. t \in Seq(Nat) /\ Len(t) = n
  BY <1>1, <1>8 DEF Seq
<1>10. Ascends(t, n)
  <2>1. ASSUME NEW i \in 1 .. n, NEW j \in 1 .. n, i < j PROVE t[i] <= t[j]
    <3>1. t[i] = s[P[i]] /\ t[j] = s[P[j]]
      BY ONLY <1>8
    <3>2. s[P[i]] <= s[P[j]]
      BY ONLY <1>1, <1>6, <2>1
    <3> QED BY ONLY <3>1, <3>2
  <2> QED BY ONLY <2>1 DEF Ascends
<1>11. ASSUME NEW x \in 1 .. n
       PROVE  /\ Cardinality({i \in 1 .. n : s[i] > t[x]}) \in Nat
              /\ Cardinality({i \in 1 .. n : s[i] > t[x]}) <= n - x
  <2> DEFINE A == {i \in 1 .. n : s[i] > t[x]}
             B == {i \in 1 .. n : t[i] > t[x]}
             C == x + 1 .. n
             g == [i \in B |-> P[i]]
  <2>1. IsFiniteSet(1 .. n) /\ IsFiniteSet(C) /\ Cardinality(C) = n - x
    <3>1. IsFiniteSet(C) /\ Cardinality(C) = IF x + 1 > n THEN 0 ELSE n - (x + 1) + 1
      BY <1>1, FS_Interval
    <3>2. IsFiniteSet(1 .. n)
      BY <1>1, FS_Interval
    <3> QED BY <1>1, <3>1, <3>2
  <2>2. B \subseteq C
    <3> SUFFICES ASSUME NEW i \in 1 .. n, t[i] > t[x] PROVE i > x
      BY <1>1
    <3>1. CASE i < x
      BY <1>1, <1>8, <1>10, <3>1 DEF Ascends
    <3>2. CASE i = x
      BY <1>8, <3>2
    <3> QED BY <1>1, <3>1, <3>2
  <2>3. IsFiniteSet(B) /\ Cardinality(B) <= n - x /\ Cardinality(B) \in Nat
    <3> HIDE DEF B, C
    <3>1. IsFiniteSet(B) /\ Cardinality(B) <= Cardinality(C)
      BY ONLY <2>1, <2>2, FS_Subset
    <3>2. Cardinality(B) \in Nat
      BY ONLY <3>1, FS_CardinalityType
    <3> QED BY ONLY <2>1, <3>1, <3>2
  <2>4. g \in Surjection(B, A)
    <3>1. ASSUME NEW i \in B PROVE g[i] \in A
      BY <1>7, <1>8
    <3>2. ASSUME NEW j \in A PROVE \E i \in B : g[i] = j
      <4>1. PICK i \in 1 .. n : P[i] = j
        BY <1>7
      <4>2. t[i] = s[j]
        BY <1>8, <4>1
      <4> QED BY <4>1, <4>2
    <3>3. g \in [B -> A]
      BY <3>1
    <3> HIDE DEF g, A, B
    <3> QED BY <3>2, <3>3 DEF Surjection
  <2> HIDE DEF g, A, B
  <2>5. IsFiniteSet(A) /\ Cardinality(A) <= Cardinality(B)
    BY <2>3, <2>4, FS_Surjection
  <2>6. Cardinality(A) \in Nat
    BY <2>5, FS_CardinalityType
  <2>7. Cardinality(A) <= n - x
    BY <1>1, <2>3, <2>5, <2>6
  <2> QED BY <2>6, <2>7 DEF A
<1>12. ASSUME NEW i \in 1 .. n PROVE s[i] <= t[n]
  <2>1. PICK k \in 1 .. n : P[k] = i
    BY <1>7
  <2>4. t[k] = s[i]
    BY ONLY <1>8, <2>1
  <2>2. n \in 1 .. n /\ (k < n \/ k = n)
    BY ONLY <1>1, k \in 1 .. n
  <2>3. t[k] \in Nat
    BY <1>8
  <2> QED BY <1>10, <2>2, <2>3, <2>4 DEF Ascends
<1>13. \A i \in 1 .. n : \E j \in 1 .. n : t[i] = s[j]
  BY <1>7, <1>8
<1>14. SortedOver(s, t)
  BY <1>9, <1>10, <1>11, <1>12, <1>13 DEF SortedOver, n
<1> QED BY <1>2, <1>14 DEF s

\* An anomaly is counted when, and only when, some sample is above the threshold.
WatchdogOK(w) ==
    /\ w \in [samples : Seq(Nat), anomalies : Nat]
    /\ w.anomalies > 0 <=> \E i \in 1 .. Len(w.samples) : w.samples[i] > Threshold

LEMMA WatchdogKeeps == ASSUME WatchdogOK(watchdog), WatchdogNext PROVE WatchdogOK(watchdog)'
<1>1. ASSUME NEW latency \in Samples, record_sample(latency) PROVE WatchdogOK(watchdog')
  <2> DEFINE s == watchdog.samples
             n == Len(s)
             a == watchdog.anomalies
             u == Append(s, latency)
             b == a + (IF latency > Threshold THEN 1 ELSE 0)
  <2>1. /\ s \in Seq(Nat) /\ a \in Nat /\ latency \in Nat /\ Threshold \in Nat
        /\ a > 0 <=> \E i \in 1 .. n : s[i] > Threshold
    BY SessionAssumption DEF WatchdogOK
  <2>2. watchdog' = [samples |-> u, anomalies |-> b]
    BY <1>1 DEF record_sample
  <2> HIDE DEF s, a
  <2>3. /\ u \in Seq(Nat) /\ Len(u) = n + 1 /\ u[n + 1] = latency /\ n \in Nat /\ \A i \in 1 .. n : u[i] = s[i]
        /\ b \in Nat /\ \A i \in 1 .. n + 1 : i \in 1 .. n \/ i = n + 1
    BY <2>1
  <2>4. b > 0 <=> a > 0 \/ latency > Threshold
    BY <2>1
  <2> HIDE DEF u, b, n
  <2>5. (\E i \in 1 .. n + 1 : u[i] > Threshold) <=> (\E i \in 1 .. n : s[i] > Threshold) \/ latency > Threshold
    <3>1. \A i \in 1 .. n : i \in 1 .. n + 1
      BY <2>3
    <3>2. n + 1 \in 1 .. n + 1
      BY <2>3
    <3> QED BY <2>3, <3>1, <3>2
  <2>6. b > 0 <=> \E i \in 1 .. Len(u) : u[i] > Threshold
    BY ONLY <2>1, <2>3, <2>4, <2>5
  <2> QED BY <2>2, <2>3, <2>6 DEF WatchdogOK
<1>2. ASSUME watchdog_reset PROVE WatchdogOK(watchdog')
  <2>1. watchdog' = [samples |-> << >>, anomalies |-> 0]
    BY <1>2 DEF watchdog_reset
  <2>2. << >> \in Seq(Nat) /\ Len(<< >>) = 0
    OBVIOUS
  <2> QED BY <2>1, <2>2 DEF WatchdogOK
<1>3. WatchdogOK(watchdog')
  BY <1>1, <1>2 DEF WatchdogNext
<1> QED BY <1>3

LEMMA WatchdogStarts == ASSUME WatchdogInit PROVE WatchdogOK(watchdog)
<1>1. << >> \in Seq(Nat) /\ Len(<< >>) = 0
  OBVIOUS
<1> QED BY <1>1 DEF WatchdogInit, WatchdogOK

\* Where the percentiles of n samples are read.
LEMMA PercentilePlaces ==
    ASSUME NEW n \in Nat \ {0}
    PROVE  LET a == n \div 2 + 1
               b == Min({(n * 99) \div 100, n - 1}) + 1
           IN  /\ a \in 1 .. n /\ b \in 1 .. n /\ a <= b /\ 2 * (n - a) <= n /\ 100 * (n - b) <= n
<1> DEFINE k == n \div 2
           h == (n * 99) \div 100
<1>1. k \in Nat /\ 2 * k <= n /\ n < 2 * k + 2
  OBVIOUS
<1>2. h \in Nat /\ 100 * h <= 99 * n /\ 99 * n < 100 * h + 100
  OBVIOUS
<1> HIDE DEF k, h
<1>3. h <= n - 1 /\ n - 1 \in Int /\ h \in Int
  BY <1>2
<1>4. Min({h, n - 1}) = h
  BY <1>3, MinOfTwo
<1>5. k + 1 \in 1 .. n /\ h + 1 \in 1 .. n /\ k + 1 <= h + 1 /\ 2 * (n - (k + 1)) <= n /\ 100 * (n - (h + 1)) <= n
  BY <1>1, <1>2, <1>3
<1> QED BY <1>4, <1>5 DEF k, h

LEMMA WatchdogSuffices == ASSUME WatchdogOK(watchdog) PROVE ReportHolds
<1> DEFINE s == watchdog.samples
           n == Len(s)
           t == sorted_latencies
           a == n \div 2 + 1
           b == Min({(n * 99) \div 100, n - 1}) + 1
           r == generate_report
           Over(p) == Cardinality({i \in 1 .. n : s[i] > p})
<1>1. s \in Seq(Nat) /\ n \in Nat /\ (watchdog.anomalies > 0 <=> \E i \in 1 .. n : s[i] > Threshold)
  BY DEF WatchdogOK
<1>2. SUFFICES ASSUME n > 0
               PROVE  /\ {r.p50, r.p99, r.max} \subseteq ToSet(s)
                      /\ r.p50 <= r.p99 /\ r.p99 <= r.max /\ Over(r.max) = 0
                      /\ 2 * Over(r.p50) <= n /\ 100 * Over(r.p99) <= n
                      /\ r.violated <=> r.max > Threshold
  BY DEF ReportHolds
<1>3. a \in 1 .. n /\ b \in 1 .. n /\ a <= b /\ 2 * (n - a) <= n /\ 100 * (n - b) <= n /\ n \in 1 .. n
  <2>1. n \in Nat \ {0}
    BY <1>1, <1>2
  <2> HIDE DEF n
  <2> QED BY <2>1, PercentilePlaces
<1>4. SortedOver(s, t)
  BY <1>1, LatenciesSort
<1>5. r.p50 = t[a] /\ r.p99 = t[b] /\ r.max = t[n] /\ (r.violated <=> watchdog.anomalies > 0)
  <2>1. n # 0
    BY <1>1, <1>2
  <2>2. r = [p50 |-> t[a], p99 |-> t[b], max |-> t[n], violated |-> watchdog.anomalies > 0]
    BY <2>1 DEF generate_report
  <2> HIDE DEF r, a, b, t, n, s
  <2> QED BY <2>2
<1>6. ToSet(s) = {s[i] : i \in 1 .. n}
  BY <1>1 DEF ToSet
<1> HIDE DEF r, a, b, t
<1>7. /\ \A i \in 1 .. n : t[i] \in Nat /\ \E j \in 1 .. n : t[i] = s[j]
      /\ \A x \in 1 .. n : Over(t[x]) \in Nat /\ Over(t[x]) <= n - x
      /\ \A i \in 1 .. n : s[i] <= t[n]
      /\ \A i, j \in 1 .. n : i < j => t[i] <= t[j]
  <2>1. t \in Seq(Nat) /\ Len(t) = n
    BY <1>4 DEF SortedOver
  <2>2. \A i \in 1 .. n : t[i] \in Nat
    BY <2>1
  <2>3. \A i \in 1 .. n : \E j \in 1 .. n : t[i] = s[j]
    BY <1>4 DEF SortedOver
  <2>4. \A x \in 1 .. n : Over(t[x]) \in Nat /\ Over(t[x]) <= n - x
    BY <1>4 DEF SortedOver
  <2>5. \A i \in 1 .. n : s[i] <= t[n]
    BY <1>4 DEF SortedOver
  <2>6. \A i, j \in 1 .. n : i < j => t[i] <= t[j]
    BY <1>4 DEF SortedOver, Ascends
  <2> HIDE DEF n, s, Over
  <2> QED BY <2>2, <2>3, <2>4, <2>5, <2>6
<1>8. {t[a], t[b], t[n]} \subseteq ToSet(s)
  BY <1>3, <1>6, <1>7
<1> HIDE DEF n, Over
<1>9. t[a] <= t[b] /\ t[b] <= t[n]
  <2>1. a = b \/ a < b
    BY <1>1, <1>3
  <2>2. b = n \/ b < n
    BY <1>1, <1>3
  <2>3. t[a] \in Nat /\ t[b] \in Nat
    BY <1>3, <1>7
  <2> QED BY <1>3, <1>7, <2>1, <2>2, <2>3
<1>10. Over(t[n]) = 0
  <2>1. Over(t[n]) \in Nat /\ Over(t[n]) <= n - n
    BY <1>3, <1>7
  <2> QED BY <1>1, <2>1
<1>11. 2 * Over(t[a]) <= n /\ 100 * Over(t[b]) <= n
  <2>1. Over(t[a]) \in Nat /\ Over(t[a]) <= n - a /\ Over(t[b]) \in Nat /\ Over(t[b]) <= n - b
    BY <1>3, <1>7
  <2> DEFINE x == Over(t[a])
             y == Over(t[b])
  <2>2. x \in Nat /\ y \in Nat /\ x <= n - a /\ y <= n - b
    BY ONLY <2>1
  <2>3. n \in Nat /\ a \in Nat /\ b \in Nat /\ 2 * (n - a) <= n /\ 100 * (n - b) <= n
    BY ONLY <1>1, <1>3
  <2> HIDE DEF x, y
  <2>4. 2 * x <= n /\ 100 * y <= n
    BY ONLY <2>2, <2>3
  <2> QED BY ONLY <2>4 DEF x, y
<1>12. (\E i \in 1 .. n : s[i] > Threshold) <=> t[n] > Threshold
  <2>1. ASSUME NEW i \in 1 .. n, s[i] > Threshold PROVE t[n] > Threshold
    <3>2. s[i] \in Nat
      BY <1>1 DEF n
    <3>3. Threshold \in Nat
      BY SessionAssumption
    <3>1. s[i] \in Nat /\ t[n] \in Nat /\ Threshold \in Nat /\ s[i] <= t[n]
      BY ONLY <1>3, <1>7, <3>2, <3>3, i \in 1 .. n
    <3> QED BY <2>1, <3>1
  <2>2. ASSUME t[n] > Threshold PROVE \E i \in 1 .. n : s[i] > Threshold
    BY <1>3, <1>7, <2>2
  <2> QED BY <2>1, <2>2
<1>13. r.violated <=> r.max > Threshold
  BY <1>1, <1>5, <1>12
<1> QED BY <1>5, <1>8, <1>9, <1>10, <1>11, <1>13

-----------------------------------------------------------------------------
(***************************************************************************)
(* OUCH packets.                                                           *)
(***************************************************************************)
IsBytes(b) == b = [i \in 0 .. 63 |-> b[i]]
Carries(b, o, w, v) == \A i \in o .. o + w - 1 : b[i] = <<v, i - o>>

LEMMA CarriesField ==
    ASSUME NEW b, NEW o \in Nat, NEW w \in Nat \ {0}, NEW v, Carries(b, o, w, v)
    PROVE  Field(b, o, w) = v
<1>1. o \in o .. o + w - 1 /\ b[o] = <<v, o - o>>
  BY DEF Carries
<1>2. b[o][1] = v
  BY <1>1
<1>3. ASSUME NEW k \in 0 .. w - 1 PROVE b[o + k] = <<v, k>>
  <2>1. o + k \in o .. o + w - 1 /\ (o + k) - o = k
    OBVIOUS
  <2> QED BY <2>1 DEF Carries
<1> QED BY <1>2, <1>3 DEF Field

\* A store fills its own bytes and leaves the others.
StoredAs(b, o, w, v, s) ==
    /\ IsBytes(s) /\ Carries(s, o, w, v)
    /\ \A i \in 0 .. 63 : i < o \/ i >= o + w => s[i] = b[i]

LEMMA StoreIs ==
    ASSUME NEW b, IsBytes(b), NEW o \in Nat, NEW w \in Nat, o + w <= 64, NEW v
    PROVE  StoredAs(b, o, w, v, Store(b, o, w, v))
<1> DEFINE s == Store(b, o, w, v)
<1>1. DOMAIN b = 0 .. 63
  BY DEF IsBytes
<1>2. s = [i \in 0 .. 63 |-> IF i \in o .. o + w - 1 THEN <<v, i - o>> ELSE b[i]]
  BY <1>1 DEF Store
<1> HIDE DEF s
<1>3. IsBytes(s)
  BY <1>2 DEF IsBytes
<1>4. Carries(s, o, w, v)
  <2> SUFFICES ASSUME NEW i \in o .. o + w - 1 PROVE s[i] = <<v, i - o>>
    BY DEF Carries
  <2>1. i \in 0 .. 63
    OBVIOUS
  <2> QED BY <1>2, <2>1
<1>5. \A i \in 0 .. 63 : i < o \/ i >= o + w => s[i] = b[i]
  BY <1>2
<1> QED BY <1>3, <1>4, <1>5 DEF StoredAs, s

LEMMA CarriesOn ==
    ASSUME NEW b, NEW o \in Nat, NEW w \in Nat, NEW v, NEW s, StoredAs(b, o, w, v, s),
           NEW p \in Nat, NEW x \in Nat, p + x <= 64, p + x <= o \/ o + w <= p, NEW y, Carries(b, p, x, y)
    PROVE  Carries(s, p, x, y)
<1> SUFFICES ASSUME NEW i \in p .. p + x - 1 PROVE s[i] = <<y, i - p>>
  BY DEF Carries
<1>1. i \in 0 .. 63 /\ (i < o \/ i >= o + w)
  OBVIOUS
<1> QED BY <1>1 DEF StoredAs, Carries

EnterCarries(b, i) ==
    /\ Carries(b, 1, 4, i.id) /\ Carries(b, 5, 1, i.side) /\ Carries(b, 6, 4, clamp_u32(i.qty))
    /\ Carries(b, 10, 8, i.symbol) /\ Carries(b, 18, 4, clamp_u32(i.price)) /\ Carries(b, 22, 4, i.tif)
    /\ Carries(b, 33, 4, 0)
ReplaceCarries(b, i) ==
    /\ Carries(b, 1, 4, i.original) /\ Carries(b, 5, 4, i.id) /\ Carries(b, 9, 4, clamp_u32(i.qty))
    /\ Carries(b, 13, 4, clamp_u32(i.price)) /\ Carries(b, 17, 4, i.tif) /\ Carries(b, 21, 1, 89)

OuchOK ==
    /\ IsBytes(packet.bytes)
    /\ intent.kind = "enter" => EnterCarries(packet.bytes, intent)
    /\ intent.kind = "replace" => ReplaceCarries(packet.bytes, intent)

LEMMA OuchSuffices == ASSUME OuchOK PROVE PacketCarriesIntent
<1> DEFINE b == packet.bytes
<1>1. ASSUME intent.kind = "enter"
      PROVE  /\ Field(b, 1, 4) = intent.id /\ Field(b, 5, 1) = intent.side
             /\ Field(b, 6, 4) = clamp_u32(intent.qty) /\ Field(b, 10, 8) = intent.symbol
             /\ Field(b, 18, 4) = clamp_u32(intent.price) /\ Field(b, 22, 4) = intent.tif /\ Field(b, 33, 4) = 0
  <2> HIDE DEF b
  <2>1. EnterCarries(b, intent)
    BY <1>1 DEF OuchOK, b
  <2> QED BY <2>1, CarriesField DEF EnterCarries
<1>2. ASSUME intent.kind = "replace"
      PROVE  /\ Field(b, 1, 4) = intent.original /\ Field(b, 5, 4) = intent.id
             /\ Field(b, 9, 4) = clamp_u32(intent.qty) /\ Field(b, 13, 4) = clamp_u32(intent.price)
             /\ Field(b, 17, 4) = intent.tif /\ Field(b, 21, 1) = 89
  <2> HIDE DEF b
  <2>1. ReplaceCarries(b, intent)
    BY <1>2 DEF OuchOK, b
  <2> QED BY <2>1, CarriesField DEF ReplaceCarries
<1> QED BY <1>1, <1>2 DEF PacketCarriesIntent, EnterOffsets, ReplaceOffsets

LEMMA ZeroBytes == IsBytes(Zeroes)
BY DEF IsBytes, Zeroes

LEMMA TemplateIs ==
    ASSUME NEW symbol, NEW side, NEW t, t = init_template(symbol, side)
    PROVE  IsBytes(t) /\ Carries(t, 5, 1, side) /\ Carries(t, 10, 8, symbol) /\ Carries(t, 33, 4, 0)
<1> DEFINE a == Store(Zeroes, 0, 1, 79)
           b == Store(a, 5, 1, side)
           c == Store(b, 10, 8, symbol)
           d == Store(c, 22, 4, 0)
           e == Store(d, 26, 4, 76)
           f == Store(e, 30, 1, 89)
           g == Store(f, 31, 1, 65)
           h == Store(g, 32, 1, 78)
           k == Store(h, 33, 4, 0)
           l == Store(k, 37, 1, 78)
           m == Store(l, 38, 1, 32)
<1>0. t = m
  BY DEF init_template, EnterOffsets, store_u32_be
<1>1. StoredAs(Zeroes, 0, 1, 79, a)
  BY ZeroBytes, StoreIs
<1> HIDE DEF a
<1>2. StoredAs(a, 5, 1, side, b)
  <2>1. IsBytes(a)
    BY ONLY <1>1 DEF StoredAs
  <2> QED BY <2>1, StoreIs
<1> HIDE DEF b
<1>3. StoredAs(b, 10, 8, symbol, c)
  <2>1. IsBytes(b)
    BY ONLY <1>2 DEF StoredAs
  <2> QED BY <2>1, StoreIs
<1> HIDE DEF c
<1>4. StoredAs(c, 22, 4, 0, d)
  <2>1. IsBytes(c)
    BY ONLY <1>3 DEF StoredAs
  <2> QED BY <2>1, StoreIs
<1> HIDE DEF d
<1>5. StoredAs(d, 26, 4, 76, e)
  <2>1. IsBytes(d)
    BY ONLY <1>4 DEF StoredAs
  <2> QED BY <2>1, StoreIs
<1> HIDE DEF e
<1>6. StoredAs(e, 30, 1, 89, f)
  <2>1. IsBytes(e)
    BY ONLY <1>5 DEF StoredAs
  <2> QED BY <2>1, StoreIs
<1> HIDE DEF f
<1>7. StoredAs(f, 31, 1, 65, g)
  <2>1. IsBytes(f)
    BY ONLY <1>6 DEF StoredAs
  <2> QED BY <2>1, StoreIs
<1> HIDE DEF g
<1>8. StoredAs(g, 32, 1, 78, h)
  <2>1. IsBytes(g)
    BY ONLY <1>7 DEF StoredAs
  <2> QED BY <2>1, StoreIs
<1> HIDE DEF h
<1>9. StoredAs(h, 33, 4, 0, k)
  <2>1. IsBytes(h)
    BY ONLY <1>8 DEF StoredAs
  <2> QED BY <2>1, StoreIs
<1> HIDE DEF k
<1>10. StoredAs(k, 37, 1, 78, l)
  <2>1. IsBytes(k)
    BY ONLY <1>9 DEF StoredAs
  <2> QED BY <2>1, StoreIs
<1> HIDE DEF l
<1>11. StoredAs(l, 38, 1, 32, m)
  <2>1. IsBytes(l)
    BY ONLY <1>10 DEF StoredAs
  <2> QED BY <2>1, StoreIs
<1> HIDE DEF m
\* What the later stores leave.
<1>12. \A i \in 5 .. 17 : i \in 0 .. 63 /\ i < 22
  OBVIOUS
<1>13. \A i \in 5 .. 17 : m[i] = c[i]
  BY ONLY <1>4, <1>5, <1>6, <1>7, <1>8, <1>9, <1>10, <1>11, <1>12 DEF StoredAs
<1>14. \A i \in 33 .. 36 : m[i] = k[i]
  BY ONLY <1>10, <1>11 DEF StoredAs
<1>15. c[5] = b[5]
  BY ONLY <1>3 DEF StoredAs
<1>16. m[5] = <<side, 5 - 5>>
  <2>1. b[5] = <<side, 5 - 5>>
    BY ONLY <1>2 DEF StoredAs, Carries
  <2> QED BY <1>13, <1>15, <2>1
<1>17. \A i \in 10 .. 17 : m[i] = <<symbol, i - 10>>
  <2>1. \A i \in 10 .. 17 : c[i] = <<symbol, i - 10>>
    BY ONLY <1>3 DEF StoredAs, Carries
  <2> QED BY <1>13, <2>1
<1>18. \A i \in 33 .. 36 : m[i] = <<0, i - 33>>
  <2>1. \A i \in 33 .. 36 : k[i] = <<0, i - 33>>
    BY ONLY <1>9 DEF StoredAs, Carries
  <2> QED BY <1>14, <2>1
<1>19. IsBytes(m)
  BY ONLY <1>11 DEF StoredAs
<1> QED BY <1>0, <1>16, <1>17, <1>18, <1>19 DEF Carries

LEMMA EnterIs ==
    ASSUME IsBytes(packet.bytes), NEW i \in OuchIntents, build_enter_order(i)
    PROVE  OuchOK'
<1> DEFINE t == init_template(i.symbol, i.side)
           a == [k \in 0 .. 63 |-> IF k < kEnterOrderLen THEN t[k] ELSE packet.bytes[k]]
           q == clamp_u32(i.qty)
           p == clamp_u32(i.price)
           b == Store(a, 1, 4, i.id)
           c == Store(b, 6, 4, q)
           d == Store(c, 18, 4, p)
           e == Store(d, 22, 4, i.tif)
<1>0. DOMAIN packet.bytes = 0 .. 63
  BY DEF IsBytes
<1>1. packet' = [len |-> kEnterOrderLen, bytes |-> e] /\ intent' = [i EXCEPT !.kind = "enter"]
  BY <1>0 DEF build_enter_order, EnterOffsets, store_u32_be
<1>2. Carries(t, 5, 1, i.side) /\ Carries(t, 10, 8, i.symbol) /\ Carries(t, 33, 4, 0)
  BY TemplateIs
<1> HIDE DEF t, q, p
<1>3. IsBytes(a) /\ \A k \in 0 .. 47 : a[k] = t[k]
  BY DEF IsBytes, kEnterOrderLen
<1> HIDE DEF a
<1>4. StoredAs(a, 1, 4, i.id, b)
  BY <1>3, StoreIs
<1> HIDE DEF b
<1>5. StoredAs(b, 6, 4, q, c)
  <2>1. IsBytes(b)
    BY ONLY <1>4 DEF StoredAs
  <2> QED BY <2>1, StoreIs
<1> HIDE DEF c
<1>6. StoredAs(c, 18, 4, p, d)
  <2>1. IsBytes(c)
    BY ONLY <1>5 DEF StoredAs
  <2> QED BY <2>1, StoreIs
<1> HIDE DEF d
<1>7. StoredAs(d, 22, 4, i.tif, e)
  <2>1. IsBytes(d)
    BY ONLY <1>6 DEF StoredAs
  <2> QED BY <2>1, StoreIs
<1> HIDE DEF e
<1>8. Carries(a, 5, 1, i.side) /\ Carries(a, 10, 8, i.symbol) /\ Carries(a, 33, 4, 0)
  BY ONLY <1>2, <1>3 DEF Carries
<1>9. Carries(b, 5, 1, i.side) /\ Carries(b, 10, 8, i.symbol) /\ Carries(b, 33, 4, 0) /\ Carries(b, 1, 4, i.id)
  <2>1. Carries(b, 1, 4, i.id)
    BY ONLY <1>4 DEF StoredAs
  <2> QED BY ONLY <1>4, <1>8, <2>1, CarriesOn
<1>10. /\ Carries(c, 5, 1, i.side) /\ Carries(c, 10, 8, i.symbol) /\ Carries(c, 33, 4, 0) /\ Carries(c, 1, 4, i.id)
       /\ Carries(c, 6, 4, q)
  <2>1. Carries(c, 6, 4, q)
    BY ONLY <1>5 DEF StoredAs
  <2> QED BY ONLY <1>5, <1>9, <2>1, CarriesOn
<1>11. /\ Carries(d, 5, 1, i.side) /\ Carries(d, 10, 8, i.symbol) /\ Carries(d, 33, 4, 0) /\ Carries(d, 1, 4, i.id)
       /\ Carries(d, 6, 4, q) /\ Carries(d, 18, 4, p)
  <2>1. Carries(d, 18, 4, p)
    BY ONLY <1>6 DEF StoredAs
  <2> QED BY ONLY <1>6, <1>10, <2>1, CarriesOn
<1>12. /\ Carries(e, 5, 1, i.side) /\ Carries(e, 10, 8, i.symbol) /\ Carries(e, 33, 4, 0) /\ Carries(e, 1, 4, i.id)
       /\ Carries(e, 6, 4, q) /\ Carries(e, 18, 4, p) /\ Carries(e, 22, 4, i.tif) /\ IsBytes(e)
  <2>1. Carries(e, 22, 4, i.tif) /\ IsBytes(e)
    BY ONLY <1>7 DEF StoredAs
  <2> QED BY ONLY <1>7, <1>11, <2>1, CarriesOn
<1>13. /\ intent'.kind = "enter" /\ intent'.id = i.id /\ intent'.side = i.side /\ intent'.qty = i.qty
       /\ intent'.symbol = i.symbol /\ intent'.price = i.price /\ intent'.tif = i.tif
  BY <1>1 DEF OuchIntents
<1>14. packet'.bytes = e
  BY <1>1
<1>15. EnterCarries(packet'.bytes, intent')
  BY <1>12, <1>13, <1>14 DEF EnterCarries, q, p
<1> QED BY <1>12, <1>13, <1>14, <1>15 DEF OuchOK

LEMMA ReplaceIs ==
    ASSUME NEW i \in OuchIntents, build_replace_order(i)
    PROVE  OuchOK'
<1> DEFINE q == clamp_u32(i.qty)
           p == clamp_u32(i.price)
           z == Store(Zeroes, 0, 1, 85)
           a == Store(z, 1, 4, i.original)
           b == Store(a, 5, 4, i.id)
           c == Store(b, 9, 4, q)
           d == Store(c, 13, 4, p)
           e == Store(d, 17, 4, i.tif)
           f == Store(e, 21, 1, 89)
<1>1. packet' = [len |-> kReplaceOrderLen, bytes |-> f] /\ intent' = [i EXCEPT !.kind = "replace"]
  BY DEF build_replace_order, ReplaceOffsets, store_u32_be
<1> HIDE DEF q, p
<1>2. StoredAs(Zeroes, 0, 1, 85, z)
  BY ZeroBytes, StoreIs
<1> HIDE DEF z
<1>3. StoredAs(z, 1, 4, i.original, a)
  <2>1. IsBytes(z)
    BY ONLY <1>2 DEF StoredAs
  <2> QED BY <2>1, StoreIs
<1> HIDE DEF a
<1>4. StoredAs(a, 5, 4, i.id, b)
  <2>1. IsBytes(a)
    BY ONLY <1>3 DEF StoredAs
  <2> QED BY <2>1, StoreIs
<1> HIDE DEF b
<1>5. StoredAs(b, 9, 4, q, c)
  <2>1. IsBytes(b)
    BY ONLY <1>4 DEF StoredAs
  <2> QED BY <2>1, StoreIs
<1> HIDE DEF c
<1>6. StoredAs(c, 13, 4, p, d)
  <2>1. IsBytes(c)
    BY ONLY <1>5 DEF StoredAs
  <2> QED BY <2>1, StoreIs
<1> HIDE DEF d
<1>7. StoredAs(d, 17, 4, i.tif, e)
  <2>1. IsBytes(d)
    BY ONLY <1>6 DEF StoredAs
  <2> QED BY <2>1, StoreIs
<1> HIDE DEF e
<1>8. StoredAs(e, 21, 1, 89, f)
  <2>1. IsBytes(e)
    BY ONLY <1>7 DEF StoredAs
  <2> QED BY <2>1, StoreIs
<1> HIDE DEF f
<1>9. Carries(a, 1, 4, i.original)
  BY ONLY <1>3 DEF StoredAs
<1>10. Carries(b, 1, 4, i.original) /\ Carries(b, 5, 4, i.id)
  <2>1. Carries(b, 5, 4, i.id)
    BY ONLY <1>4 DEF StoredAs
  <2> QED BY ONLY <1>4, <1>9, <2>1, CarriesOn
<1>11. Carries(c, 1, 4, i.original) /\ Carries(c, 5, 4, i.id) /\ Carries(c, 9, 4, q)
  <2>1. Carries(c, 9, 4, q)
    BY ONLY <1>5 DEF StoredAs
  <2> QED BY ONLY <1>5, <1>10, <2>1, CarriesOn
<1>12. Carries(d, 1, 4, i.original) /\ Carries(d, 5, 4, i.id) /\ Carries(d, 9, 4, q) /\ Carries(d, 13, 4, p)
  <2>1. Carries(d, 13, 4, p)
    BY ONLY <1>6 DEF StoredAs
  <2> QED BY ONLY <1>6, <1>11, <2>1, CarriesOn
<1>13. /\ Carries(e, 1, 4, i.original) /\ Carries(e, 5, 4, i.id) /\ Carries(e, 9, 4, q) /\ Carries(e, 13, 4, p)
       /\ Carries(e, 17, 4, i.tif)
  <2>1. Carries(e, 17, 4, i.tif)
    BY ONLY <1>7 DEF StoredAs
  <2> QED BY ONLY <1>7, <1>12, <2>1, CarriesOn
<1>14. /\ Carries(f, 1, 4, i.original) /\ Carries(f, 5, 4, i.id) /\ Carries(f, 9, 4, q) /\ Carries(f, 13, 4, p)
       /\ Carries(f, 17, 4, i.tif) /\ Carries(f, 21, 1, 89) /\ IsBytes(f)
  <2>1. Carries(f, 21, 1, 89) /\ IsBytes(f)
    BY ONLY <1>8 DEF StoredAs
  <2> QED BY ONLY <1>8, <1>13, <2>1, CarriesOn
<1>15. /\ intent'.kind = "replace" /\ intent'.id = i.id /\ intent'.original = i.original /\ intent'.qty = i.qty
       /\ intent'.price = i.price /\ intent'.tif = i.tif
  BY <1>1 DEF OuchIntents
<1>16. packet'.bytes = f
  BY <1>1
<1>17. ReplaceCarries(packet'.bytes, intent')
  BY <1>14, <1>15, <1>16 DEF ReplaceCarries, q, p
<1> QED BY <1>14, <1>15, <1>16, <1>17 DEF OuchOK

LEMMA OuchKeeps == ASSUME OuchOK, OuchNext PROVE OuchOK'
<1>1. IsBytes(packet.bytes)
  BY DEF OuchOK
<1> QED BY <1>1, EnterIs, ReplaceIs DEF OuchNext

LEMMA OuchStarts == ASSUME OuchInit PROVE OuchOK
<1>1. packet.bytes = Zeroes /\ intent.kind = "none"
  BY DEF OuchInit
<1> QED BY <1>1, ZeroBytes DEF OuchOK

-----------------------------------------------------------------------------
(***************************************************************************)
(* FIX messages.                                                           *)
(***************************************************************************)
FixPieces == [tag : Int, equals : BOOLEAN, val : [number : BOOLEAN, n : Nat], delim : {"soh", "bar", "end"}]

\* One kind of delimiter throughout; the last may be missing.
Plain(t) ==
    /\ t \in Seq(FixPieces) /\ t # << >> /\ t[1].tag = 8
    /\ \E d \in {"soh", "bar"} : \A i \in 1 .. Len(t) :
          /\ t[i].delim = d \/ (i = Len(t) /\ t[i].delim = "end")
          /\ t[i].equals /\ t[i].tag >= 0

LEMMA PlainEnds ==
    ASSUME NEW t, Plain(t), NEW p \in 1 .. Len(t)
    PROVE  ValueEnd(t, p) = p
<1> DEFINE n == Len(t)
           Q(d) == {q \in p .. n : t[q].delim = d}
           first(s) == CHOOSE q \in s : \A r \in s : q <= r
<1>1. n \in Nat /\ p \in p .. n
  BY DEF Plain
<1>2. PICK d \in {"soh", "bar"} : \A i \in 1 .. n : t[i].delim = d \/ (i = n /\ t[i].delim = "end")
  BY DEF Plain
<1>3. \A i \in p .. n : t[i].delim = d \/ (i = n /\ t[i].delim = "end")
  BY <1>1, <1>2
<1>4. \A c \in {"soh", "bar"} : c # d => Q(c) = {}
  BY <1>3
<1>6. ValueEnd(t, p) = IF Q("soh") # {} THEN first(Q("soh")) ELSE IF Q("bar") # {} THEN first(Q("bar")) ELSE n
  BY DEF ValueEnd
<1>7. CASE t[p].delim = d
  <2>1. p \in Q(d) /\ \A r \in Q(d) : r \in p .. n
    BY <1>1, <1>7
  <2> HIDE DEF Q
  <2>2. first(Q(d)) = p
    <3>1. \A r \in Q(d) : p <= r
      BY <1>1, <2>1
    <3>2. \A q \in Q(d) : (\A r \in Q(d) : q <= r) => q = p
      BY <1>1, <2>1
    <3> QED BY <2>1, <3>1, <3>2
  <2> HIDE DEF first
  <2>3. CASE d = "soh"
    BY <1>6, <2>1, <2>2, <2>3
  <2>4. CASE d = "bar"
    <3>1. Q("soh") = {}
      BY <1>4, <2>4
    <3> QED BY <1>6, <2>1, <2>2, <2>4, <3>1
  <2> QED BY <2>3, <2>4
<1>8. CASE t[p].delim # d
  <2>1. p = n /\ t[n].delim = "end"
    BY <1>1, <1>3, <1>8
  <2>2. p .. n = {n}
    BY <1>1, <2>1
  <2>3. Q("soh") = {} /\ Q("bar") = {}
    BY <2>1, <2>2
  <2> HIDE DEF Q, first
  <2> QED BY <1>6, <2>1, <2>3
<1> QED BY <1>7, <1>8

\* Every piece begins a field.
LEMMA PlainStarts ==
    ASSUME NEW t, Plain(t), kMaxFields \in Nat
    PROVE  /\ DOMAIN Starts(t) = 1 .. kMaxFields
           /\ \A k \in 1 .. kMaxFields : Starts(t)[k] = IF k <= Len(t) THEN k ELSE Len(t) + 1
<1> DEFINE n == Len(t)
           K == kMaxFields
           body(s) == [k \in 1 .. K |-> IF k = 1 THEN 1 ELSE IF s[k - 1] > n THEN s[k - 1]
                                        ELSE ValueEnd(t, s[k - 1]) + 1]
           g == [k \in 1 .. K |-> IF k <= n THEN k ELSE n + 1]
           begins == CHOOSE s : s = body(s)
<1>0. n \in Nat \ {0} /\ K \in Nat
  BY DEF Plain
<1>1. Starts(t) = begins
  BY DEF Starts
<1> HIDE DEF n, K
<1>2. \A p \in 1 .. n : ValueEnd(t, p) = p
  BY PlainEnds DEF n
<1>3. g = body(g)
  <2>1. ASSUME NEW k \in 1 .. K PROVE g[k] = body(g)[k]
    <3>1. CASE k = 1
      BY <1>0, <3>1
    <3>2. CASE k # 1 /\ k - 1 <= n
      <4>1. k - 1 \in 1 .. K /\ k - 1 \in 1 .. n /\ g[k - 1] = k - 1 /\ ~(k - 1 > n)
        BY <1>0, <3>2
      <4>2. body(g)[k] = ValueEnd(t, k - 1) + 1
        BY <3>2, <4>1
      <4>3. body(g)[k] = (k - 1) + 1
        BY <1>2, <4>1, <4>2
      <4>4. g[k] = k
        BY <1>0, <3>2
      <4> HIDE DEF body, g
      <4> QED BY <4>3, <4>4
    <3>3. CASE k # 1 /\ ~(k - 1 <= n)
      <4>1. k - 1 \in 1 .. K /\ g[k - 1] = n + 1 /\ n + 1 > n /\ g[k] = n + 1
        BY <1>0, <3>3
      <4>2. body(g)[k] = n + 1
        BY <3>3, <4>1
      <4> QED BY <4>1, <4>2
    <3> QED BY <3>1, <3>2, <3>3
  <2> QED BY <2>1
<1>4. begins = body(begins)
  <2> HIDE DEF body, g
  <2> QED BY <1>3
<1> HIDE DEF begins
<1>5. DOMAIN begins = 1 .. K
  BY <1>4
<1> DEFINE S == {k \in Nat : k >= 1 /\ k <= K => begins[k] = IF k <= n THEN k ELSE n + 1}
<1>6. 0 \in S
  OBVIOUS
<1>7. ASSUME NEW k \in Nat, k \in S PROVE k + 1 \in S
  <2> SUFFICES ASSUME k + 1 <= K PROVE begins[k + 1] = IF k + 1 <= n THEN k + 1 ELSE n + 1
    OBVIOUS
  <2>1. k + 1 \in 1 .. K /\ (k + 1) - 1 = k
    BY <1>0
  <2>2. begins[k + 1] = IF k + 1 = 1 THEN 1 ELSE IF begins[k] > n THEN begins[k] ELSE ValueEnd(t, begins[k]) + 1
    BY <1>4, <2>1
  <2>3. CASE k = 0
    BY <1>0, <2>2, <2>3
  <2>4. CASE k # 0 /\ k <= n
    <3>1. begins[k] = k /\ k \in 1 .. n /\ ~(k > n) /\ k + 1 # 1
      BY <1>0, <1>7, <2>1, <2>4
    <3>2. begins[k + 1] = ValueEnd(t, k) + 1
      BY <2>2, <3>1
    <3>3. begins[k + 1] = k + 1
      BY <1>2, <3>1, <3>2
    <3> QED BY <1>0, <2>4, <3>3
  <2>5. CASE k # 0 /\ ~(k <= n)
    <3>1. begins[k] = n + 1 /\ n + 1 > n /\ k + 1 # 1 /\ ~(k + 1 <= n)
      BY <1>0, <1>7, <2>1, <2>5
    <3> QED BY <2>2, <3>1
  <2> QED BY <2>3, <2>4, <2>5
<1>8. \A k \in Nat : k \in S
  <2> HIDE DEF S
  <2> QED BY <1>6, <1>7, NatSetInduction
<1>9. \A k \in 1 .. K : begins[k] = IF k <= n THEN k ELSE n + 1
  BY <1>0, <1>8
<1> QED BY <1>1, <1>5, <1>9 DEF n, K

Fields(t) == IF Len(t) < kMaxFields THEN Len(t) ELSE kMaxFields

\* A plain text gives one field for each piece.
LEMMA PlainParses ==
    ASSUME NEW t, Plain(t), kMaxFields \in Nat
    PROVE  parse(t) = [k \in 1 .. Fields(t) |-> [tag |-> t[k].tag, val |-> [i \in k .. k |-> t[i].val]]]
<1> DEFINE n == Len(t)
           K == kMaxFields
           m == Fields(t)
           begins == Starts(t)
           rest(p) == \A q \in p .. n : ~t[q].equals
           A == {k \in DOMAIN begins : begins[k] <= n /\ ~rest(begins[k])}
           total == Cardinality(A)
           bad == \/ t = << >> \/ t[1].tag # 8 \/ total = 0
                  \/ \E k \in 1 .. total : ~t[begins[k]].equals \/ t[begins[k]].tag < 0
<1>0. n \in Nat \ {0} /\ K \in Nat /\ m \in Nat /\ m <= n /\ m <= K /\ (m < K => m = n)
  BY DEF Plain, Fields
<1>1. parse(t) = IF bad THEN << >> ELSE [k \in 1 .. total |-> FieldAt(t, begins[k])]
  BY DEF parse
<1>2. DOMAIN begins = 1 .. K /\ \A k \in 1 .. K : begins[k] = IF k <= n THEN k ELSE n + 1
  BY PlainStarts
<1>3. \A k \in 1 .. n : t[k].equals /\ t[k].tag >= 0 /\ t[k].tag \in Int
  <2>1. \A k \in 1 .. n : t[k] \in FixPieces
    BY DEF Plain
  <2> QED BY <2>1 DEF Plain, FixPieces
<1>10. t # << >> /\ t[1].tag = 8
  BY DEF Plain
<1> HIDE DEF begins, n, K, m
<1>4. A = 1 .. m
  <2>1. ASSUME NEW k \in 1 .. K PROVE (begins[k] <= n /\ ~rest(begins[k])) <=> k \in 1 .. m
    <3>1. CASE k <= n
      <4>1. begins[k] = k /\ k \in 1 .. n /\ k \in k .. n /\ k \in 1 .. m
        BY <1>0, <1>2, <3>1
      <4>2. ~rest(k)
        BY <1>3, <4>1
      <4> HIDE DEF rest
      <4> QED BY <1>0, <3>1, <4>1, <4>2
    <3>2. CASE ~(k <= n)
      <4>1. begins[k] = n + 1 /\ ~(n + 1 <= n) /\ ~(k <= m)
        BY <1>0, <1>2, <3>2
      <4> QED BY <4>1
    <3> QED BY <3>1, <3>2
  <2>2. \A k \in 1 .. m : k \in 1 .. K
    BY <1>0
  <2> HIDE DEF rest
  <2> QED BY <1>2, <2>1, <2>2
<1> HIDE DEF A
<1>5. total = m
  <2>1. Cardinality(1 .. m) = IF 1 > m THEN 0 ELSE m - 1 + 1
    BY <1>0, FS_Interval
  <2> QED BY <1>0, <1>4, <2>1
<1> HIDE DEF total
<1>6. \A k \in 1 .. m : begins[k] = k /\ k \in 1 .. n
  BY <1>0, <1>2
<1>7. \A k \in 1 .. m : t[begins[k]].equals /\ ~(t[begins[k]].tag < 0)
  BY <1>3, <1>6
<1>8. bad <=> m = 0
  BY <1>5, <1>7, <1>10
<1> HIDE DEF bad
<1>9. ASSUME NEW k \in 1 .. m PROVE FieldAt(t, begins[k]) = [tag |-> t[k].tag, val |-> [i \in k .. k |-> t[i].val]]
  <2>1. begins[k] = k /\ ValueEnd(t, k) = k
    BY <1>6, PlainEnds DEF n
  <2> QED BY <2>1 DEF FieldAt
<1>11. CASE m = 0
  <2>1. 1 .. m = {}
    BY <1>11
  <2> QED BY <1>1, <1>8, <1>11, <2>1 DEF m
<1>12. CASE m # 0
  <2>1. parse(t) = [k \in 1 .. m |-> FieldAt(t, begins[k])]
    BY <1>1, <1>5, <1>8, <1>12
  <2> QED BY <1>9, <2>1 DEF m
<1> QED BY <1>11, <1>12

LEMMA FixParses == ParsesPieces
<1>1. kMaxFields \in Nat /\ FixTexts \subseteq Seq(FixPieces)
  BY EncodingAssumption DEF FixPieces
<1> SUFFICES ASSUME NEW t \in FixTexts, t # << >>, t[1].tag = 8,
                    \E d \in {"soh", "bar"} : \A i \in DOMAIN t :
                        /\ t[i].delim = d \/ (i = Len(t) /\ t[i].delim = "end")
                        /\ t[i].equals /\ t[i].tag >= 0
             PROVE  /\ Len(parse(t)) = IF Len(t) < kMaxFields THEN Len(t) ELSE kMaxFields
                    /\ \A i \in DOMAIN parse(t) : parse(t)[i].tag = t[i].tag /\ DOMAIN parse(t)[i].val = {i}
  BY DEF ParsesPieces
<1>2. Plain(t)
  <2>1. DOMAIN t = 1 .. Len(t) /\ t \in Seq(FixPieces)
    BY <1>1
  <2> QED BY <2>1 DEF Plain
<1> DEFINE m == Fields(t)
           u == parse(t)
           P(k) == [tag |-> t[k].tag, val |-> [i \in k .. k |-> t[i].val]]
<1>3. m \in Nat
  BY <1>1, <1>2 DEF Plain, Fields
<1>4. u = [k \in 1 .. m |-> P(k)]
  BY <1>1, <1>2, PlainParses
<1> HIDE DEF m, u
<1>5. Len(u) = m /\ DOMAIN u = 1 .. m
  <2> HIDE DEF P
  <2> QED BY <1>3, <1>4
<1>6. ASSUME NEW i \in 1 .. m PROVE u[i].tag = t[i].tag /\ DOMAIN u[i].val = {i}
  <2>1. u[i] = P(i)
    BY <1>4
  <2>2. i .. i = {i}
    OBVIOUS
  <2> QED BY <2>1, <2>2
<1> QED BY <1>5, <1>6 DEF m, u, Fields

\* What a piece adds to the sum.
PieceByte(p) == p.tag + p.val.n + DelimByte(p.delim)

LEMMA PieceBytes == \A p \in FixPieces : PieceByte(p) \in Int /\ p.tag \in Int /\ p.val.n \in Nat /\ DelimByte(p.delim) \in Int
<1> SUFFICES ASSUME NEW p \in FixPieces PROVE PieceByte(p) \in Int /\ p.tag \in Int /\ p.val.n \in Nat /\ DelimByte(p.delim) \in Int
  OBVIOUS
<1>1. p.tag \in Int /\ p.val.n \in Nat /\ p.delim \in {"soh", "bar", "end"}
  BY DEF FixPieces
<1>2. DelimByte(p.delim) \in Int
  BY <1>1 DEF DelimByte
<1> QED BY <1>1, <1>2 DEF PieceByte

SummedBy(G, t) ==
    /\ G \in [0 .. Len(t) -> 0 .. 255] /\ G[0] = 0 /\ G[Len(t)] = Sum256(t)
    /\ \A n \in 1 .. Len(t) : G[n] = (G[n - 1] + PieceByte(t[n])) % 256

\* The sum is taken piece by piece.
LEMMA SumsInOrder ==
    ASSUME NEW t \in Seq(FixPieces)
    PROVE  \E G : SummedBy(G, t)
<1> DEFINE N == Len(t)
           T == 0 .. 255
           V(w, i) == (w + t[i].tag + t[i].val.n + DelimByte(t[i].delim)) % 256
           step == [i \in 1 .. N |-> [w \in T |-> V(w, i)]]
           body(g) == [u \in SUBSET (1 .. N) |-> IF u = {} THEN 0 ELSE V(g[u \ {Max(u)}], Max(u))]
           fold == CHOOSE g : g = body(g)
<1>0. N \in Nat /\ DOMAIN t = 1 .. N /\ \A i \in 1 .. N : t[i] \in FixPieces
  OBVIOUS
<1>1. \A u \in SUBSET (1 .. N) : u # {} => Max(u) \in u
  <2> TAKE u \in SUBSET (1 .. N)
  <2>1. u \subseteq 0 .. N
    BY <1>0
  <2> QED BY <1>0, <2>1, MaxIn
<1>3. ASSUME NEW w \in T, NEW i \in 1 .. N PROVE V(w, i) \in T /\ V(w, i) = (w + PieceByte(t[i])) % 256
  <2> DEFINE a == t[i].tag
             b == t[i].val.n
             c == DelimByte(t[i].delim)
  <2>1. a \in Int /\ b \in Int /\ c \in Int
    BY <1>0, PieceBytes
  <2>2. PieceByte(t[i]) = a + b + c
    BY DEF PieceByte
  <2> HIDE DEF a, b, c
  <2>3. w + a + b + c = w + (a + b + c) /\ (w + a + b + c) \in Int
    BY <2>1
  <2>4. \A x \in Int : x % 256 \in 0 .. 255
    OBVIOUS
  <2>5. (w + a + b + c) % 256 \in T
    BY <2>3, <2>4
  <2> QED BY <2>2, <2>3, <2>5 DEF a, b, c
<1>4. Sum256(t) = fold[1 .. N]
  BY <1>0 DEF Sum256, FoldLeft, MapThenFoldSet
<1> HIDE DEF V
<1>5. step \in [1 .. N -> [T -> T]] /\ 0 \in T
  <2>1. \A w \in T, i \in 1 .. N : V(w, i) \in T
    BY <1>3
  <2> HIDE DEF T
  <2>2. 0 \in T
    BY DEF T
  <2> QED BY <2>1, <2>2
<1> HIDE DEF T
<1>6. PICK f : Folds(f, step, 0, T, N)
  <2> HIDE DEF step
  <2> QED BY ONLY <1>0, <1>5, FoldsExist
<1>7. f = body(f)
  <2>1. ASSUME NEW u \in SUBSET (1 .. N) PROVE f[u] = body(f)[u]
    <3>1. CASE u = {}
      BY <1>6, <3>1 DEF Folds
    <3>2. CASE u # {}
      <4>1. Max(u) \in 1 .. N /\ u \ {Max(u)} \in SUBSET (1 .. N)
        BY <1>1, <3>2
      <4>2. f[u \ {Max(u)}] \in T /\ f[u] = step[Max(u)][f[u \ {Max(u)}]]
        BY <1>6, <3>2, <4>1 DEF Folds
      <4>3. step[Max(u)][f[u \ {Max(u)}]] = V(f[u \ {Max(u)}], Max(u))
        BY <4>1, <4>2
      <4> QED BY <3>2, <4>2, <4>3
    <3> QED BY <3>1, <3>2
  <2> QED BY <1>6, <2>1 DEF Folds
<1>8. fold = body(fold)
  <2> HIDE DEF body
  <2> QED BY <1>7
<1> HIDE DEF fold
<1>9. fold[{}] = 0 /\ fold[1 .. 0] = 0
  <2>1. 1 .. 0 = {}
    OBVIOUS
  <2> QED BY <1>8, <2>1
<1>10. ASSUME NEW n \in 1 .. N PROVE fold[1 .. n] = V(fold[1 .. (n - 1)], n)
  <2>1. \A i \in 1 .. n : i \in 1 .. N
    BY <1>0
  <2>2. n \in 1 .. n /\ n \in Nat \ {0}
    BY <1>0
  <2>3. fold[1 .. n] = V(fold[(1 .. n) \ {Max(1 .. n)}], Max(1 .. n))
    BY <1>8, <2>1, <2>2
  <2> QED BY <2>2, <2>3, MaxPrefix
<1> DEFINE F == [n \in 0 .. N |-> fold[1 .. n]]
           I == {n \in Nat : n <= N => fold[1 .. n] \in T}
<1>11. 0 \in I
  BY <1>5, <1>9
<1>12. \A n \in Nat : n \in I => n + 1 \in I
  <2> HIDE DEF N
  <2> SUFFICES ASSUME NEW n \in Nat, n \in I, n + 1 <= N PROVE fold[1 .. (n + 1)] \in T
    OBVIOUS
  <2>1. n + 1 \in 1 .. N /\ (n + 1) - 1 = n /\ n <= N
    BY <1>0
  <2>2. fold[1 .. (n + 1)] = V(fold[1 .. n], n + 1)
    BY <1>10, <2>1
  <2> QED BY <1>3, <2>1, <2>2
<1>13. \A n \in Nat : n \in I
  <2> HIDE DEF I
  <2> QED BY <1>11, <1>12, NatSetInduction
<1>14. F \in [0 .. N -> T]
  BY <1>0, <1>13
<1>15. F[0] = 0 /\ F[N] = fold[1 .. N]
  BY <1>0, <1>9
<1>16. ASSUME NEW n \in 1 .. N PROVE F[n] = V(F[n - 1], n) /\ F[n - 1] \in T
  <2>1. n \in 0 .. N /\ n - 1 \in 0 .. N
    BY <1>0
  <2>2. F[n] = fold[1 .. n] /\ F[n - 1] = fold[1 .. (n - 1)]
    BY <2>1
  <2>3. fold[1 .. n] = V(fold[1 .. (n - 1)], n)
    BY ONLY <1>10
  <2>4. F[n - 1] \in T
    <3> HIDE DEF F
    <3> QED BY ONLY <1>14, <2>1
  <2> QED BY ONLY <2>2, <2>3, <2>4
<1> HIDE DEF F
<1>17. SummedBy(F, t)
  <2>1. F \in [0 .. Len(t) -> 0 .. 255] /\ F[0] = 0 /\ F[Len(t)] = Sum256(t)
    BY ONLY <1>4, <1>14, <1>15 DEF T, N
  <2>2. ASSUME NEW n \in 1 .. N PROVE F[n] = (F[n - 1] + PieceByte(t[n])) % 256
    <3>1. F[n] = V(F[n - 1], n) /\ F[n - 1] \in T
      BY ONLY <1>16
    <3> HIDE DEF N
    <3>2. V(F[n - 1], n) = (F[n - 1] + PieceByte(t[n])) % 256
      BY ONLY <1>3, <3>1
    <3> QED BY ONLY <3>1, <3>2
  <2> QED BY ONLY <2>1, <2>2 DEF SummedBy, N
<1> QED BY <1>17

LEMMA SumNat == ASSUME NEW t \in Seq(FixPieces) PROVE Sum256(t) \in Nat
<1>1. PICK G : SummedBy(G, t)
  BY SumsInOrder
<1> DEFINE N == Len(t)
<1>2. N \in Nat /\ G \in [0 .. N -> 0 .. 255] /\ G[N] = Sum256(t)
  BY <1>1 DEF SummedBy
<1> HIDE DEF N
<1>3. G[N] \in 0 .. 255
  <2>1. N \in 0 .. N
    BY <1>2
  <2> QED BY <1>2, <2>1
<1>4. \A x \in 0 .. 255 : x \in Nat
  OBVIOUS
<1>5. G[N] \in Nat
  BY <1>3, <1>4
<1> QED BY ONLY <1>2, <1>5

\* A piece whose value is one more changes the sum.
Altered(t, i) == [t EXCEPT ![i].val.n = @ + 1]

LEMMA AlteredPieces ==
    ASSUME NEW t \in Seq(FixPieces), NEW i \in 1 .. Len(t)
    PROVE  /\ Altered(t, i) \in Seq(FixPieces) /\ Len(Altered(t, i)) = Len(t)
           /\ \A j \in 1 .. Len(t) : Altered(t, i)[j].tag = t[j].tag /\ Altered(t, i)[j].equals = t[j].equals
                                     /\ Altered(t, i)[j].delim = t[j].delim
           /\ \A j \in 1 .. Len(t) : j # i => Altered(t, i)[j] = t[j]
           /\ Altered(t, i)[i].val.n = t[i].val.n + 1
<1> DEFINE v == t[i].val
           w == [v EXCEPT !.n = @ + 1]
           p == [t[i] EXCEPT !.val = w]
           N == Len(t)
<1>0. N \in Nat /\ DOMAIN t = 1 .. N /\ t \in [1 .. N -> FixPieces] /\ t[i] \in FixPieces
  OBVIOUS
<1>1. Altered(t, i) = [t EXCEPT ![i] = p]
  BY <1>0 DEF Altered
<1>2. v \in [number : BOOLEAN, n : Nat]
  BY <1>0 DEF FixPieces
<1> HIDE DEF v
<1>3. w \in [number : BOOLEAN, n : Nat] /\ w.n = v.n + 1
  BY <1>2
<1> HIDE DEF w
<1>4. p \in FixPieces /\ p.tag = t[i].tag /\ p.equals = t[i].equals /\ p.delim = t[i].delim /\ p.val = w
  BY <1>0, <1>3 DEF FixPieces
<1> HIDE DEF p
<1>5. Altered(t, i) \in [1 .. N -> FixPieces] /\ Altered(t, i)[i] = p /\ \A j \in 1 .. N : j # i => Altered(t, i)[j] = t[j]
  BY <1>0, <1>1, <1>4
<1>6. Altered(t, i) \in Seq(FixPieces) /\ Len(Altered(t, i)) = N
  BY <1>0, <1>5
<1> QED BY <1>3, <1>4, <1>5, <1>6 DEF v

\* Sums modulo 256.
LEMMA ModAdds == \A a \in 0 .. 255, c \in Int : (((a + 1) % 256) + c) % 256 = (a + c + 1) % 256
<1> TAKE a \in 0 .. 255, c \in Int
<1>1. CASE a = 255
  <2>1. (a + 1) % 256 = 0
    BY <1>1
  <2>2. (c + 256) % 256 = c % 256
    OBVIOUS
  <2>3. a + c + 1 = c + 256 /\ ((a + 1) % 256) + c = c
    BY <1>1, <2>1
  <2> QED BY <2>2, <2>3
<1>2. CASE a # 255
  <2>1. (a + 1) % 256 = a + 1
    BY <1>2
  <2>2. (a + 1) + c = a + c + 1
    OBVIOUS
  <2> QED BY <2>1, <2>2
<1> QED BY <1>1, <1>2

LEMMA ModAddsOne == \A a, c \in Int : (((a + c) % 256) + 1) % 256 = (a + c + 1) % 256
<1> TAKE a, c \in Int
<1> DEFINE x == a + c
<1>1. x \in Int /\ a + c + 1 = x + 1
  OBVIOUS
<1> HIDE DEF x
<1>2. PICK q \in Int : x = 256 * q + (x % 256)
  <2>1. x = 256 * (x \div 256) + (x % 256) /\ x \div 256 \in Int
    BY <1>1
  <2> QED BY <2>1
<1>3. x % 256 \in 0 .. 255
  BY <1>1
<1> DEFINE r == x % 256
<1> HIDE DEF r
<1>4. x + 1 = 256 * q + (r + 1) /\ r \in 0 .. 255
  BY <1>1, <1>2, <1>3 DEF r
<1>5. (256 * q + (r + 1)) % 256 = (r + 1) % 256
  BY <1>4
<1> QED BY <1>1, <1>4, <1>5 DEF r, x

LEMMA AlteredSum ==
    ASSUME NEW t \in Seq(FixPieces), NEW i \in 1 .. Len(t)
    PROVE  Sum256(Altered(t, i)) # Sum256(t)
<1> DEFINE u == Altered(t, i)
           N == Len(t)
<1>0. u \in Seq(FixPieces) /\ Len(u) = N /\ N \in Nat
  BY AlteredPieces
<1>1. PICK G : SummedBy(G, t)
  BY SumsInOrder
<1>2. PICK H : SummedBy(H, u)
  BY <1>0, SumsInOrder
<1>3. G \in [0 .. N -> 0 .. 255] /\ G[0] = 0 /\ G[N] = Sum256(t) /\ \A n \in 1 .. N : G[n] = (G[n - 1] + PieceByte(t[n])) % 256
  BY <1>1 DEF SummedBy
<1>4. H \in [0 .. N -> 0 .. 255] /\ H[0] = 0 /\ H[N] = Sum256(u) /\ \A n \in 1 .. N : H[n] = (H[n - 1] + PieceByte(u[n])) % 256
  BY <1>0, <1>2 DEF SummedBy
<1>5. \A n \in 1 .. N : PieceByte(t[n]) \in Int /\ PieceByte(u[n]) = IF n = i THEN PieceByte(t[n]) + 1 ELSE PieceByte(t[n])
  <2> TAKE n \in 1 .. N
  <2>1. t[n] \in FixPieces
    OBVIOUS
  <2>2. CASE n # i
    BY <2>1, <2>2, AlteredPieces, PieceBytes
  <2>3. CASE n = i
    <3>1. u[n].tag = t[n].tag /\ u[n].delim = t[n].delim /\ u[n].val.n = t[n].val.n + 1
      BY <2>3, AlteredPieces
    <3> DEFINE a == t[n].tag
               b == t[n].val.n
               c == DelimByte(t[n].delim)
    <3>2. a \in Int /\ b \in Int /\ c \in Int
      BY <2>1, PieceBytes
    <3>3. PieceByte(t[n]) = a + b + c /\ PieceByte(u[n]) = a + (b + 1) + c
      BY <3>1 DEF PieceByte
    <3> HIDE DEF a, b, c
    <3> QED BY <2>3, <3>2, <3>3
  <2> QED BY <2>2, <2>3
<1> HIDE DEF u, N
<1> DEFINE S == {n \in Nat : n <= N => H[n] = IF n < i THEN G[n] ELSE (G[n] + 1) % 256}
<1>6. 0 \in S
  BY <1>3, <1>4 DEF N
<1>7. ASSUME NEW n \in Nat, n \in S PROVE n + 1 \in S
  <2> SUFFICES ASSUME n + 1 <= N PROVE H[n + 1] = IF n + 1 < i THEN G[n + 1] ELSE (G[n + 1] + 1) % 256
    OBVIOUS
  <2> DEFINE a == G[n]
             b == H[n]
             c == PieceByte(t[n + 1])
             d == PieceByte(u[n + 1])
  <2>1. n + 1 \in 1 .. N /\ (n + 1) - 1 = n /\ n \in 0 .. N /\ n <= N
    BY <1>0
  <2>2. G[n + 1] = (a + c) % 256 /\ H[n + 1] = (b + d) % 256
    BY <1>3, <1>4, <2>1
  <2>3. a \in 0 .. 255 /\ b \in 0 .. 255 /\ c \in Int
    BY <1>3, <1>4, <1>5, <2>1
  <2>4. b = IF n < i THEN a ELSE (a + 1) % 256
    BY <1>7, <2>1
  <2>5. d = IF n + 1 = i THEN c + 1 ELSE c
    BY <1>5, <2>1
  <2>6. i \in Int
    OBVIOUS
  <2> HIDE DEF a, b, c, d, S
  <2>7. CASE n + 1 < i
    BY <2>2, <2>3, <2>4, <2>5, <2>6, <2>7
  <2>8. CASE n + 1 = i
    <3>1. H[n + 1] = (a + c + 1) % 256
      BY <2>2, <2>3, <2>4, <2>5, <2>6, <2>8
    <3>2. (((a + c) % 256) + 1) % 256 = (a + c + 1) % 256
      BY <2>3, ModAddsOne
    <3> QED BY <2>2, <2>8, <3>1, <3>2
  <2>9. CASE n + 1 > i
    <3>1. H[n + 1] = (((a + 1) % 256) + c) % 256
      BY <2>2, <2>3, <2>4, <2>5, <2>6, <2>9
    <3>2. (((a + c) % 256) + 1) % 256 = (a + c + 1) % 256
      BY <2>3, ModAddsOne
    <3>3. (((a + 1) % 256) + c) % 256 = (a + c + 1) % 256
      BY <2>3, ModAdds
    <3> QED BY <2>2, <2>3, <2>6, <2>9, <3>1, <3>2, <3>3
  <2> QED BY <2>6, <2>7, <2>8, <2>9
<1>8. \A n \in Nat : n \in S
  <2> HIDE DEF S
  <2> QED BY <1>6, <1>7, NatSetInduction
<1>9. H[N] = (G[N] + 1) % 256 /\ G[N] \in 0 .. 255
  <2>1. N \in S /\ N \in 0 .. N /\ ~(N < i)
    BY <1>0, <1>8 DEF N
  <2> QED BY <1>3, <2>1
<1>10. \A x \in 0 .. 255 : (x + 1) % 256 # x
  <2> TAKE x \in 0 .. 255
  <2>1. CASE x = 255
    BY <2>1
  <2>2. CASE x # 255
    <3>1. (x + 1) % 256 = x + 1
      BY <2>2
    <3> QED BY <3>1
  <2> QED BY <2>1, <2>2
<1>11. H[N] # G[N]
  BY <1>9, <1>10
<1> QED BY <1>3, <1>4, <1>11 DEF u

\* What follows the header: neither a number nor a trailer.
FixBody(b) ==
    b \in Seq(FixPieces) /\ \A i \in 1 .. Len(b) :
        b[i].delim = "soh" /\ b[i].equals /\ b[i].tag >= 0 /\ b[i].tag # 34 /\ b[i].tag # 10

\* The number is the sixth piece.
FixPayload(h, n) ==
    /\ h \in Seq(FixPieces) /\ Len(h) >= 6 /\ h[1].tag = 8 /\ h[6].tag = 34 /\ h[6].val = Number(n)
    /\ \A i \in 1 .. Len(h) :
          h[i].delim = "soh" /\ h[i].equals /\ h[i].tag >= 0 /\ h[i].tag # 10 /\ (h[i].tag = 34 => i = 6)

FixMessage(t, n) == \E h : FixPayload(h, n) /\ t = Append(h, Piece(10, Number(Sum256(h))))

LEMMA PieceTypes == \A g \in Int, v \in Nat : Piece(g, Number(v)) \in FixPieces /\ Piece(g, Text(v)) \in FixPieces
BY DEF Piece, Number, Text, FixPieces

LEMMA PieceParts == \A g, v : Piece(g, v).tag = g /\ Piece(g, v).val = v /\ Piece(g, v).equals /\ Piece(g, v).delim = "soh"
BY DEF Piece

LEMMA FormattedWell ==
    ASSUME NEW kind \in {"report", "logon", "heartbeat"}, NEW n \in Nat, NEW content \in 0 .. 1
    PROVE  FixMessage(Formatted(kind, n, content), n)
<1> DEFINE type == CASE kind = "report" -> Number(8) [] kind = "logon" -> Text(65)
                     [] kind = "heartbeat" -> Number(0)
           header == <<Piece(8, Text(4)), Piece(9, Number(FixLength[kind])), Piece(35, type),
                       Piece(49, Text(1)), Piece(56, Text(2)), Piece(34, Number(n))>>
           body == CASE kind = "report" -> <<Piece(11, Number(content)), Piece(38, Number(1))>>
                     [] kind = "logon" -> <<Piece(108, Number(30))>>
                     [] kind = "heartbeat" -> IF content = 0 THEN <<>> ELSE <<Piece(112, Text(content))>>
           h == header \o body
<1>1. Formatted(kind, n, content) = Append(h, Piece(10, Number(Sum256(h))))
  BY DEF Formatted
<1>2. FixLength[kind] \in Nat /\ content \in Nat
  BY EncodingAssumption
<1>3. type = Number(8) \/ type = Text(65) \/ type = Number(0)
  OBVIOUS
<1> HIDE DEF type
<1>4. Piece(35, type) \in FixPieces
  BY <1>3, PieceTypes
<1> DEFINE a1 == Piece(8, Text(4))
           a2 == Piece(9, Number(FixLength[kind]))
           a3 == Piece(35, type)
           a4 == Piece(49, Text(1))
           a5 == Piece(56, Text(2))
           a6 == Piece(34, Number(n))
<1>5. {a1, a2, a3, a4, a5, a6} \subseteq FixPieces
  BY <1>2, <1>4, PieceTypes
<1>6. /\ a1.tag = 8 /\ a2.tag = 9 /\ a3.tag = 35 /\ a4.tag = 49 /\ a5.tag = 56 /\ a6.tag = 34 /\ a6.val = Number(n)
      /\ \A a \in {a1, a2, a3, a4, a5, a6} : a.equals /\ a.delim = "soh"
  BY PieceParts
<1>7. FixBody(body)
  <2>1. CASE kind = "report"
    <3> DEFINE b1 == Piece(11, Number(content))
               b2 == Piece(38, Number(1))
    <3>1. body = <<b1, b2>>
      BY <2>1
    <3>2. b1 \in FixPieces /\ b2 \in FixPieces
      BY <1>2, PieceTypes
    <3>3. b1.tag = 11 /\ b2.tag = 38 /\ b1.equals /\ b2.equals /\ b1.delim = "soh" /\ b2.delim = "soh"
      BY PieceParts
    <3> HIDE DEF b1, b2, body
    <3>4. body \in Seq(FixPieces) /\ Len(body) = 2 /\ body[1] = b1 /\ body[2] = b2
      BY <3>1, <3>2
    <3>5. \A i \in 1 .. 2 : i = 1 \/ i = 2
      OBVIOUS
    <3> QED BY <3>3, <3>4, <3>5 DEF FixBody
  <2>2. CASE kind = "logon"
    <3> DEFINE b1 == Piece(108, Number(30))
    <3>1. body = <<b1>>
      BY <2>2
    <3>2. b1 \in FixPieces
      BY PieceTypes
    <3>3. b1.tag = 108 /\ b1.equals /\ b1.delim = "soh"
      BY PieceParts
    <3> HIDE DEF b1, body
    <3>4. body \in Seq(FixPieces) /\ Len(body) = 1 /\ body[1] = b1
      BY <3>1, <3>2
    <3>5. \A i \in 1 .. 1 : i = 1
      OBVIOUS
    <3> QED BY <3>3, <3>4, <3>5 DEF FixBody
  <2>3. CASE kind = "heartbeat" /\ content = 0
    <3>1. body = << >>
      BY <2>3
    <3>2. << >> \in Seq(FixPieces) /\ Len(<< >>) = 0 /\ \A i \in 1 .. 0 : FALSE
      OBVIOUS
    <3> HIDE DEF body
    <3> QED BY <3>1, <3>2 DEF FixBody
  <2>4. CASE kind = "heartbeat" /\ content # 0
    <3> DEFINE b1 == Piece(112, Text(content))
    <3>1. body = <<b1>>
      BY <2>4
    <3>2. b1 \in FixPieces
      BY <1>2, PieceTypes
    <3>3. b1.tag = 112 /\ b1.equals /\ b1.delim = "soh"
      BY PieceParts
    <3> HIDE DEF b1, body
    <3>4. body \in Seq(FixPieces) /\ Len(body) = 1 /\ body[1] = b1
      BY <3>1, <3>2
    <3>5. \A i \in 1 .. 1 : i = 1
      OBVIOUS
    <3> QED BY <3>3, <3>4, <3>5 DEF FixBody
  <2> QED BY <2>1, <2>2, <2>3, <2>4
<1> HIDE DEF body
<1>8. header = <<a1, a2, a3, a4, a5, a6>>
  OBVIOUS
<1> HIDE DEF header, a1, a2, a3, a4, a5, a6
<1>9. header \in Seq(FixPieces) /\ Len(header) = 6
  BY <1>5, <1>8
<1>10. header[1] = a1 /\ header[2] = a2 /\ header[3] = a3 /\ header[4] = a4 /\ header[5] = a5 /\ header[6] = a6
  BY <1>8
<1>11. \A i \in 1 .. 6 :
          header[i].delim = "soh" /\ header[i].equals /\ header[i].tag >= 0 /\ header[i].tag # 10
          /\ (header[i].tag = 34 => i = 6)
  <2>1. \A i \in 1 .. 6 : i = 1 \/ i = 2 \/ i = 3 \/ i = 4 \/ i = 5 \/ i = 6
    OBVIOUS
  <2> QED BY <1>6, <1>10, <2>1
<1>12. body \in Seq(FixPieces) /\ Len(body) \in Nat
  BY <1>7 DEF FixBody
<1>18. /\ header \o body \in Seq(FixPieces) /\ Len(header \o body) = Len(header) + Len(body)
       /\ \A i \in 1 .. Len(header) + Len(body) :
             (header \o body)[i] = IF i <= Len(header) THEN header[i] ELSE body[i - Len(header)]
  BY ONLY <1>9, <1>12, ConcatProperties
<1>13. h \in Seq(FixPieces) /\ Len(h) = 6 + Len(body)
  BY <1>9, <1>18
<1>14. \A i \in 1 .. Len(h) : h[i] = IF i <= 6 THEN header[i] ELSE body[i - 6]
  BY <1>9, <1>18
<1> HIDE DEF h
<1>15. ASSUME NEW i \in 1 .. Len(h)
       PROVE  h[i].delim = "soh" /\ h[i].equals /\ h[i].tag >= 0 /\ h[i].tag # 10 /\ (h[i].tag = 34 => i = 6)
  <2>1. CASE i <= 6
    <3>1. i \in 1 .. 6 /\ h[i] = header[i]
      BY <1>14, <2>1
    <3> QED BY <1>11, <3>1
  <2>2. CASE ~(i <= 6)
    <3>1. i - 6 \in 1 .. Len(body) /\ h[i] = body[i - 6]
      BY <1>12, <1>13, <1>14, <2>2
    <3> QED BY <1>7, <3>1 DEF FixBody
  <2> QED BY <2>1, <2>2
<1>16. Len(h) >= 6 /\ h[1] = a1 /\ h[6] = a6
  BY <1>10, <1>12, <1>13, <1>14
<1>17. FixPayload(h, n)
  BY <1>6, <1>13, <1>15, <1>16 DEF FixPayload
<1> QED BY <1>1, <1>17 DEF FixMessage

\* A message is its payload and the trailer.
FixEnds(t, h) ==
    /\ t \in Seq(FixPieces) /\ Len(t) = Len(h) + 1 /\ \A i \in 1 .. Len(h) : t[i] = h[i]
    /\ t[Len(h) + 1] = Piece(10, Number(Sum256(h)))

LEMMA MessageEnds ==
    ASSUME NEW h, NEW n, FixPayload(h, n), NEW t, t = Append(h, Piece(10, Number(Sum256(h))))
    PROVE  FixEnds(t, h)
<1>1. h \in Seq(FixPieces) /\ Len(h) \in Nat
  BY DEF FixPayload
<1>3. Sum256(h) \in Nat
  BY <1>1, SumNat
<1> DEFINE p == Piece(10, Number(Sum256(h)))
<1>4. p \in FixPieces
  BY <1>3, PieceTypes
<1> HIDE DEF p
<1>5. t = Append(h, p)
  BY DEF p
<1>6. t \in Seq(FixPieces) /\ Len(t) = Len(h) + 1 /\ (\A i \in 1 .. Len(h) : t[i] = h[i]) /\ t[Len(h) + 1] = p
  BY ONLY <1>1, <1>4, <1>5
<1> QED BY <1>6 DEF p, FixEnds

\* The reader finds the number, when it keeps enough fields.
LEMMA MessageNumber ==
    ASSUME NEW t, NEW n \in Nat, FixMessage(t, n), kMaxFields \in Nat
    PROVE  get_int(parse(t), 34, 0) = n \/ get_int(parse(t), 34, 0) = 0
<1> DEFINE u == parse(t)
           m == Fields(t)
           P(k) == [tag |-> t[k].tag, val |-> [i \in k .. k |-> t[i].val]]
<1>1. PICK h : FixPayload(h, n) /\ t = Append(h, Piece(10, Number(Sum256(h))))
  BY DEF FixMessage
<1>2. FixEnds(t, h)
  BY <1>1, MessageEnds
<1> DEFINE L == Len(h)
<1>3. L \in Nat /\ L >= 6 /\ h \in Seq(FixPieces)
  BY <1>1 DEF FixPayload
<1>4. \A i \in 1 .. L + 1 : t[i].delim = "soh" /\ t[i].equals /\ t[i].tag >= 0 /\ (t[i].tag = 34 <=> i = 6)
  <2> TAKE i \in 1 .. L + 1
  <2>1. CASE i = L + 1
    <3>1. t[i] = Piece(10, Number(Sum256(h))) /\ i # 6
      BY <1>2, <1>3, <2>1 DEF FixEnds
    <3>2. t[i].tag = 10 /\ t[i].equals /\ t[i].delim = "soh"
      BY <3>1, PieceParts
    <3> QED BY <3>1, <3>2
  <2>2. CASE i # L + 1
    <3>1. i \in 1 .. L /\ t[i] = h[i]
      BY <1>2, <1>3, <2>2 DEF FixEnds
    <3> QED BY <1>1, <3>1 DEF FixPayload
  <2> QED BY <2>1, <2>2
<1>5. t \in Seq(FixPieces) /\ Len(t) = L + 1 /\ t[1] = h[1] /\ t[6] = h[6]
  BY <1>2, <1>3 DEF FixEnds
<1>6. Plain(t)
  <2>1. t # << >> /\ t[1].tag = 8
    BY <1>1, <1>3, <1>5 DEF FixPayload
  <2> QED BY <1>4, <1>5, <2>1 DEF Plain
<1>7. u = [k \in 1 .. m |-> P(k)]
  BY <1>6, PlainParses
<1>8. m \in Nat /\ m <= L + 1
  BY <1>3, <1>5 DEF Fields
<1> HIDE DEF u, m, L
<1>9. \A k \in 1 .. m : u[k] = P(k) /\ u[k].tag = t[k].tag /\ u[k].val = [i \in k .. k |-> t[i].val]
  BY <1>7
<1> HIDE DEF P
<1>10. DOMAIN u = 1 .. m
  BY <1>7
<1> DEFINE found == {i \in DOMAIN u : u[i].tag = 34}
<1>11. found = IF m >= 6 THEN {6} ELSE {}
  <2>1. \A i \in 1 .. m : i \in 1 .. L + 1 /\ (u[i].tag = 34 <=> i = 6)
    <3> TAKE i \in 1 .. m
    <3>1. i \in 1 .. L + 1
      BY <1>3, <1>8
    <3>2. t[i].tag = 34 <=> i = 6
      BY <1>4, <3>1
    <3>3. u[i].tag = t[i].tag
      BY <1>9
    <3> QED BY ONLY <3>1, <3>2, <3>3
  <2> QED BY <1>8, <1>10, <2>1
<1> HIDE DEF found
<1>12. get(u, 34) = IF found = {} THEN << >> ELSE u[CHOOSE i \in found : \A j \in found : i <= j].val
  BY DEF get, found
<1>13. get_int(u, 34, 0) = IF Cardinality(DOMAIN get(u, 34)) = 1 /\ \A i \in DOMAIN get(u, 34) : get(u, 34)[i].number
                           THEN (CHOOSE v \in {get(u, 34)[i].n : i \in DOMAIN get(u, 34)} : TRUE) ELSE 0
  BY DEF get_int
<1>14. CASE m >= 6
  <2>1. found = {6}
    BY <1>11, <1>14
  <2>2. (CHOOSE i \in {6} : \A j \in {6} : i <= j) = 6
    OBVIOUS
  <2>3. get(u, 34) = u[6].val
    BY <1>12, <2>1, <2>2
  <2>4. 6 \in 1 .. m
    BY <1>8, <1>14
  <2>5. get(u, 34) = [i \in 6 .. 6 |-> t[i].val]
    BY <1>9, <2>3, <2>4
  <2>6. 6 .. 6 = {6}
    OBVIOUS
  <2>7. DOMAIN get(u, 34) = {6} /\ get(u, 34)[6] = t[6].val
    BY <2>5, <2>6
  <2>8. t[6].val = Number(n)
    BY <1>1, <1>5 DEF FixPayload
  <2>9. get(u, 34)[6].n = n
    BY <2>7, <2>8 DEF Number
  <2>10. {get(u, 34)[i].n : i \in DOMAIN get(u, 34)} = {n}
    BY <2>7, <2>9
  <2>11. (CHOOSE v \in {n} : TRUE) = n
    OBVIOUS
  <2> QED BY <1>13, <2>10, <2>11 DEF u
<1>15. CASE ~(m >= 6)
  <2>1. get(u, 34) = << >>
    BY <1>11, <1>12, <1>15
  <2>2. DOMAIN get(u, 34) = {}
    BY <2>1
  <2>3. Cardinality({}) = 0
    BY FS_EmptySet
  <2> QED BY <1>13, <2>2, <2>3 DEF u
<1> QED BY <1>14, <1>15

\* A message with one value altered does not pass the checksum.
LEMMA AlteredFails ==
    ASSUME NEW t, NEW n, FixMessage(t, n), NEW i \in 1 .. Len(t)
    PROVE  ~verify_checksum(Altered(t, i))
<1> DEFINE u == Altered(t, i)
           trailers == {p \in 2 .. Len(u) : u[p].tag = 10 /\ u[p].equals /\ u[p - 1].delim \in {"soh", "bar"}}
           last == CHOOSE q \in trailers : \A r \in trailers : q >= r
<1>1. PICK h : FixPayload(h, n) /\ t = Append(h, Piece(10, Number(Sum256(h))))
  BY DEF FixMessage
<1>2. FixEnds(t, h)
  BY <1>1, MessageEnds
<1> DEFINE L == Len(h)
<1>3. L \in Nat /\ L >= 6 /\ h \in Seq(FixPieces)
  BY <1>1 DEF FixPayload
<1>4. t \in Seq(FixPieces) /\ Len(t) = L + 1 /\ (\A j \in 1 .. L : t[j] = h[j]) /\ t[L + 1] = Piece(10, Number(Sum256(h)))
  BY <1>2 DEF FixEnds
<1>5. u \in Seq(FixPieces) /\ Len(u) = L + 1
      /\ (\A j \in 1 .. L + 1 : u[j].tag = t[j].tag /\ u[j].equals = t[j].equals /\ u[j].delim = t[j].delim)
      /\ (\A j \in 1 .. L + 1 : j # i => u[j] = t[j])
      /\ u[i].val.n = t[i].val.n + 1
  BY <1>4, AlteredPieces
<1>6. t[L + 1].tag = 10 /\ t[L + 1].equals /\ t[L + 1].val.n = Sum256(h)
  <2>1. t[L + 1].val = Number(Sum256(h))
    BY <1>4, PieceParts
  <2> QED BY <1>4, <2>1, PieceParts DEF Number
<1>7. \A j \in 1 .. L : t[j].tag # 10 /\ t[j].delim = "soh"
  BY <1>1, <1>4 DEF FixPayload
<1>12. verify_checksum(u) => u[last].val.n = Sum256(SubSeq(u, 1, last - 1))
  BY DEF verify_checksum
<1>13. i \in 1 .. L + 1
  BY <1>4
<1> HIDE DEF u, L
<1>8. trailers = {L + 1}
  <2>1. L + 1 \in 2 .. L + 1 /\ (L + 1) - 1 = L /\ L \in 1 .. L /\ L \in 1 .. L + 1 /\ L + 1 \in 1 .. L + 1
    BY <1>3
  <2>2. u[L + 1].tag = 10 /\ u[L + 1].equals /\ u[L].delim \in {"soh", "bar"}
    BY <1>5, <1>6, <1>7, <2>1
  <2>3. ASSUME NEW p \in 2 .. L + 1, u[p].tag = 10 PROVE p = L + 1
    <3>1. p \in 1 .. L + 1 /\ (p # L + 1 => p \in 1 .. L)
      BY <1>3
    <3> QED BY <1>5, <1>7, <2>3, <3>1
  <2> QED BY <1>5, <2>1, <2>2, <2>3
<1> HIDE DEF trailers
<1>9. last = L + 1
  <2>1. \A r \in {L + 1} : L + 1 >= r
    BY <1>3
  <2> QED BY <1>8, <2>1
<1> HIDE DEF last
<1> DEFINE s == SubSeq(u, 1, L)
<1>10. s \in Seq(FixPieces) /\ Len(s) = L /\ \A j \in 1 .. L : s[j] = u[j]
  <2>1. \A j \in 1 .. L : u[j] \in FixPieces
    BY <1>3, <1>5
  <2>2. 1 \in Int /\ L \in Int /\ 1 <= L /\ L - 1 + 1 = L /\ \A j \in 1 .. L : 1 + j - 1 = j
    BY <1>3
  <2>3. /\ SubSeq(u, 1, L) \in Seq(FixPieces)
        /\ Len(SubSeq(u, 1, L)) = IF 1 <= L THEN L - 1 + 1 ELSE 0
        /\ \A j \in 1 .. L - 1 + 1 : SubSeq(u, 1, L)[j] = u[1 + j - 1]
    BY ONLY <2>1, <2>2, SubSeqProperties
  <2> QED BY <2>2, <2>3
<1> HIDE DEF s
<1>11. u[L + 1].val.n # Sum256(s)
  <2>1. CASE i = L + 1
    <3>1. \A j \in 1 .. L : s[j] = h[j]
      <4> TAKE j \in 1 .. L
      <4>1. j \in 1 .. L + 1 /\ j # i
        BY <1>3, <2>1
      <4> QED BY <1>4, <1>5, <1>10, <4>1
    <3>2. s = h
      BY <1>3, <1>10, <3>1 DEF L
    <3>3. u[L + 1].val.n = Sum256(h) + 1
      BY <1>5, <1>6, <2>1
    <3>5. Sum256(h) \in Nat
      BY <1>3, SumNat
    <3> QED BY <3>2, <3>3, <3>5
  <2>2. CASE i # L + 1
    <3>1. i \in 1 .. L
      BY <1>3, <1>13, <2>2
    <3>2. \A j \in 1 .. L : s[j] = Altered(h, i)[j]
      <4> TAKE j \in 1 .. L
      <4>1. s[j] = u[j] /\ j \in 1 .. L + 1
        BY <1>3, <1>10
      <4>2. CASE j # i
        <5>1. Altered(h, i)[j] = h[j]
          BY <1>3, <3>1, <4>2, AlteredPieces DEF L
        <5> QED BY <1>4, <1>5, <4>1, <4>2, <5>1
      <4>3. CASE j = i
        <5>1. t[i] = h[i] /\ DOMAIN t = 1 .. L + 1 /\ DOMAIN h = 1 .. L
          BY <1>3, <1>4, <3>1 DEF L
        <5>2. u[i] = [t[i] EXCEPT !.val.n = @ + 1]
          BY <1>13, <5>1 DEF u, Altered
        <5>3. Altered(h, i)[i] = [h[i] EXCEPT !.val.n = @ + 1]
          BY <3>1, <5>1 DEF Altered
        <5> QED BY <4>1, <4>3, <5>1, <5>2, <5>3
      <4> QED BY <4>2, <4>3
    <3>3. Altered(h, i) \in Seq(FixPieces) /\ Len(Altered(h, i)) = L
      BY <1>3, <3>1, AlteredPieces DEF L
    <3>4. s = Altered(h, i)
      BY <1>3, <1>10, <3>2, <3>3
    <3>5. Sum256(Altered(h, i)) # Sum256(h)
      BY <1>3, <3>1, AlteredSum DEF L
    <3>6. u[L + 1] = t[L + 1]
      BY <1>3, <1>5, <2>2
    <3> QED BY <1>6, <3>4, <3>5, <3>6
  <2> QED BY <2>1, <2>2
<1>14. last - 1 = L
  BY <1>3, <1>9
<1> QED BY <1>9, <1>11, <1>12, <1>14 DEF s, u

\* What is under way was written, or is an altered copy of what was; the other end
\* has taken the messages below the number it expects.
FixOK ==
    /\ sender \in [next_out_seq : Nat \ {0}, state : {"active", "disconnected"}]
    /\ DOMAIN sent \subseteq 1 .. sender.next_out_seq - 1
    /\ \A n \in DOMAIN sent : FixMessage(sent[n], n)
    /\ \A x \in channel : \E n \in DOMAIN sent : x = sent[n] \/ \E i \in 1 .. Len(sent[n]) : x = Altered(sent[n], i)
    /\ peer \in Nat \ {0} /\ taken \in Seq(Seq(FixPieces)) /\ Len(taken) = peer - 1
    /\ \A i \in 1 .. Len(taken) : i \in DOMAIN sent /\ taken[i] = sent[i]

LEMMA FixStarts == ASSUME FixInit PROVE FixOK
<1>1. sender = [next_out_seq |-> 1, state |-> "disconnected"] /\ peer = 1 /\ channel = {} /\ sent = << >> /\ taken = << >>
  BY DEF FixInit
<1>2. sender \in [next_out_seq : Nat \ {0}, state : {"active", "disconnected"}]
  BY <1>1
<1>3. DOMAIN sent = {}
  BY <1>1
<1>4. taken \in Seq(Seq(FixPieces)) /\ Len(taken) = 0 /\ \A i \in 1 .. 0 : FALSE
  BY <1>1
<1> QED BY <1>1, <1>2, <1>3, <1>4 DEF FixOK

LEMMA FixSuffices == ASSUME FixOK PROVE FixInOrder
<1>1. DOMAIN taken = 1 .. Len(taken)
  BY DEF FixOK
<1> QED BY <1>1 DEF FixOK, FixInOrder

LEMMA MessagePieces == ASSUME NEW t, NEW n, FixMessage(t, n) PROVE t \in Seq(FixPieces)
<1>1. PICK h : FixPayload(h, n) /\ t = Append(h, Piece(10, Number(Sum256(h))))
  BY DEF FixMessage
<1>2. FixEnds(t, h)
  BY <1>1, MessageEnds
<1> QED BY <1>2 DEF FixEnds

FixWrites == \E kind \in {"report", "logon", "heartbeat"}, content \in 0 .. 1 : Writes(kind, content)

LEMMA FixKeepsWritten == ASSUME FixOK, Draws, FixWrites PROVE FixOK'
<1> DEFINE k == sender.next_out_seq
<1>0. k \in Nat \ {0} /\ sender \in [next_out_seq : Nat \ {0}, state : {"active", "disconnected"}]
  BY DEF FixOK
<1>1. sender' = [sender EXCEPT !.next_out_seq = k + 1] /\ UNCHANGED <<peer, taken>>
  BY DEF Draws
<1>2. sender' \in [next_out_seq : Nat \ {0}, state : {"active", "disconnected"}] /\ sender'.next_out_seq = k + 1
  BY <1>0, <1>1
<1>3. PICK kind \in {"report", "logon", "heartbeat"}, content \in 0 .. 1 : Writes(kind, content)
  BY DEF FixWrites
<1> DEFINE t == Formatted(kind, k, content)
<1>4. channel' = channel \cup {t} /\ sent' = [n \in DOMAIN sent \cup {k} |-> IF n = k THEN t ELSE sent[n]]
  BY <1>3 DEF Writes
<1>5. FixMessage(t, k)
  BY <1>0, FormattedWell
<1> HIDE DEF k, t
<1>6. k \notin DOMAIN sent /\ DOMAIN sent \subseteq 1 .. k - 1
  BY <1>0 DEF FixOK, k
<1>7. DOMAIN sent' = DOMAIN sent \cup {k} /\ sent'[k] = t /\ \A n \in DOMAIN sent : sent'[n] = sent[n]
  BY <1>4, <1>6
<1>8. DOMAIN sent' \subseteq 1 .. sender'.next_out_seq - 1
  BY <1>0, <1>2, <1>6, <1>7
<1>9. \A n \in DOMAIN sent' : FixMessage(sent'[n], n)
  BY <1>5, <1>7 DEF FixOK
<1>10. \A x \in channel' : \E n \in DOMAIN sent' : x = sent'[n] \/ \E i \in 1 .. Len(sent'[n]) : x = Altered(sent'[n], i)
  <2> TAKE x \in channel'
  <2>1. CASE x = t
    BY <1>7, <2>1
  <2>2. CASE x # t
    <3>1. PICK n \in DOMAIN sent : x = sent[n] \/ \E i \in 1 .. Len(sent[n]) : x = Altered(sent[n], i)
      BY <1>4, <2>2 DEF FixOK
    <3>2. n \in DOMAIN sent' /\ sent'[n] = sent[n]
      BY <1>7
    <3> QED BY <3>1, <3>2
  <2> QED BY <2>1, <2>2
<1>11. peer' \in Nat \ {0} /\ taken' \in Seq(Seq(FixPieces)) /\ Len(taken') = peer' - 1
  BY <1>1 DEF FixOK
<1>12. \A i \in 1 .. Len(taken') : i \in DOMAIN sent' /\ taken'[i] = sent'[i]
  BY <1>1, <1>7 DEF FixOK
<1> QED BY <1>2, <1>8, <1>9, <1>10, <1>11, <1>12 DEF FixOK

LEMMA FixKeepsSilent ==
    ASSUME FixOK, Silent, UNCHANGED <<peer, taken>>,
           sender' \in [next_out_seq : Nat \ {0}, state : {"active", "disconnected"}],
           sender'.next_out_seq >= sender.next_out_seq
    PROVE  FixOK'
<1>1. channel' = channel /\ sent' = sent /\ peer' = peer /\ taken' = taken
  BY DEF Silent
<1>2. DOMAIN sent \subseteq 1 .. sender'.next_out_seq - 1
  <2> DEFINE a == sender.next_out_seq
             b == sender'.next_out_seq
  <2>1. a \in Nat /\ b \in Nat /\ b >= a /\ DOMAIN sent \subseteq 1 .. a - 1
    BY DEF FixOK
  <2> HIDE DEF a, b
  <2>2. \A n \in 1 .. a - 1 : n \in 1 .. b - 1
    BY <2>1
  <2> QED BY <2>1, <2>2 DEF b
<1> QED BY <1>1, <1>2 DEF FixOK

LEMMA FixKeepsReceive == ASSUME FixOK, NEW x \in channel, receive(x) PROVE FixOK'
<1> DEFINE s == get_int(parse(x), 34, 0)
<1>1. verify_checksum(x) /\ s = peer /\ peer' = peer + 1 /\ taken' = Append(taken, x) /\ sender' = sender
      /\ channel' = channel /\ sent' = sent
  BY DEF receive, handle_inbound_seq, Silent
<1>2. PICK n \in DOMAIN sent : x = sent[n] \/ \E i \in 1 .. Len(sent[n]) : x = Altered(sent[n], i)
  BY DEF FixOK
<1>3. FixMessage(sent[n], n) /\ n \in Nat
  BY DEF FixOK
<1>4. x = sent[n]
  BY <1>1, <1>2, <1>3, AlteredFails
<1>5. kMaxFields \in Nat
  BY EncodingAssumption
<1>6. s = n \/ s = 0
  BY <1>3, <1>4, <1>5, MessageNumber
<1>7. peer \in Nat \ {0} /\ taken \in Seq(Seq(FixPieces)) /\ Len(taken) = peer - 1
  BY DEF FixOK
<1> HIDE DEF s
<1>8. n = peer
  BY <1>1, <1>6, <1>7
<1>9. x \in Seq(FixPieces)
  BY <1>3, <1>4, MessagePieces
<1>10. /\ taken' \in Seq(Seq(FixPieces)) /\ Len(taken') = peer /\ taken'[peer] = x
       /\ \A i \in 1 .. peer - 1 : taken'[i] = taken[i]
  <2> DEFINE q == taken
             T == Seq(FixPieces)
  <2>1. q \in Seq(T) /\ Len(q) = peer - 1 /\ x \in T /\ peer \in Nat \ {0}
    BY <1>7, <1>9
  <2> HIDE DEF q, T
  <2>2. /\ Append(q, x) \in Seq(T) /\ Len(Append(q, x)) = peer /\ Append(q, x)[peer] = x
        /\ \A i \in 1 .. peer - 1 : Append(q, x)[i] = q[i]
    BY ONLY <2>1
  <2> QED BY <1>1, <2>2 DEF q, T
<1>11. peer' \in Nat \ {0} /\ Len(taken') = peer' - 1
  BY <1>1, <1>7, <1>10
<1>12. \A i \in 1 .. Len(taken') : i \in DOMAIN sent' /\ taken'[i] = sent'[i]
  <2> TAKE i \in 1 .. Len(taken')
  <2>1. CASE i = peer
    BY <1>1, <1>4, <1>8, <1>10, <2>1
  <2>2. CASE i # peer
    <3>1. i \in 1 .. peer - 1 /\ i \in 1 .. Len(taken)
      BY <1>7, <1>10, <2>2
    <3> QED BY <1>1, <1>10, <3>1 DEF FixOK
  <2> QED BY <2>1, <2>2
<1> QED BY <1>1, <1>10, <1>11, <1>12 DEF FixOK

LEMMA FixKeeps == ASSUME FixOK, FixNext PROVE FixOK'
<1>0. sender \in [next_out_seq : Nat \ {0}, state : {"active", "disconnected"}]
  BY DEF FixOK
<1>1. CASE on_logon \/ on_logout
  <2>1. PICK st \in {"active", "disconnected"} : sender' = [sender EXCEPT !.state = st]
    BY <1>1 DEF on_logon, on_logout
  <2>2. sender' \in [next_out_seq : Nat \ {0}, state : {"active", "disconnected"}] /\ sender'.next_out_seq = sender.next_out_seq
    BY <1>0, <2>1
  <2>3. Silent /\ UNCHANGED <<peer, taken>>
    BY <1>1 DEF on_logon, on_logout
  <2>4. sender'.next_out_seq >= sender.next_out_seq
    BY <1>0, <2>2
  <2> QED BY <2>2, <2>3, <2>4, FixKeepsSilent
<1>2. ASSUME NEW max_len \in FixBuffers, format_logon(max_len) PROVE FixOK'
  <2>1. Draws /\ Writes("logon", 0)
    BY <1>2 DEF format_logon
  <2> QED BY <2>1, FixKeepsWritten DEF FixWrites
<1>3. ASSUME NEW max_len \in FixBuffers, NEW content \in 0 .. 1, format_heartbeat(max_len, content) PROVE FixOK'
  <2>1. Draws /\ Writes("heartbeat", content)
    BY <1>3 DEF format_heartbeat
  <2> QED BY <2>1, FixKeepsWritten DEF FixWrites
<1>4. ASSUME NEW max_len \in FixBuffers, NEW content \in 0 .. 1, format_execution_report(max_len, content) PROVE FixOK'
  <2>1. Draws /\ (Silent \/ Writes("report", content))
    BY <1>4 DEF format_execution_report
  <2>2. CASE Writes("report", content)
    BY <2>1, <2>2, FixKeepsWritten DEF FixWrites
  <2>3. CASE Silent
    <3>1. sender' = [sender EXCEPT !.next_out_seq = @ + 1] /\ UNCHANGED <<peer, taken>>
      BY <2>1 DEF Draws
    <3>2. /\ sender' \in [next_out_seq : Nat \ {0}, state : {"active", "disconnected"}]
          /\ sender'.next_out_seq = sender.next_out_seq + 1
      BY <1>0, <3>1
    <3>3. sender'.next_out_seq >= sender.next_out_seq
      BY <1>0, <3>2
    <3> QED BY <2>3, <3>1, <3>2, <3>3, FixKeepsSilent
  <2> QED BY <2>1, <2>2, <2>3
<1>5. ASSUME NEW x \in channel, lose(x) PROVE FixOK'
  <2>1. channel' \subseteq channel /\ UNCHANGED <<sender, peer, sent, taken>>
    BY <1>5 DEF lose
  <2> QED BY <2>1 DEF FixOK
<1>6. ASSUME NEW n \in DOMAIN sent, alter(sent[n]) PROVE FixOK'
  <2>1. PICK i \in DOMAIN sent[n] : channel' = channel \cup {Altered(sent[n], i)}
    BY <1>6 DEF alter, Altered
  <2>2. UNCHANGED <<sender, peer, sent, taken>>
    BY <1>6 DEF alter
  <2>3. FixMessage(sent[n], n)
    BY DEF FixOK
  <2>4. i \in 1 .. Len(sent[n])
    BY <2>1, <2>3, MessagePieces
  <2>5. \A x \in channel' : \E k \in DOMAIN sent : x = sent[k] \/ \E j \in 1 .. Len(sent[k]) : x = Altered(sent[k], j)
    BY <2>1, <2>4 DEF FixOK
  <2> QED BY <2>2, <2>5 DEF FixOK
<1> QED BY <1>1, <1>2, <1>3, <1>4, <1>5, <1>6, FixKeepsReceive DEF FixNext

-----------------------------------------------------------------------------
(***************************************************************************)
(* The venue's controls together.                                          *)
(***************************************************************************)
\* What a step may do to one of these parts.
SessionStep ==
    /\ GuardNext \/ UNCHANGED guard
    /\ CopyNext \/ UNCHANGED copy
    /\ OfficesNext \/ UNCHANGED offices
    /\ WatchdogNext \/ UNCHANGED watchdog
EncodingStep ==
    /\ OuchNext \/ UNCHANGED ouchVars
    /\ FixNext \/ UNCHANGED fixVars


LEMMA SessionSteps == [Next]_vars => SessionStep
<1>1. GuardNext => UNCHANGED <<copy, offices, watchdog>>
  BY DEF GuardNext, validate_inbound_message, terminate_session
<1>2. CopyNext => UNCHANGED <<guard, offices, watchdog>>
  BY DEF CopyNext, publish_execution
<1>3. OfficesNext => UNCHANGED <<guard, copy, watchdog>>
  BY DEF OfficesNext, record_front_office, record_back_office, reconcile_trades
<1>4. WatchdogNext => UNCHANGED <<guard, copy, offices>>
  BY DEF WatchdogNext, record_sample, watchdog_reset
<1>5. [Next]_vars => GuardNext \/ CopyNext \/ OfficesNext \/ WatchdogNext \/ UNCHANGED sessionVars
  BY DEF vars, allVars, Next, Alone, Encodings, Tables, Limits, Trails_, Metrics, Conditional,
         Venues, Sessions
<1>6. UNCHANGED sessionVars => UNCHANGED <<guard, copy, offices, watchdog>>
  BY DEF sessionVars
<1> QED BY <1>1, <1>2, <1>3, <1>4, <1>5, <1>6 DEF SessionStep

LEMMA EncodingSteps == [Next]_vars => EncodingStep
<1>1. [Next]_vars => (OuchNext /\ UNCHANGED fixVars) \/ (FixNext /\ UNCHANGED ouchVars) \/ UNCHANGED encodingVars
  BY DEF vars, allVars, Next, Alone, Encodings
<1>2. UNCHANGED encodingVars => UNCHANGED ouchVars /\ UNCHANGED fixVars
  BY DEF encodingVars
<1> QED BY <1>1, <1>2 DEF EncodingStep

SessionsInv == GuardOK(guard) /\ CopyOK(copy) /\ OfficesOK(offices) /\ WatchdogOK(watchdog)
EncodingsInv == OuchOK /\ FixOK
VenueInv == ProtectionsInv /\ SessionsInv /\ EncodingsInv

LEMMA VenueStarts == Init => VenueInv
<1>1. Init => ProtectionsInit /\ SessionsInit /\ EncodingInit
  BY DEF Init
<1>2. SessionsInit => SessionsInv
  BY GuardStarts, CopyStarts, OfficesStart, WatchdogStarts DEF SessionsInit, SessionsInv
<1>3. EncodingInit => EncodingsInv
  BY OuchStarts, FixStarts DEF EncodingInit, EncodingsInv
<1> QED BY <1>1, <1>2, <1>3, ProtectionsStart DEF VenueInv

LEMMA VenueKeeps == VenueInv /\ [Next]_vars => VenueInv'
<1> SUFFICES ASSUME VenueInv, [Next]_vars PROVE VenueInv'
  OBVIOUS
<1>1. ProtectionsInv'
  BY ProtectionSteps, ProtectionsKeep DEF VenueInv
<1>2. SessionsInv'
  <2>1. SessionsInv /\ SessionStep
    BY SessionSteps DEF VenueInv
  <2>2. GuardOK(guard)'
    <3>1. CASE GuardNext
      BY <2>1, <3>1, GuardKeeps DEF SessionsInv
    <3>2. CASE guard' = guard
      BY <2>1, <3>2 DEF SessionsInv
    <3> QED BY <2>1, <3>1, <3>2 DEF SessionStep
  <2>3. CopyOK(copy)'
    <3>1. CASE CopyNext
      BY <2>1, <3>1, CopyKeeps DEF SessionsInv
    <3>2. CASE copy' = copy
      BY <2>1, <3>2 DEF SessionsInv
    <3> QED BY <2>1, <3>1, <3>2 DEF SessionStep
  <2>4. OfficesOK(offices)'
    <3>1. CASE OfficesNext
      BY <2>1, <3>1, OfficesKeep DEF SessionsInv
    <3>2. CASE offices' = offices
      BY <2>1, <3>2 DEF SessionsInv
    <3> QED BY <2>1, <3>1, <3>2 DEF SessionStep
  <2>5. WatchdogOK(watchdog)'
    <3>1. CASE WatchdogNext
      BY <2>1, <3>1, WatchdogKeeps DEF SessionsInv
    <3>2. CASE watchdog' = watchdog
      BY <2>1, <3>2 DEF SessionsInv
    <3> QED BY <2>1, <3>1, <3>2 DEF SessionStep
  <2> QED BY <2>2, <2>3, <2>4, <2>5 DEF SessionsInv
<1>3. EncodingsInv'
  <2>1. EncodingsInv /\ EncodingStep
    BY EncodingSteps DEF VenueInv
  <2>2. OuchOK'
    <3>1. CASE OuchNext
      BY <2>1, <3>1, OuchKeeps DEF EncodingsInv
    <3>2. CASE UNCHANGED ouchVars
      BY <2>1, <3>2 DEF EncodingsInv, OuchOK, ouchVars
    <3> QED BY <2>1, <3>1, <3>2 DEF EncodingStep
  <2>3. FixOK'
    <3>1. CASE FixNext
      BY <2>1, <3>1, FixKeeps DEF EncodingsInv
    <3>2. CASE UNCHANGED fixVars
      <4>1. sender' = sender /\ peer' = peer /\ channel' = channel /\ sent' = sent /\ taken' = taken
        BY <3>2 DEF fixVars
      <4> QED BY <2>1, <4>1 DEF EncodingsInv, FixOK
    <3> QED BY <2>1, <3>1, <3>2 DEF EncodingStep
  <2> QED BY <2>2, <2>3 DEF EncodingsInv
<1> QED BY <1>1, <1>2, <1>3 DEF VenueInv

\* VenueControlsSound, for every limit, band, window, buffer, message and text of the
\* research headers and the encoders: luv_stp.hpp, luv_luld.hpp, luv_locate.hpp and
\* luv_sec_rule_201_uptick.hpp let nothing past their limits, the session services answer for the
\* calls they were given, an OUCH packet carries its intent whatever the buffer held,
\* and over a channel that loses, repeats, reorders and alters messages the FIX session
\* accepts exactly the ones written, in order.
THEOREM VenueControlsHold == Spec => []VenueControlsSound
<1>1. VenueInv => VenueControlsSound
  <2> SUFFICES ASSUME VenueInv PROVE VenueControlsSound
    OBVIOUS
  <2>1. ProtectionsSound /\ SelfTradesPrevented
    BY ProtectionsSuffice, StpPrevents DEF VenueInv
  <2>2. SessionsSound
    BY GuardSuffices, CopySuffices, OfficesSuffice, WatchdogSuffices DEF VenueInv, SessionsInv, SessionsSound
  <2>3. PacketCarriesIntent /\ ParsesPieces /\ FixInOrder
    BY OuchSuffices, FixParses, FixSuffices DEF VenueInv, EncodingsInv
  <2> QED BY <2>1, <2>2, <2>3 DEF VenueControlsSound
<1> QED BY <1>1, VenueStarts, VenueKeeps, PTL DEF Spec
=============================================================================
