-------------------------- MODULE PoolLedgerProofs --------------------------
(***************************************************************************)
(* What each operation does to a sound, backed ledger, for every scale,    *)
(* amount and utilisation ceiling.                                         *)
(***************************************************************************)
EXTENDS PoolLedger, TLAPS

-----------------------------------------------------------------------------
(* Integer division *)

LEMMA FloorBounds ==
    ASSUME NEW a \in Int, NEW b \in Nat \ {0}
    PROVE  /\ a \div b \in Int
           /\ b * (a \div b) <= a
           /\ a < b * (a \div b) + b
OBVIOUS

LEMMA FloorNat ==
    ASSUME NEW a \in Nat, NEW b \in Nat \ {0}
    PROVE  a \div b \in Nat
OBVIOUS

\* An integer is at most a quotient when its multiple is at most the dividend.
LEMMA FloorAbove ==
    ASSUME NEW a \in Int, NEW q \in Int, NEW b \in Nat \ {0}, b * q <= a
    PROVE  q <= a \div b
BY FloorBounds

LEMMA MulMono ==
    ASSUME NEW k \in Nat, NEW x \in Int, NEW y \in Int, x <= y
    PROVE  k * x <= k * y
OBVIOUS

\* Rounding two parts down never gives more than rounding the whole down.
LEMMA FloorSplit ==
    ASSUME NEW a \in Int, NEW c \in Int, NEW b \in Nat \ {0}
    PROVE  (a \div b) + (c \div b) <= (a + c) \div b
<1>1. b * (a \div b) <= a /\ b * (c \div b) <= c /\ a \div b \in Int /\ c \div b \in Int
    BY FloorBounds
<1>2. b * ((a \div b) + (c \div b)) = b * (a \div b) + b * (c \div b)
    BY <1>1
<1>3. b * ((a \div b) + (c \div b)) <= a + c
    BY <1>1, <1>2
<1> QED
    BY <1>1, <1>3, FloorAbove

-----------------------------------------------------------------------------
(* The clamp *)

LEMMA UtilLimitInt ==
    ASSUME NEW capital \in Int, NEW mu \in Int
    PROVE  UtilLimit(capital, mu) \in Int
<1>1. capital * mu \in Int /\ -(capital * mu) \in Int
    OBVIOUS
<1> QED
    BY <1>1, FloorBounds, ScaleAssumption DEF UtilLimit, TruncDiv

\* The clamp sets capital and ceiling, leaves supply and NAV alone, and ends
\* within the utilisation ceiling whatever they are.
LEMMA Clamp ==
    ASSUME NEW p \in Ledger, NEW capital \in Int, NEW mu \in Int,
           NEW q, q = ClampedTo(p, capital, mu)
    PROVE  /\ q \in Ledger
           /\ q.total_capital = capital /\ q.max_util = mu
           /\ q.total_shares = p.total_shares /\ q.nav = p.nav
           /\ p.written \subseteq q.written
           /\ q.written \subseteq p.written \cup {"FINANCED_AMT"}
           /\ WithinUtilisation(q)
<1> DEFINE limit == UtilLimit(capital, mu)
<1>1. limit \in Int
    BY UtilLimitInt
<1> HIDE DEF limit
<1> DEFINE fin == IF p.financed_amt > limit THEN limit ELSE p.financed_amt
           wr  == IF p.financed_amt > limit THEN p.written \cup {"FINANCED_AMT"} ELSE p.written
<1>2. q = [p EXCEPT !.total_capital = capital, !.max_util = mu,
                    !.financed_amt = fin, !.written = wr]
    BY DEF ClampedTo, limit
<1>3. p.financed_amt \in Int /\ p.written \in SUBSET LedgerKey
    BY DEF Ledger
<1>4. fin \in Int /\ fin <= limit
    BY <1>1, <1>3
<1>5. wr \in SUBSET LedgerKey /\ p.written \subseteq wr /\ wr \subseteq p.written \cup {"FINANCED_AMT"}
    BY <1>3 DEF LedgerKey
<1> HIDE DEF fin, wr
<1>6. q \in Ledger
    BY <1>2, <1>4, <1>5 DEF Ledger
<1>7. /\ q.total_capital = capital /\ q.max_util = mu
      /\ q.total_shares = p.total_shares /\ q.nav = p.nav
      /\ q.written = wr /\ q.financed_amt = fin
    BY <1>2 DEF Ledger
<1> QED
    BY <1>4, <1>5, <1>6, <1>7 DEF WithinUtilisation, limit

-----------------------------------------------------------------------------
(* Conversions *)

LEMMA CapitalAtNat ==
    ASSUME NEW s \in Nat, NEW v \in Nat
    PROVE  CapitalAt(s, v) \in Nat
BY FloorNat, ScaleAssumption DEF CapitalAt

\* Capital derived from the supply is the value of the shares rounded down.
LEMMA DerivedCapitalBacks ==
    ASSUME NEW p \in Ledger, p.total_shares \in Nat, p.nav \in Nat,
           p.total_capital = CapitalAt(p.total_shares, p.nav)
    PROVE  Backed(p)
<1>1. p.total_shares * p.nav \in Int
    OBVIOUS
<1>2. /\ CapitalAt(p.total_shares, p.nav) \in Int
      /\ NAV_SCALE * CapitalAt(p.total_shares, p.nav) <= p.total_shares * p.nav
      /\ p.total_shares * p.nav < NAV_SCALE * CapitalAt(p.total_shares, p.nav) + NAV_SCALE
    BY <1>1, FloorBounds, ScaleAssumption DEF CapitalAt
<1>3. NAV_SCALE * p.total_capital = p.total_capital * NAV_SCALE
    BY <1>2, ScaleAssumption
<1> QED
    BY <1>1, <1>2, <1>3, ScaleAssumption DEF Backed

LEMMA SharesForNat ==
    ASSUME NEW a \in Nat, NEW v \in Nat \ {0}
    PROVE  SharesFor(a, v) \in Nat
BY FloorNat, ScaleAssumption DEF SharesFor

\* Buying shares and selling them at the same NAV never pays more than was paid.
THEOREM RoundTripNeverProfits ==
    ASSUME NEW a \in Nat, NEW v \in Nat \ {0}
    PROVE  CapitalAt(SharesFor(a, v), v) <= a
<1> DEFINE s == SharesFor(a, v)
           c == CapitalAt(s, v)
<1>1. s \in Nat /\ c \in Nat
    BY SharesForNat, CapitalAtNat
<1>2. v * s <= a * NAV_SCALE
    BY FloorBounds, ScaleAssumption DEF SharesFor
<1>3. NAV_SCALE * c <= s * v
    BY <1>1, FloorBounds, ScaleAssumption DEF CapitalAt
<1>4. NAV_SCALE * c <= NAV_SCALE * a
    BY <1>1, <1>2, <1>3, ScaleAssumption
<1> HIDE DEF s, c
<1>5. c > a => NAV_SCALE * (a + 1) <= NAV_SCALE * c
    BY <1>1, MulMono, ScaleAssumption
<1>6. NAV_SCALE * (a + 1) = NAV_SCALE * a + NAV_SCALE
    BY ScaleAssumption
<1>7. c <= a
    BY <1>1, <1>4, <1>5, <1>6, ScaleAssumption
<1> QED
    BY <1>7 DEF s, c

\* A backed ledger records at least the value of its shares rounded down.
LEMMA CapitalCovers ==
    ASSUME NEW p, SoundLedger(p), Backed(p)
    PROVE  CapitalAt(p.total_shares, p.nav) <= p.total_capital
<1> DEFINE c == CapitalAt(p.total_shares, p.nav)
           cap == p.total_capital
           v == p.total_shares * p.nav
<1>0. p.total_shares \in Nat /\ p.nav \in Nat /\ p.total_capital \in Nat
    BY DEF SoundLedger
<1>1. p.total_shares \in Nat /\ p.nav \in Nat /\ cap \in Nat /\ c \in Nat /\ v \in Int
    <2>1. c \in Nat
        BY <1>0, CapitalAtNat
    <2>2. v \in Int
        BY <1>0
    <2> QED
        BY <1>0, <2>1, <2>2
<1>2. NAV_SCALE * c <= v
    BY <1>1, FloorBounds, ScaleAssumption DEF CapitalAt
<1>3. v < NAV_SCALE * cap + NAV_SCALE
    <2>1. CASE p.total_shares = 0
        BY <1>1, <2>1, ScaleAssumption
    <2>2. CASE p.total_shares > 0
        BY <1>1, <2>2, ScaleAssumption DEF Backed
    <2> QED
        BY <1>1, <2>1, <2>2
<1> HIDE DEF c, cap, v
<1>4. c > cap => NAV_SCALE * (cap + 1) <= NAV_SCALE * c
    BY <1>1, MulMono, ScaleAssumption
<1>5. NAV_SCALE * (cap + 1) = NAV_SCALE * cap + NAV_SCALE
    BY <1>1, ScaleAssumption
<1>6. c <= cap
    BY <1>1, <1>2, <1>3, <1>4, <1>5, ScaleAssumption
<1> QED
    BY <1>6 DEF c, cap

-----------------------------------------------------------------------------
(* The operations *)

\* The fields of a sound ledger once initialize has run.
LEMMA SoundFields ==
    ASSUME NEW p, SoundLedger(p)
    PROVE  /\ p \in Ledger
           /\ p.total_shares \in Nat /\ p.total_capital \in Nat /\ p.nav \in Nat
           /\ p.max_util \in Int /\ p.financed_amt \in Int
           /\ "NAV" \in p.written => p.nav \in Nat \ {0} /\ p.written = LedgerKey
           /\ "TOTAL_SHARES" \in p.written => "NAV" \in p.written
BY DEF SoundLedger, Ledger, LedgerKey

LEMMA InitializedSound ==
    ASSUME NEW mu \in Int
    PROVE  SoundLedger(Initialized(mu)) /\ Backed(Initialized(mu)) /\ WithinUtilisation(Initialized(mu))
<1>1. SoundLedger(Initialized(mu)) /\ Backed(Initialized(mu))
    BY ScaleAssumption DEF Initialized, SoundLedger, Backed, Ledger, LedgerKey
<1>2. 0 * mu = 0 /\ 0 \div BPS_SCALE = 0
    BY ScaleAssumption
<1> QED
    BY <1>1, <1>2 DEF WithinUtilisation, UtilLimit, TruncDiv, Initialized

\* deposit: the supply grows by the shares minted, NAV stays, and the capital
\* booked grows by at most the amount paid in.
LEMMA DepositSound ==
    ASSUME NEW p, SoundLedger(p), Backed(p), NEW a \in Int, MayDeposit(p, a),
           NEW q, q = AfterDeposit(p, a)
    PROVE  /\ SoundLedger(q) /\ Backed(q)
           /\ SharesFor(a, p.nav) \in Nat
           /\ q.total_shares = p.total_shares + SharesFor(a, p.nav)
           /\ q.nav = p.nav /\ q.max_util = p.max_util /\ q.written = p.written
           /\ q.total_capital <= p.total_capital + a
<1> DEFINE m == SharesFor(a, p.nav)
           supply == p.total_shares + m
           cap == CapitalAt(supply, p.nav)
<1>1. a \in Nat /\ "NAV" \in p.written /\ p.nav \in Nat \ {0} /\ p.written = LedgerKey
    BY SoundFields DEF MayDeposit
<1>2. m \in Nat /\ supply \in Nat /\ cap \in Nat
    <2>1. m \in Nat
        BY <1>1, SharesForNat
    <2>2. supply \in Nat
        <3> HIDE DEF m
        <3> QED
            BY <2>1, SoundFields
    <2>3. cap \in Nat
        <3> HIDE DEF supply
        <3> QED
            BY <1>1, <2>2, CapitalAtNat
    <2> QED
        BY <2>1, <2>2, <2>3
<1>3. q = [p EXCEPT !.total_shares = supply, !.total_capital = cap]
    BY DEF AfterDeposit
<1>4. q.total_capital <= p.total_capital + a
    <2> DEFINE c == p.total_capital
               v == p.nav
               s == p.total_shares
    <2>1. c \in Nat /\ v \in Nat /\ s \in Nat /\ q.total_capital = cap
        BY <1>3, SoundFields DEF Ledger
    <2>2. NAV_SCALE * cap <= supply * v
        BY <1>2, <2>1, FloorBounds, ScaleAssumption DEF CapitalAt
    <2>3. v * m <= a * NAV_SCALE
        BY <1>1, FloorBounds, ScaleAssumption DEF SharesFor
    <2>4. s * v < NAV_SCALE * c + NAV_SCALE
        <3>1. CASE s = 0
            BY <2>1, <3>1, ScaleAssumption
        <3>2. CASE s > 0
            BY <2>1, <3>2, ScaleAssumption DEF Backed
        <3> QED
            BY <2>1, <3>1, <3>2
    <2>5. supply * v = s * v + v * m
        BY <1>2, <2>1
    <2> HIDE DEF c, v, s, supply, m, cap
    <2>6. s * v \in Int /\ v * m \in Int /\ a * NAV_SCALE = NAV_SCALE * a
        BY <1>1, <1>2, <2>1, ScaleAssumption
    <2>7. NAV_SCALE * cap < NAV_SCALE * c + NAV_SCALE + NAV_SCALE * a
        BY <1>1, <1>2, <2>1, <2>2, <2>3, <2>4, <2>5, <2>6, ScaleAssumption
    <2>8. cap > c + a => NAV_SCALE * (c + a + 1) <= NAV_SCALE * cap
        BY <1>1, <1>2, <2>1, MulMono, ScaleAssumption
    <2>9. NAV_SCALE * (c + a + 1) = NAV_SCALE * c + NAV_SCALE * a + NAV_SCALE
        BY <1>1, <2>1, ScaleAssumption
    <2>10. cap <= c + a
        BY <1>1, <1>2, <2>1, <2>7, <2>8, <2>9, ScaleAssumption
    <2> QED
        BY <2>1, <2>10 DEF c
<1> HIDE DEF supply, cap
<1>5. /\ q \in Ledger /\ q.total_shares = supply /\ q.total_capital = cap
      /\ q.nav = p.nav /\ q.max_util = p.max_util /\ q.written = p.written
    <2>1. p \in Ledger
        BY SoundFields
    <2>2. supply \in Int /\ cap \in Int
        BY <1>2
    <2>3. q \in Ledger
        BY ONLY <1>3, <2>1, <2>2 DEF Ledger
    <2>4. /\ q.total_shares = supply /\ q.total_capital = cap
          /\ q.nav = p.nav /\ q.max_util = p.max_util /\ q.written = p.written
        BY ONLY <1>3, <2>1 DEF Ledger
    <2> QED
        BY <2>3, <2>4
<1>6. SoundLedger(q)
    BY <1>1, <1>2, <1>5 DEF SoundLedger
<1>7. Backed(q)
    BY <1>1, <1>2, <1>5, DerivedCapitalBacks DEF cap
<1> QED
    BY <1>2, <1>4, <1>5, <1>6, <1>7 DEF supply

\* withdraw: the supply falls by the shares burned, NAV stays, financed_amt ends
\* within the ceiling, and the capital written off is at least what is paid.
LEMMA WithdrawSound ==
    ASSUME NEW p, SoundLedger(p), Backed(p), NEW n \in Int, NEW bps \in Int,
           MayWithdraw(p, n, bps), n <= p.total_shares,
           NEW q, q = AfterWithdraw(p, n)
    PROVE  /\ SoundLedger(q) /\ Backed(q) /\ WithinUtilisation(q)
           /\ n \in Nat
           /\ q.total_shares = p.total_shares - n
           /\ q.nav = p.nav /\ q.max_util = p.max_util
           /\ q.total_capital + CapitalAt(n, p.nav) <= p.total_capital
<1> DEFINE supply == p.total_shares - n
           cap == CapitalAt(supply, p.nav)
           r == [p EXCEPT !.total_shares = supply]
<1>1. /\ n \in Nat /\ supply \in Nat
      /\ p.nav \in Nat \ {0} /\ p.written = LedgerKey /\ p.max_util \in Int
    BY SoundFields DEF MayWithdraw
<1>2. cap \in Nat
    BY <1>1, CapitalAtNat
<1>3. r \in Ledger /\ r.total_shares = supply /\ r.nav = p.nav /\ r.written = p.written
    BY <1>1, SoundFields DEF Ledger
<1>4. q = ClampedTo(r, cap, p.max_util)
    BY DEF AfterWithdraw
<1> HIDE DEF r, supply, cap
<1>5. /\ q \in Ledger /\ q.total_capital = cap /\ q.max_util = p.max_util
      /\ q.total_shares = supply /\ q.nav = p.nav
      /\ r.written \subseteq q.written /\ WithinUtilisation(q)
    <2>1. cap \in Int /\ p.max_util \in Int
        BY <1>1, <1>2
    <2> QED
        BY <1>3, <1>4, <2>1, Clamp
<1>6. q.written = LedgerKey
    BY <1>1, <1>3, <1>5 DEF Ledger
<1>7. SoundLedger(q)
    BY <1>1, <1>2, <1>5, <1>6 DEF SoundLedger, LedgerKey
<1>8. Backed(q)
    BY <1>1, <1>5, DerivedCapitalBacks DEF cap
<1>9. cap + CapitalAt(n, p.nav) <= p.total_capital
    <2>1. p.total_shares \in Nat
        BY SoundFields
    <2>2. supply * p.nav \in Int /\ n * p.nav \in Int
        BY <1>1
    <2>3. supply * p.nav + n * p.nav = p.total_shares * p.nav
        BY <1>1, <2>1 DEF supply
    <2>4. cap + CapitalAt(n, p.nav) <= CapitalAt(p.total_shares, p.nav)
        BY <2>2, <2>3, FloorSplit, ScaleAssumption DEF cap, CapitalAt
    <2>5. CapitalAt(p.total_shares, p.nav) \in Nat /\ CapitalAt(n, p.nav) \in Nat /\ p.total_capital \in Nat
        BY <1>1, <2>1, CapitalAtNat, SoundFields
    <2> QED
        BY <1>2, <2>4, <2>5, CapitalCovers
<1> QED
    BY <1>1, <1>5, <1>7, <1>8, <1>9 DEF supply

\* finance: only financed_amt moves, and it ends within the ceiling.
LEMMA FinanceSound ==
    ASSUME NEW p, SoundLedger(p), Backed(p), NEW a \in Int, MayFinance(p, a),
           NEW q, q = AfterFinance(p, a)
    PROVE  /\ SoundLedger(q) /\ Backed(q) /\ WithinUtilisation(q)
           /\ q.total_shares = p.total_shares /\ q.nav = p.nav
           /\ q.max_util = p.max_util /\ q.total_capital = p.total_capital
           /\ q.financed_amt = p.financed_amt + a
<1>1. p \in Ledger /\ p.financed_amt + a \in Int
    BY SoundFields
<1>2. q = [p EXCEPT !.financed_amt = p.financed_amt + a]
    BY DEF AfterFinance
<1>3. q \in Ledger
    BY ONLY <1>1, <1>2 DEF Ledger
<1>4. /\ q.total_shares = p.total_shares /\ q.nav = p.nav /\ q.written = p.written
      /\ q.max_util = p.max_util /\ q.total_capital = p.total_capital
      /\ q.financed_amt = p.financed_amt + a
    BY ONLY <1>1, <1>2 DEF Ledger
<1>5. SoundLedger(q) /\ Backed(q)
    BY <1>3, <1>4 DEF SoundLedger, Backed
<1>6. WithinUtilisation(q)
    BY <1>4 DEF MayFinance, WithinUtilisation
<1> QED
    BY <1>4, <1>5, <1>6

\* set_nav: the supply stays and the capital is derived from it at the new NAV.
LEMMA SetNavSound ==
    ASSUME NEW p, SoundLedger(p), NEW v \in Int, MaySetNav(p, v),
           NEW q, q = AfterSetNav(p, v)
    PROVE  /\ SoundLedger(q) /\ Backed(q) /\ WithinUtilisation(q)
           /\ q.total_shares = p.total_shares /\ q.nav = v /\ q.max_util = p.max_util
<1> DEFINE cap == CapitalAt(p.total_shares, v)
           r == [p EXCEPT !.nav = v]
<1>1. /\ v \in Nat \ {0} /\ p.total_shares \in Nat /\ p.max_util \in Int
      /\ p \in Ledger /\ p.written = LedgerKey
    BY SoundFields DEF MaySetNav
<1>2. cap \in Nat
    BY <1>1, CapitalAtNat
<1>3. q = ClampedTo(r, cap, p.max_util)
    BY DEF AfterSetNav
<1>4. r \in Ledger /\ r.total_shares = p.total_shares /\ r.nav = v /\ r.written = p.written
    BY <1>1 DEF Ledger
<1> HIDE DEF cap, r
<1>5. /\ q \in Ledger /\ q.total_capital = cap /\ q.max_util = p.max_util
      /\ q.total_shares = p.total_shares /\ q.nav = v
      /\ r.written \subseteq q.written /\ WithinUtilisation(q)
    <2>1. cap \in Int /\ p.max_util \in Int
        BY <1>1, <1>2
    <2> QED
        BY <1>3, <1>4, <2>1, Clamp
<1>6. q.written = LedgerKey
    BY <1>1, <1>4, <1>5 DEF Ledger
<1>7. SoundLedger(q)
    BY <1>1, <1>2, <1>5, <1>6 DEF SoundLedger, LedgerKey
<1>8. Backed(q)
    BY <1>1, <1>5, DerivedCapitalBacks DEF cap
<1> QED
    BY <1>5, <1>7, <1>8

\* apply_reserve_delta: the NAV derived from the new capital backs it.
LEMMA DeltaSound ==
    ASSUME NEW p, SoundLedger(p), NEW d \in Int, MayApplyReserveDelta(p, d),
           NEW q, q = AfterReserveDelta(p, d)
    PROVE  /\ SoundLedger(q) /\ Backed(q) /\ WithinUtilisation(q)
           /\ q.total_shares = p.total_shares /\ q.max_util = p.max_util
           /\ q.total_capital = p.total_capital + d
<1> DEFINE cap == p.total_capital + d
           nav == IF p.total_shares > 0 THEN NavAfterDelta(p, d) ELSE p.nav
           r == [p EXCEPT !.nav = nav, !.written = p.written \cup {"TOTAL_CAPITAL"}]
<1>1. /\ p.total_shares \in Nat /\ p.total_capital \in Nat /\ p.nav \in Nat
      /\ p.max_util \in Int /\ p \in Ledger
    BY SoundFields
<1>2. cap \in Nat /\ cap * NAV_SCALE \in Int
    BY <1>1, ScaleAssumption DEF MayApplyReserveDelta
<1>3. p.total_shares > 0 =>
        /\ nav \in Nat \ {0}
        /\ p.total_shares * nav <= cap * NAV_SCALE
        /\ cap * NAV_SCALE < p.total_shares * nav + p.total_shares
    <2>1. SUFFICES ASSUME p.total_shares > 0
                   PROVE  /\ nav \in Nat \ {0}
                          /\ p.total_shares * nav <= cap * NAV_SCALE
                          /\ cap * NAV_SCALE < p.total_shares * nav + p.total_shares
        OBVIOUS
    <2>2. nav = (cap * NAV_SCALE) \div p.total_shares /\ nav > 0
        BY <2>1 DEF NavAfterDelta, MayApplyReserveDelta
    <2>3. p.total_shares \in Nat \ {0}
        BY <1>1, <2>1
    <2> DEFINE scaled == cap * NAV_SCALE
               supply == p.total_shares
    <2> HIDE DEF cap, nav
    <2>4. scaled \in Int /\ supply \in Nat \ {0} /\ nav = scaled \div supply
        BY <1>2, <2>2, <2>3
    <2> HIDE DEF scaled, supply
    <2>5. nav \in Int /\ supply * nav <= scaled /\ scaled < supply * nav + supply
        BY <2>4, FloorBounds
    <2> QED
        BY <2>2, <2>5 DEF scaled, supply
<1>4. nav \in Nat /\ (p.total_shares = 0 => nav = p.nav)
    BY <1>1, <1>3
<1>5. q = ClampedTo(r, cap, p.max_util)
    <2>1. CASE p.total_shares > 0
        <3>1. r = [[p EXCEPT !.nav = NavAfterDelta(p, d)] EXCEPT !.written = @ \cup {"TOTAL_CAPITAL"}]
            BY <1>1, <2>1 DEF Ledger
        <3> QED
            BY <2>1, <3>1 DEF AfterReserveDelta
    <2>2. CASE ~(p.total_shares > 0)
        <3>1. r = [p EXCEPT !.written = @ \cup {"TOTAL_CAPITAL"}]
            BY <1>1, <2>2 DEF Ledger
        <3> QED
            BY <2>2, <3>1 DEF AfterReserveDelta
    <2> QED
        BY <2>1, <2>2
<1> HIDE DEF cap, nav
<1>6. /\ r \in Ledger /\ r.total_shares = p.total_shares /\ r.nav = nav
      /\ r.written = p.written \cup {"TOTAL_CAPITAL"}
    <2>1. nav \in Int /\ p.written \cup {"TOTAL_CAPITAL"} \in SUBSET LedgerKey
        BY <1>1, <1>4 DEF Ledger, LedgerKey
    <2>2. r \in Ledger
        BY ONLY <1>1, <2>1 DEF Ledger
    <2>3. /\ r.total_shares = p.total_shares /\ r.nav = nav
          /\ r.written = p.written \cup {"TOTAL_CAPITAL"}
        BY ONLY <1>1 DEF Ledger
    <2> QED
        BY <2>2, <2>3
<1> HIDE DEF r
<1>7. /\ q \in Ledger /\ q.total_capital = cap /\ q.max_util = p.max_util
      /\ q.total_shares = p.total_shares /\ q.nav = nav
      /\ r.written \subseteq q.written
      /\ q.written \subseteq r.written \cup {"FINANCED_AMT"} /\ WithinUtilisation(q)
    <2>1. cap \in Int /\ p.max_util \in Int
        BY <1>1, <1>2
    <2> QED
        BY <1>5, <1>6, <2>1, Clamp
<1>8. SoundLedger(q)
    <2>1. p.written \subseteq q.written
        BY <1>6, <1>7
    <2>2. q.written \subseteq p.written \cup {"TOTAL_CAPITAL", "FINANCED_AMT"} /\ q.written \subseteq LedgerKey
        BY <1>6, <1>7 DEF Ledger
    <2>3. \A k \in {"ADMIN", "NAV", "TOTAL_SHARES"} : k \in q.written <=> k \in p.written
        BY <2>1, <2>2
    <2>4. {"ADMIN", "NAV", "TOTAL_SHARES"} \cap p.written # {} => p.written = LedgerKey
        BY DEF SoundLedger
    <2>5. {"ADMIN", "NAV", "TOTAL_SHARES"} \cap q.written # {} => q.written = LedgerKey
        BY <2>1, <2>2, <2>3, <2>4
    <2>6. nav > 0 <=> "NAV" \in q.written
        BY <1>1, <1>3, <1>4, <2>3 DEF SoundLedger
    <2>7. "NAV" \notin q.written => q.total_shares = 0
        BY <1>7, <2>3 DEF SoundLedger
    <2> QED
        BY <1>1, <1>2, <1>4, <1>7, <2>5, <2>6, <2>7 DEF SoundLedger
<1>9. Backed(q)
    <2>1. SUFFICES ASSUME p.total_shares > 0
                   PROVE  /\ p.total_shares * nav - cap * NAV_SCALE < NAV_SCALE
                          /\ cap * NAV_SCALE - p.total_shares * nav < p.total_shares
        BY <1>7 DEF Backed
    <2>2. p.total_shares * nav \in Int
        BY <1>1, <1>4
    <2> QED
        BY <1>1, <1>2, <1>3, <2>1, <2>2, ScaleAssumption
<1> QED
    BY <1>7, <1>8, <1>9 DEF cap

\* apply_parameter: any new ceiling leaves shares, NAV and capital alone.
LEMMA MaxUtilSound ==
    ASSUME NEW p, SoundLedger(p), Backed(p), NEW mu \in Int,
           NEW q, q = AfterMaxUtil(p, mu)
    PROVE  /\ SoundLedger(q) /\ Backed(q) /\ WithinUtilisation(q)
           /\ q.total_shares = p.total_shares /\ q.nav = p.nav
           /\ q.max_util = mu /\ q.total_capital = p.total_capital
<1> DEFINE r == [p EXCEPT !.written = p.written \cup {"MAX_UTIL"}]
<1>1. p \in Ledger /\ p.total_capital \in Int
    BY SoundFields
<1>2. q = ClampedTo(r, p.total_capital, mu)
    BY DEF AfterMaxUtil
<1>3. /\ r \in Ledger /\ r.total_shares = p.total_shares /\ r.nav = p.nav
      /\ r.written = p.written \cup {"MAX_UTIL"}
    <2>1. p.written \cup {"MAX_UTIL"} \in SUBSET LedgerKey
        BY <1>1 DEF Ledger, LedgerKey
    <2>2. r \in Ledger
        BY ONLY <1>1, <2>1 DEF Ledger
    <2>3. /\ r.total_shares = p.total_shares /\ r.nav = p.nav
          /\ r.written = p.written \cup {"MAX_UTIL"}
        BY ONLY <1>1 DEF Ledger
    <2> QED
        BY <2>2, <2>3
<1> HIDE DEF r
<1>4. /\ q \in Ledger /\ q.total_capital = p.total_capital /\ q.max_util = mu
      /\ q.total_shares = p.total_shares /\ q.nav = p.nav
      /\ r.written \subseteq q.written
      /\ q.written \subseteq r.written \cup {"FINANCED_AMT"} /\ WithinUtilisation(q)
    BY <1>1, <1>2, <1>3, Clamp
<1>5. SoundLedger(q)
    <2>1. p.written \subseteq q.written
        BY <1>3, <1>4
    <2>2. q.written \subseteq p.written \cup {"MAX_UTIL", "FINANCED_AMT"} /\ q.written \subseteq LedgerKey
        BY <1>3, <1>4 DEF Ledger
    <2>3. \A k \in {"ADMIN", "NAV", "TOTAL_SHARES"} : k \in q.written <=> k \in p.written
        BY <2>1, <2>2
    <2>4. {"ADMIN", "NAV", "TOTAL_SHARES"} \cap p.written # {} => p.written = LedgerKey
        BY DEF SoundLedger
    <2>5. {"ADMIN", "NAV", "TOTAL_SHARES"} \cap q.written # {} => q.written = LedgerKey
        BY <2>1, <2>2, <2>3, <2>4
    <2>6. (p.nav > 0 <=> "NAV" \in q.written) /\ ("NAV" \notin q.written => p.total_shares = 0)
        BY <2>3 DEF SoundLedger
    <2> QED
        BY <1>4, <2>5, <2>6 DEF SoundLedger
<1>6. Backed(q)
    BY <1>4 DEF Backed
<1> QED
    BY <1>4, <1>5, <1>6
=============================================================================
