----------------------------- MODULE PoolLedger -----------------------------
(***************************************************************************)
(* The accounting of one pool: the record a PoolManager instance keeps in  *)
(* its instance storage and what each entrypoint does to it.  PoolManager  *)
(* composes these operators with the lender positions, the locks and the   *)
(* timelock of one pool; PoolRebalance with the ledgers of several pools.  *)
(*                                                                         *)
(* Amounts are Soroban i128 values.  The workspace builds with             *)
(* overflow-checks = true, so an arithmetic result outside i128 traps and  *)
(* the host reverts the invocation: every May... guard asks that each      *)
(* intermediate result Fits.  I128_MAX is a parameter, so that a small     *)
(* instance reaches the overflow boundary and its state space is finite.   *)
(***************************************************************************)
EXTENDS Integers

CONSTANTS
    NAV_SCALE,  \* NAV of 1.0 (1_000_000 in the code)
    BPS_SCALE,  \* 100% in basis points (10_000 in the code)
    I128_MAX    \* largest i128 value

ASSUME ScaleAssumption ==
    /\ NAV_SCALE \in Nat \ {0}
    /\ BPS_SCALE \in Nat \ {0}
    /\ I128_MAX \in Nat

Fits(x) == -I128_MAX - 1 <= x /\ x <= I128_MAX

\* Rust's i128 division truncates towards zero; TLA+'s \div rounds down.
TruncDiv(a, b) == IF a >= 0 THEN a \div b ELSE -((-a) \div b)

(***************************************************************************)
(* A value that was never written is held at the default the getters use   *)
(* (unwrap_or(0)); "written" tells an absent value from a stored zero, for *)
(* the reads that fail with NotInitialized when the key is absent.         *)
(***************************************************************************)
LedgerKey == {"ADMIN", "TOTAL_SHARES", "TOTAL_CAPITAL", "FINANCED_AMT", "MAX_UTIL", "NAV"}

Ledger ==
    [total_shares : Int, total_capital : Int, financed_amt : Int,
     max_util : Int, nav : Int, written : SUBSET LedgerKey]

Undeployed ==
    [total_shares |-> 0, total_capital |-> 0, financed_amt |-> 0,
     max_util |-> 0, nav |-> 0, written |-> {}]

Initialized(max_utilisation) ==
    [total_shares |-> 0, total_capital |-> 0, financed_amt |-> 0,
     max_util |-> max_utilisation, nav |-> NAV_SCALE, written |-> LedgerKey]

-----------------------------------------------------------------------------
(* Conversions between shares, capital and the utilisation ceiling. *)

SharesForRoundingUp(amount, nav) == (amount * NAV_SCALE + nav - 1) \div nav
SharesFor(amount, nav) == (amount * NAV_SCALE) \div nav

CapitalAt(shares, nav) == (shares * nav) \div NAV_SCALE

UtilLimit(capital, max_util) == TruncDiv(capital * max_util, BPS_SCALE)

(***************************************************************************)
(* The clamp that ends withdraw, set_nav, apply_reserve_delta and          *)
(* apply_parameter: a new capital or ceiling that no longer supports       *)
(* financed_amt lowers financed_amt to the limit.                          *)
(***************************************************************************)
UnclampedTo(p, capital, max_utilisation) ==
    [p EXCEPT !.total_capital = capital, !.max_util = max_utilisation]
ClampedTo(p, capital, max_utilisation) ==
    LET limit == UtilLimit(capital, max_utilisation)
        over  == p.financed_amt > limit
    IN [p EXCEPT !.total_capital = capital,
                 !.max_util      = max_utilisation,
                 !.financed_amt  = IF over THEN limit ELSE @,
                 !.written       = IF over THEN @ \cup {"FINANCED_AMT"} ELSE @]

-----------------------------------------------------------------------------
(* deposit and join_pool *)

MayDeposit(p, amount) ==
    LET minted == SharesFor(amount, p.nav)
        supply == p.total_shares + minted
    IN /\ amount > 0
       /\ {"NAV", "TOTAL_SHARES"} \subseteq p.written
       /\ Fits(amount * NAV_SCALE)
       /\ Fits(supply)
       /\ Fits(supply * p.nav)

AfterDeposit(p, amount) ==
    LET supply == p.total_shares + SharesFor(amount, p.nav)
    IN [p EXCEPT !.total_shares = supply, !.total_capital = CapitalAt(supply, p.nav)]

(* withdraw; the lock and the position check are PoolManager's *)

MayWithdraw(p, shares, withdraw_util_bps) ==
    LET capital == CapitalAt(p.total_shares - shares, p.nav)
    IN /\ shares > 0
       /\ p.total_capital > 0 =>
            /\ Fits(p.financed_amt * BPS_SCALE)
            /\ TruncDiv(p.financed_amt * BPS_SCALE, p.total_capital) <= withdraw_util_bps
       /\ {"NAV", "TOTAL_SHARES", "FINANCED_AMT", "MAX_UTIL"} \subseteq p.written
       /\ Fits(shares * p.nav)
       /\ Fits((p.total_shares - shares) * p.nav)
       /\ Fits(capital * p.max_util)

AfterWithdrawKeepingSupply(p, shares) ==
    ClampedTo(p, CapitalAt(p.total_shares - shares, p.nav), p.max_util)
AfterWithdraw(p, shares) ==
    LET supply == p.total_shares - shares
    IN ClampedTo([p EXCEPT !.total_shares = supply], CapitalAt(supply, p.nav), p.max_util)

(* finance *)

MayFinance(p, amount) ==
    /\ amount > 0
    /\ {"FINANCED_AMT", "TOTAL_CAPITAL", "MAX_UTIL"} \subseteq p.written
    /\ Fits(p.financed_amt + amount)
    /\ Fits(p.total_capital * p.max_util)
    /\ p.financed_amt + amount <= UtilLimit(p.total_capital, p.max_util)

AfterFinance(p, amount) == [p EXCEPT !.financed_amt = @ + amount]

(* set_nav *)

MaySetNav(p, new_nav) ==
    /\ new_nav > 0
    /\ {"TOTAL_SHARES", "MAX_UTIL", "FINANCED_AMT"} \subseteq p.written
    /\ Fits(p.total_shares * new_nav)
    /\ Fits(CapitalAt(p.total_shares, new_nav) * p.max_util)

AfterSetNav(p, new_nav) ==
    ClampedTo([p EXCEPT !.nav = new_nav], CapitalAt(p.total_shares, new_nav), p.max_util)

(* apply_reserve_delta: succeeds before initialize too *)

NavAfterDeltaRoundingUp(p, delta) ==
    ((p.total_capital + delta) * NAV_SCALE + p.total_shares - 1) \div p.total_shares
NavAfterDelta(p, delta) == ((p.total_capital + delta) * NAV_SCALE) \div p.total_shares

MayApplyReserveDeltaToZeroNav(p, delta) ==
    LET capital == p.total_capital + delta
    IN /\ Fits(capital)
       /\ capital >= 0
       /\ p.total_shares > 0 => Fits(capital * NAV_SCALE)
       /\ Fits(capital * p.max_util)
MayApplyReserveDelta(p, delta) ==
    LET capital == p.total_capital + delta
    IN /\ Fits(capital)
       /\ capital >= 0
       /\ p.total_shares > 0 =>
            /\ Fits(capital * NAV_SCALE)
            /\ NavAfterDelta(p, delta) > 0
       /\ Fits(capital * p.max_util)

AfterReserveDeltaStaleNav(p, delta) ==
    ClampedTo([p EXCEPT !.written = @ \cup {"TOTAL_CAPITAL"}],
              p.total_capital + delta, p.max_util)
AfterReserveDelta(p, delta) ==
    LET priced == IF p.total_shares > 0
                  THEN [p EXCEPT !.nav = NavAfterDelta(p, delta)]
                  ELSE p
    IN ClampedTo([priced EXCEPT !.written = @ \cup {"TOTAL_CAPITAL"}],
                 p.total_capital + delta, p.max_util)

(* apply_parameter for max_ut: any i128 value, before initialize too *)

MayApplyMaxUtil(p, new_value) == Fits(new_value) /\ Fits(p.total_capital * new_value)

AfterMaxUtil(p, new_value) ==
    ClampedTo([p EXCEPT !.written = @ \cup {"MAX_UTIL"}], p.total_capital, new_value)

\* The reserve getter: capital not currently financed.
Reserve(p) == p.total_capital - p.financed_amt

WithinUtilisation(p) == p.financed_amt <= UtilLimit(p.total_capital, p.max_util)

(***************************************************************************)
(* Supply and capital never go negative; initialize writes all keys at     *)
(* once, before any share exists, and from then on NAV is positive, so     *)
(* that deposit never divides by zero.                                     *)
(***************************************************************************)
SoundLedger(p) ==
    /\ p \in Ledger
    /\ p.total_shares \in Nat /\ p.total_capital \in Nat /\ p.nav \in Nat
    /\ {"ADMIN", "NAV", "TOTAL_SHARES"} \cap p.written # {} => p.written = LedgerKey
    /\ p.nav > 0 <=> "NAV" \in p.written
    /\ "NAV" \notin p.written => p.total_shares = 0

(***************************************************************************)
(* With shares outstanding, the capital recorded is worth the shares to    *)
(* less than a unit of capital below and a unit of NAV per share above.    *)
(***************************************************************************)
Backed(p) ==
    p.total_shares > 0 =>
        /\ p.total_shares * p.nav - p.total_capital * NAV_SCALE < NAV_SCALE
        /\ p.total_capital * NAV_SCALE - p.total_shares * p.nav < p.total_shares
=============================================================================
