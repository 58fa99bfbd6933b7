----------------------------- MODULE PoolManager -----------------------------
(***************************************************************************)
(* One deployed PoolManager contract: the pool ledger (PoolLedger), the    *)
(* lender positions with their withdrawal locks, the concentration         *)
(* exposures, the creation-time configuration and the timelocked change of *)
(* max_util.  Reserve rebalancing across pools is in PoolRebalance and the *)
(* Wasm upgrade queue in UpgradeQueue.                                     *)
(*                                                                         *)
(* The host runs one invocation at a time and reverts everything a failed  *)
(* one wrote, so each entrypoint is one action, enabled exactly when the   *)
(* invocation returns Ok.                                                  *)
(***************************************************************************)
EXTENDS PoolLedger, Sums, Sequences, FiniteSets

CONSTANTS
    Lender, Buyer, Sme,     \* symbol tags
    TIMELOCK_SECS,          \* 48h in the code
    NoTime, NoConfig,       \* absent DepositTimeKey entry, absent create_pool configuration
    \* inputs the environment may pass
    Amounts, ShareCounts, Navs, Deltas, MaxUtils,
    LockPeriods, WithdrawThresholds, ConcentrationLimits, PoolConfigs,
    \* bounds
    MaxTime, MaxActions

ASSUME InputAssumption ==
    /\ IsFiniteSet(Lender) /\ IsFiniteSet(Buyer) /\ IsFiniteSet(Sme)
    /\ TIMELOCK_SECS \in Nat
    /\ Amounts \subseteq Int /\ ShareCounts \subseteq Int /\ Navs \subseteq Int
    /\ Deltas \subseteq Int /\ MaxUtils \subseteq Int
    /\ LockPeriods \subseteq Nat /\ WithdrawThresholds \subseteq Int
    /\ ConcentrationLimits \subseteq Int
    /\ PoolConfigs \subseteq [buyer_limit_bps : Int, sme_limit_bps : Int,
                              min_deposit : Int, max_deposit : Int, reserve_ratio_bps : Int]
    /\ NoTime \notin Nat
    /\ NoConfig \notin PoolConfigs
    /\ MaxTime \in Nat /\ MaxActions \in Nat

VARIABLES
    pool,               \* the accounting keys of instance storage, a Ledger
    shares,             \* LenderPosition.shares by lender
    deposit_time,       \* DepositTimeKey by lender
    buyer_exposure,     \* BuyerExposureKey by buyer
    sme_exposure,       \* SmeExposureKey by SME
    config,             \* lock_secs, withdraw_util_bps, buyer_conc_bps, sme_conc_bps
    pool_cfg,           \* what create_pool stored
    admin_bound,        \* whether set_timelock_admin ran
    actions,            \* queued actions; action id i is actions[i + 1]
    now                 \* ledger timestamp

lenderVars == <<shares, deposit_time>>
exposureVars == <<buyer_exposure, sme_exposure>>
configVars == <<config, pool_cfg>>
timelockVars == <<admin_bound, actions>>
vars == <<pool, lenderVars, exposureVars, configVars, timelockVars, now>>

Param == {"max_ut", "other"}

QueuedAction ==
    [param : Param, new_value : Int, queued_at : Nat, execute_after : Nat,
     executed : BOOLEAN, cancelled : BOOLEAN]

Init ==
    /\ pool = Undeployed
    /\ shares = [l \in Lender |-> 0]
    /\ deposit_time = [l \in Lender |-> NoTime]
    /\ buyer_exposure = [b \in Buyer |-> 0]
    /\ sme_exposure = [s \in Sme |-> 0]
    /\ config = [lock_secs |-> 0, withdraw_util_bps |-> BPS_SCALE,
                 buyer_conc_bps |-> BPS_SCALE, sme_conc_bps |-> BPS_SCALE]
    /\ pool_cfg = NoConfig
    /\ admin_bound = FALSE
    /\ actions = <<>>
    /\ now = 0

ValidBps(bps) == bps > 0 /\ bps <= BPS_SCALE

-----------------------------------------------------------------------------
(* Set-up *)

Initialize(max_utilisation) ==
    /\ "ADMIN" \notin pool.written
    /\ Fits(max_utilisation)
    /\ pool' = Initialized(max_utilisation)
    /\ UNCHANGED <<lenderVars, exposureVars, configVars, timelockVars, now>>

CreatePool(c) ==
    /\ "ADMIN" \in pool.written
    /\ pool_cfg = NoConfig
    /\ ValidBps(c.buyer_limit_bps) /\ ValidBps(c.sme_limit_bps)
    /\ c.reserve_ratio_bps \in 0..BPS_SCALE
    /\ c.min_deposit > 0 /\ c.min_deposit <= c.max_deposit
    /\ pool_cfg' = c
    /\ UNCHANGED <<pool, lenderVars, exposureVars, config, timelockVars, now>>

SetLockPeriod(secs) ==
    /\ config' = [config EXCEPT !.lock_secs = secs]
    /\ UNCHANGED <<pool, lenderVars, exposureVars, pool_cfg, timelockVars, now>>

SetWithdrawUtilThreshold(bps) ==
    /\ ValidBps(bps)
    /\ config' = [config EXCEPT !.withdraw_util_bps = bps]
    /\ UNCHANGED <<pool, lenderVars, exposureVars, pool_cfg, timelockVars, now>>

SetConcentrationLimits(buyer_bps, sme_bps) ==
    /\ ValidBps(buyer_bps) /\ ValidBps(sme_bps)
    /\ config' = [config EXCEPT !.buyer_conc_bps = buyer_bps, !.sme_conc_bps = sme_bps]
    /\ UNCHANGED <<pool, lenderVars, exposureVars, pool_cfg, timelockVars, now>>

-----------------------------------------------------------------------------
(* Lenders.  join_pool does the same accounting for an authenticated one. *)

Deposit(l, amount) ==
    /\ MayDeposit(pool, amount)
    /\ Fits(shares[l] + SharesFor(amount, pool.nav))
    /\ pool' = AfterDeposit(pool, amount)
    /\ shares' = [shares EXCEPT ![l] = @ + SharesFor(amount, pool.nav)]
    /\ deposit_time' = [deposit_time EXCEPT ![l] = now]
    /\ UNCHANGED <<exposureVars, configVars, timelockVars, now>>

UnlockedOneEarly(l) ==
    config.lock_secs > 0 /\ deposit_time[l] # NoTime
        => now + 1 >= deposit_time[l] + config.lock_secs
\* deposited_at + lock_secs may overflow u64 and trap: blocked like a lock.
Unlocked(l) ==
    config.lock_secs > 0 /\ deposit_time[l] # NoTime
        => now >= deposit_time[l] + config.lock_secs

Withdraw(l, count) ==
    /\ Unlocked(l)
    /\ shares[l] >= count
    /\ MayWithdraw(pool, count, config.withdraw_util_bps)
    /\ pool' = AfterWithdraw(pool, count)
    /\ shares' = [shares EXCEPT ![l] = @ - count]
    /\ UNCHANGED <<deposit_time, exposureVars, configVars, timelockVars, now>>

-----------------------------------------------------------------------------
(* Capital *)

Finance(amount) ==
    /\ MayFinance(pool, amount)
    /\ pool' = AfterFinance(pool, amount)
    /\ UNCHANGED <<lenderVars, exposureVars, configVars, timelockVars, now>>

ConcentratedPerInvoice(exposure, amount, limit_bps) ==
    amount <= (pool.total_capital * limit_bps) \div BPS_SCALE
Concentrated(exposure, amount, limit_bps) ==
    /\ Fits(exposure + amount)
    /\ Fits(pool.total_capital * limit_bps)
    /\ exposure + amount <= (pool.total_capital * limit_bps) \div BPS_SCALE

ReplacedBy(exposure, tag, amount) == [exposure EXCEPT ![tag] = amount]
Raised(exposure, tag, amount) == [exposure EXCEPT ![tag] = @ + amount]

\* The invocation ends with the registry's assign: if that fails, all of this is
\* reverted; if it succeeds, the registry alone changes.
FinanceInvoice(b, s, amount) ==
    /\ amount > 0
    /\ Concentrated(buyer_exposure[b], amount, config.buyer_conc_bps)
    /\ Concentrated(sme_exposure[s], amount, config.sme_conc_bps)
    /\ MayFinance(pool, amount)
    /\ pool' = AfterFinance(pool, amount)
    /\ buyer_exposure' = Raised(buyer_exposure, b, amount)
    /\ sme_exposure' = Raised(sme_exposure, s, amount)
    /\ UNCHANGED <<lenderVars, configVars, timelockVars, now>>

SetNav(new_nav) ==
    /\ MaySetNav(pool, new_nav)
    /\ pool' = AfterSetNav(pool, new_nav)
    /\ UNCHANGED <<lenderVars, exposureVars, configVars, timelockVars, now>>

ApplyReserveDelta(delta) ==
    /\ MayApplyReserveDelta(pool, delta)
    /\ pool' = AfterReserveDelta(pool, delta)
    /\ UNCHANGED <<lenderVars, exposureVars, configVars, timelockVars, now>>

-----------------------------------------------------------------------------
(* Timelocked change of a parameter *)

SetTimelockAdmin ==
    /\ ~admin_bound
    /\ admin_bound' = TRUE
    /\ UNCHANGED <<pool, lenderVars, exposureVars, configVars, actions, now>>

QueueParameterChange(param, new_value) ==
    /\ admin_bound
    /\ Len(actions) < MaxActions
    /\ actions' = Append(actions,
         [param |-> param, new_value |-> new_value, queued_at |-> now,
          execute_after |-> now + TIMELOCK_SECS, executed |-> FALSE, cancelled |-> FALSE])
    /\ UNCHANGED <<pool, lenderVars, exposureVars, configVars, admin_bound, now>>

MaturedUnlessExecuted(a) == ~a.executed /\ now >= a.execute_after
ExecutableAgain(a) == ~a.cancelled /\ now >= a.execute_after
Executable(a) == ~a.cancelled /\ ~a.executed /\ now >= a.execute_after

\* An action on an unknown parameter fails at every attempt.
ExecuteParameterChange(i) ==
    /\ i \in DOMAIN actions
    /\ Executable(actions[i])
    /\ actions[i].param = "max_ut"
    /\ MayApplyMaxUtil(pool, actions[i].new_value)
    /\ pool' = AfterMaxUtil(pool, actions[i].new_value)
    /\ actions' = [actions EXCEPT ![i].executed = TRUE]
    /\ UNCHANGED <<lenderVars, exposureVars, configVars, admin_bound, now>>

CancelParameterChange(i) ==
    /\ admin_bound
    /\ i \in DOMAIN actions
    /\ ~actions[i].executed
    /\ ~actions[i].cancelled
    /\ actions' = [actions EXCEPT ![i].cancelled = TRUE]
    /\ UNCHANGED <<pool, lenderVars, exposureVars, configVars, admin_bound, now>>

-----------------------------------------------------------------------------
\* Ledgers close with later timestamps.
Tick ==
    /\ now < MaxTime
    /\ now' = now + 1
    /\ UNCHANGED <<pool, lenderVars, exposureVars, configVars, timelockVars>>

Next ==
    \/ \E mu \in MaxUtils : Initialize(mu)
    \/ \E c \in PoolConfigs : CreatePool(c)
    \/ \E secs \in LockPeriods : SetLockPeriod(secs)
    \/ \E bps \in WithdrawThresholds : SetWithdrawUtilThreshold(bps)
    \/ \E bb, sb \in ConcentrationLimits : SetConcentrationLimits(bb, sb)
    \/ \E l \in Lender, a \in Amounts : Deposit(l, a)
    \/ \E l \in Lender, n \in ShareCounts : Withdraw(l, n)
    \/ \E a \in Amounts : Finance(a)
    \/ \E b \in Buyer, s \in Sme, a \in Amounts : FinanceInvoice(b, s, a)
    \/ \E v \in Navs : SetNav(v)
    \/ \E d \in Deltas : ApplyReserveDelta(d)
    \/ SetTimelockAdmin
    \/ \E p \in Param, v \in MaxUtils : QueueParameterChange(p, v)
    \/ \E i \in DOMAIN actions : ExecuteParameterChange(i)
    \/ \E i \in DOMAIN actions : CancelParameterChange(i)
    \/ Tick

Spec == Init /\ [][Next]_vars

-----------------------------------------------------------------------------
(* Properties *)

\* Every stored value has its type and the ledger is sound (PoolLedger): no
\* order of calls, before or after initialize, makes supply, capital or NAV
\* negative or leaves a NAV that deposit would divide by at zero.
TypeOK ==
    /\ SoundLedger(pool)
    /\ shares \in [Lender -> Nat]
    /\ deposit_time \in [Lender -> Nat \cup {NoTime}]
    /\ buyer_exposure \in [Buyer -> Nat]
    /\ sme_exposure \in [Sme -> Nat]
    /\ config \in [lock_secs : Nat, withdraw_util_bps : 1..BPS_SCALE,
                   buyer_conc_bps : 1..BPS_SCALE, sme_conc_bps : 1..BPS_SCALE]
    /\ pool_cfg \in PoolConfigs \cup {NoConfig}
    /\ admin_bound \in BOOLEAN
    /\ actions \in Seq(QueuedAction)
    /\ now \in Nat

\* TOTAL_SHARES, kept by deposit and withdraw beside the positions, is their
\* sum in every reachable state (docs/audit/scope.md, key invariant 3).
SharesConserved == pool.total_shares = SumOver(shares, Lender)

\* The part of the accounting identity that the rounding of deposit, withdraw,
\* set_nav and apply_reserve_delta leaves true: with shares outstanding, the
\* capital recorded is the value of the shares to within one unit of capital
\* below, or one unit of NAV per share above.
BackingWithinRounding == Backed(pool)

\* What withdraw would pay each lender for the whole position, summed over the
\* lenders, never exceeds the capital recorded: the rounding of deposits, of
\* withdrawals in any number of parts and of NAV changes never favours a lender.
PositionsCovered ==
    SumOver([l \in Lender |-> CapitalAt(shares[l], pool.nav)], Lender) <= pool.total_capital

\* A deposit books at most the amount paid in and a withdrawal writes off at
\* least the amount paid out: recorded capital never outruns the cash behind it.
BookedNeverExceedsPaid ==
    [][/\ \A l \in Lender, a \in Amounts :
            Deposit(l, a) => pool'.total_capital <= pool.total_capital + a
       /\ \A l \in Lender, n \in ShareCounts :
            Withdraw(l, n) =>
                pool'.total_capital + CapitalAt(n, pool.nav) <= pool.total_capital]_vars

\* Every invocation that moves capital, the ceiling or financed_amt, except a
\* deposit, ends within the utilisation ceiling: it was checked (finance) or
\* financed_amt was clamped (docs/audit/scope.md, key invariant 2).
UtilisationSettled ==
    [][pool' # pool /\ ~(\E l \in Lender, a \in Amounts : Deposit(l, a))
        => WithinUtilisation(pool')]_vars

\* finance_invoice writes the two exposure tables after the financing it calls,
\* in one invocation: they always account for the same total.
ExposureTablesAgree == SumOver(buyer_exposure, Buyer) = SumOver(sme_exposure, Sme)

\* An exposure that was before and is after a step rose, if it changed at all, by
\* what was financed, within a limit and the utilisation ceiling.
RaisedWithin(limit_bps, before, after) ==
    after # before =>
        /\ after - before = pool'.financed_amt - pool.financed_amt
        /\ after * BPS_SCALE <= pool'.total_capital * limit_bps
        /\ WithinUtilisation(pool')

\* The exposure of a buyer, and that of an SME, moves only with financed_amt, by
\* the same amount, and ends within the concentration limit in force for buyers
\* or for SMEs, over whatever invoices, limits and capital came before.
ExposureRisesWithFinancing ==
    [][/\ \A b \in Buyer : RaisedWithin(config.buyer_conc_bps, buyer_exposure[b], buyer_exposure'[b])
       /\ \A s \in Sme : RaisedWithin(config.sme_conc_bps, sme_exposure[s], sme_exposure'[s])]_vars

\* Shares minted at one timestamp, by whichever entrypoint and for whatever
\* lender tag, start a lock that no withdrawal of that lender beats.
FreshSharesStayLocked ==
    [][\A l \in Lender :
        /\ shares'[l] > shares[l] => deposit_time'[l] = now
        /\ shares'[l] < shares[l] =>
            config.lock_secs = 0 \/ now - deposit_time[l] >= config.lock_secs]_vars

\* After initialize the ceiling moves only when an action that asked for the new
\* value has been public for the whole timelock, was not cancelled, and is
\* consumed by the move: the exit window lenders rely on.
CeilingChangeWasTimelocked ==
    [][("ADMIN" \in pool.written /\ pool'.max_util # pool.max_util) =>
        \E i \in DOMAIN actions :
            /\ actions[i].param = "max_ut" /\ actions[i].new_value = pool'.max_util
            /\ now - actions[i].queued_at >= TIMELOCK_SECS
            /\ ~actions[i].executed /\ ~actions[i].cancelled
            /\ actions'[i].executed]_vars

\* An id is never reused, and an action once executed or cancelled keeps that
\* one outcome for ever.
ActionsResolveOnce ==
    [][\A i \in DOMAIN actions :
        /\ i \in DOMAIN actions'
        /\ ~(actions[i].executed /\ actions[i].cancelled)
        /\ actions[i].executed \/ actions[i].cancelled => actions'[i] = actions[i]]_vars
==============================================================================
