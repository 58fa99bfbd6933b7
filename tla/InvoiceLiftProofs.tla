-------------------------- MODULE InvoiceLiftProofs --------------------------
(***************************************************************************)
(* Two invariants.  PoolInv is that of a pool alone: its type correctness, *)
(* the conservation of its shares, the backing of its NAV and the          *)
(* agreement of its exposure tables are inductive only together, since     *)
(* withdraw keeps the supply non-negative because no position exceeds the  *)
(* sum of all positions.  LiftInv is that of the three contracts together, *)
(* for any lenders, buyers, SMEs, invoices and amounts: to PoolInv it adds *)
(* that the two books agree and that capital is backed by cash.  The books *)
(* agree because a financed invoice stands under the pool's tag: no        *)
(* entrypoint of the registry leads back from there to Approved, the one   *)
(* status from which it could be financed again.                           *)
(***************************************************************************)
EXTENDS InvoiceLift, PoolLedgerProofs, SumTheorems

-----------------------------------------------------------------------------
(* A pool alone *)

PoolInv == TypeOK /\ SharesConserved /\ BackingWithinRounding /\ ExposureTablesAgree

\* The parts of TypeOK other than the ledger.
RestOK ==
    /\ shares \in [Lender -> Nat]
    /\ deposit_time \in [Lender -> Nat \cup {NoTime}]
    /\ buyer_exposure \in [Buyer -> Nat]
    /\ sme_exposure \in [Sme -> Nat]
    /\ config \in [lock_secs : Nat, withdraw_util_bps : 1..BPS_SCALE,
                   buyer_conc_bps : 1..BPS_SCALE, sme_conc_bps : 1..BPS_SCALE]
    /\ pool_cfg \in PoolConfigs \cup {NoConfig}
    /\ admin_bound \in BOOLEAN
    /\ actions \in Seq(QueuedAction)
    /\ now \in Nat

LEMMA PoolInvParts ==
    PoolInv <=> /\ SoundLedger(pool) /\ Backed(pool) /\ RestOK
                /\ pool.total_shares = SumOver(shares, Lender)
                /\ SumOver(buyer_exposure, Buyer) = SumOver(sme_exposure, Sme)
BY DEF PoolInv, TypeOK, RestOK, SharesConserved, BackingWithinRounding, ExposureTablesAgree

LEMMA FiniteInputs == IsFiniteSet(Lender) /\ IsFiniteSet(Buyer) /\ IsFiniteSet(Sme)
BY InputAssumption

\* Adding d to one account adds d to the total.
LEMMA SumAdd ==
    ASSUME NEW S, IsFiniteSet(S), NEW f, f \in [S -> Nat], NEW x, x \in S, NEW d, d \in Int,
           NEW e, e \in [S -> Nat], e[x] = f[x] + d, \A y \in S : y # x => e[y] = f[y]
    PROVE  SumOver(e, S) = SumOver(f, S) + d /\ SumOver(f, S) \in Nat
<1>1. f \in [S -> Int] /\ e \in [S -> Int] /\ f[x] \in Nat
    OBVIOUS
<1>2. SumOver(e, S) = SumOver(f, S) - f[x] + e[x]
    BY <1>1, SumUpdate
<1>3. SumOver(f, S) \in Nat
    BY SumNat
<1> QED
    BY <1>1, <1>2, <1>3

LEMMA PoolInit == Init => PoolInv
<1> SUFFICES ASSUME Init PROVE PoolInv
    OBVIOUS
<1>1. SoundLedger(pool) /\ Backed(pool)
    BY DEF Init, Undeployed, SoundLedger, Backed, Ledger, LedgerKey
<1>2. RestOK
    <2>1. config \in [lock_secs : Nat, withdraw_util_bps : 1..BPS_SCALE,
                     buyer_conc_bps : 1..BPS_SCALE, sme_conc_bps : 1..BPS_SCALE]
        BY ScaleAssumption DEF Init
    <2>2. actions \in Seq(QueuedAction)
        BY DEF Init
    <2> QED
        BY <2>1, <2>2 DEF Init, RestOK
<1>3. pool.total_shares = SumOver(shares, Lender)
    BY InputAssumption, SumZero DEF Init, Undeployed
<1>4. SumOver(buyer_exposure, Buyer) = SumOver(sme_exposure, Sme)
    BY InputAssumption, SumZero DEF Init
<1> QED
    BY <1>1, <1>2, <1>3, <1>4, PoolInvParts

\* deposit credits the lender with exactly the shares it adds to the supply.
LEMMA DepositKeepsInv ==
    ASSUME PoolInv, NEW l \in Lender, NEW a \in Amounts, Deposit(l, a)
    PROVE  PoolInv'
<1> DEFINE m == SharesFor(a, pool.nav)
<1>1. SoundLedger(pool) /\ Backed(pool) /\ RestOK /\ a \in Int
    BY PoolInvParts, InputAssumption
<1>2. /\ SoundLedger(pool') /\ Backed(pool') /\ m \in Nat
      /\ pool'.total_shares = pool.total_shares + m
    BY <1>1, DepositSound DEF Deposit
<1> HIDE DEF m
<1>3. shares' = [shares EXCEPT ![l] = shares[l] + m] /\ shares \in [Lender -> Nat] /\ shares[l] \in Nat
    BY <1>1 DEF Deposit, RestOK, m
<1>4. RestOK'
    BY <1>1, <1>2, <1>3, InputAssumption
       DEF RestOK, Deposit, exposureVars, configVars, timelockVars
<1>5. pool'.total_shares = SumOver(shares', Lender)
    <2>1. /\ m \in Int /\ shares \in [Lender -> Nat] /\ shares' \in [Lender -> Nat]
          /\ shares'[l] = shares[l] + m /\ \A k \in Lender : k # l => shares'[k] = shares[k]
        BY <1>2, <1>3
    <2>2. SumOver(shares', Lender) = SumOver(shares, Lender) + m
        BY <2>1, SumAdd, FiniteInputs
    <2> QED
        BY <1>2, <2>2, PoolInvParts
<1>6. UNCHANGED <<buyer_exposure, sme_exposure>>
    BY DEF Deposit, exposureVars
<1> QED
    BY <1>2, <1>4, <1>5, <1>6, PoolInvParts DEF PoolInv, TypeOK, RestOK, SharesConserved,
       BackingWithinRounding, ExposureTablesAgree

\* withdraw burns shares the lender holds, so the supply covers them.
LEMMA WithdrawKeepsInv ==
    ASSUME PoolInv, NEW l \in Lender, NEW n \in ShareCounts, Withdraw(l, n)
    PROVE  PoolInv'
<1>1. /\ SoundLedger(pool) /\ Backed(pool) /\ RestOK /\ n \in Int
      /\ config.withdraw_util_bps \in Int
      /\ shares \in [Lender -> Nat] /\ shares[l] \in Nat
    BY PoolInvParts, InputAssumption, ScaleAssumption DEF RestOK
<1>2. n <= shares[l] /\ shares[l] <= pool.total_shares
    BY <1>1, PoolInvParts, SumBoundsEach, InputAssumption DEF Withdraw
<1>3. n <= pool.total_shares
    BY <1>1, <1>2, SoundFields
<1>4. /\ SoundLedger(pool') /\ Backed(pool') /\ n \in Nat
      /\ pool'.total_shares = pool.total_shares - n
    BY <1>1, <1>3, WithdrawSound DEF Withdraw
<1>5. shares' = [shares EXCEPT ![l] = shares[l] - n]
    BY DEF Withdraw
<1>6. RestOK'
    BY <1>1, <1>2, <1>4, <1>5 DEF RestOK, Withdraw, exposureVars, configVars, timelockVars
<1>7. pool'.total_shares = SumOver(shares', Lender)
    <2>1. /\ -n \in Int /\ shares \in [Lender -> Nat] /\ shares' \in [Lender -> Nat]
          /\ shares'[l] = shares[l] + (-n) /\ \A k \in Lender : k # l => shares'[k] = shares[k]
        BY <1>1, <1>2, <1>4, <1>5
    <2>2. /\ SumOver(shares', Lender) = SumOver(shares, Lender) + (-n)
          /\ SumOver(shares, Lender) \in Nat
        BY <2>1, SumAdd, FiniteInputs
    <2> QED
        BY <1>4, <2>2, PoolInvParts
<1>8. UNCHANGED <<buyer_exposure, sme_exposure>>
    BY DEF Withdraw, exposureVars
<1> QED
    BY <1>4, <1>6, <1>7, <1>8, PoolInvParts DEF PoolInv, TypeOK, RestOK, SharesConserved,
       BackingWithinRounding, ExposureTablesAgree

\* finance_invoice raises one buyer's and one SME's exposure by the same amount.
LEMMA FinanceInvoiceKeepsInv ==
    ASSUME PoolInv, NEW b \in Buyer, NEW s \in Sme, NEW a \in Int, FinanceInvoice(b, s, a)
    PROVE  PoolInv'
<1>1. SoundLedger(pool) /\ Backed(pool) /\ RestOK /\ a \in Int /\ a > 0
    BY PoolInvParts DEF FinanceInvoice
<1>2. /\ SoundLedger(pool') /\ Backed(pool')
      /\ pool'.total_shares = pool.total_shares
    BY <1>1, FinanceSound DEF FinanceInvoice
<1>3. /\ buyer_exposure \in [Buyer -> Nat] /\ sme_exposure \in [Sme -> Nat]
      /\ buyer_exposure[b] \in Nat /\ sme_exposure[s] \in Nat
      /\ buyer_exposure' = [buyer_exposure EXCEPT ![b] = buyer_exposure[b] + a]
      /\ sme_exposure' = [sme_exposure EXCEPT ![s] = sme_exposure[s] + a]
    BY <1>1 DEF RestOK, FinanceInvoice, Raised
<1>4. RestOK'
    BY <1>1, <1>3 DEF RestOK, FinanceInvoice, lenderVars, configVars, timelockVars
<1>5. SumOver(buyer_exposure', Buyer) = SumOver(sme_exposure', Sme)
    <2>1. /\ buyer_exposure \in [Buyer -> Nat] /\ buyer_exposure' \in [Buyer -> Nat]
          /\ buyer_exposure'[b] = buyer_exposure[b] + a
          /\ \A k \in Buyer : k # b => buyer_exposure'[k] = buyer_exposure[k]
        BY <1>1, <1>3
    <2>2. /\ sme_exposure \in [Sme -> Nat] /\ sme_exposure' \in [Sme -> Nat]
          /\ sme_exposure'[s] = sme_exposure[s] + a
          /\ \A k \in Sme : k # s => sme_exposure'[k] = sme_exposure[k]
        BY <1>1, <1>3
    <2>3. SumOver(buyer_exposure', Buyer) = SumOver(buyer_exposure, Buyer) + a
        BY <1>1, <2>1, SumAdd, FiniteInputs
    <2>4. SumOver(sme_exposure', Sme) = SumOver(sme_exposure, Sme) + a
        BY <1>1, <2>2, SumAdd, FiniteInputs
    <2> QED
        BY <2>3, <2>4, PoolInvParts
<1>6. UNCHANGED shares
    BY DEF FinanceInvoice, lenderVars
<1> QED
    BY <1>2, <1>4, <1>5, <1>6, PoolInvParts DEF PoolInv, TypeOK, RestOK, SharesConserved,
       BackingWithinRounding, ExposureTablesAgree

\* A step that leaves positions and exposures alone keeps the invariant when it
\* leaves a sound, backed ledger with the same supply.
LEMMA LedgerStepKeepsInv ==
    ASSUME PoolInv, SoundLedger(pool'), Backed(pool'), RestOK',
           pool'.total_shares = pool.total_shares,
           UNCHANGED <<lenderVars, exposureVars>>
    PROVE  PoolInv'
BY PoolInvParts DEF PoolInv, TypeOK, RestOK, SharesConserved, BackingWithinRounding,
   ExposureTablesAgree, lenderVars, exposureVars

\* finance draws on the capital and leaves it recorded.
LEMMA FinanceKeepsInv ==
    ASSUME PoolInv, NEW a \in Int, Finance(a)
    PROVE  PoolInv' /\ pool'.total_capital = pool.total_capital
<1>1. /\ SoundLedger(pool') /\ Backed(pool') /\ pool'.total_shares = pool.total_shares
      /\ pool'.total_capital = pool.total_capital
    BY PoolInvParts, FinanceSound DEF Finance
<1>2. RestOK' /\ UNCHANGED <<lenderVars, exposureVars>>
    BY PoolInvParts DEF RestOK, Finance, lenderVars, exposureVars, configVars, timelockVars
<1> QED
    BY <1>1, <1>2, LedgerStepKeepsInv

LEMMA PoolNext == PoolInv /\ [Next]_vars => PoolInv'
<1> SUFFICES ASSUME PoolInv, [Next]_vars PROVE PoolInv'
    OBVIOUS
<1>0. SoundLedger(pool) /\ Backed(pool) /\ RestOK
    BY PoolInvParts
<1>1. ASSUME NEW mu \in MaxUtils, Initialize(mu) PROVE PoolInv'
    <2>1. "ADMIN" \notin pool.written
        BY <1>1 DEF Initialize
    <2>2. pool.total_shares = 0 /\ mu \in Int
        BY <1>0, <2>1, InputAssumption DEF SoundLedger, LedgerKey
    <2>3. SoundLedger(pool') /\ Backed(pool') /\ pool'.total_shares = 0
        BY <1>1, <2>2, InitializedSound DEF Initialize, Initialized
    <2>4. RestOK' /\ UNCHANGED <<lenderVars, exposureVars>>
        BY <1>0, <1>1 DEF RestOK, Initialize, lenderVars, exposureVars, configVars, timelockVars
    <2> QED
        BY <2>2, <2>3, <2>4, LedgerStepKeepsInv
<1>2. ASSUME NEW c \in PoolConfigs, CreatePool(c) PROVE PoolInv'
    <2>1. RestOK' /\ UNCHANGED <<pool, lenderVars, exposureVars>>
        BY <1>0, <1>2 DEF RestOK, CreatePool, lenderVars, exposureVars, timelockVars
    <2> QED
        BY <1>0, <2>1, LedgerStepKeepsInv
<1>3. ASSUME NEW secs \in LockPeriods, SetLockPeriod(secs) PROVE PoolInv'
    <2>1. config' \in [lock_secs : Nat, withdraw_util_bps : 1..BPS_SCALE,
                      buyer_conc_bps : 1..BPS_SCALE, sme_conc_bps : 1..BPS_SCALE]
        BY <1>0, <1>3, InputAssumption DEF RestOK, SetLockPeriod
    <2>2. RestOK' /\ UNCHANGED <<pool, lenderVars, exposureVars>>
        BY <1>0, <1>3, <2>1 DEF RestOK, SetLockPeriod, lenderVars, exposureVars, timelockVars
    <2> QED
        BY <1>0, <2>2, LedgerStepKeepsInv
<1>4. ASSUME NEW bps \in WithdrawThresholds, SetWithdrawUtilThreshold(bps) PROVE PoolInv'
    <2>1. bps \in 1..BPS_SCALE
        BY <1>4, InputAssumption, ScaleAssumption DEF SetWithdrawUtilThreshold, ValidBps
    <2>2. config' \in [lock_secs : Nat, withdraw_util_bps : 1..BPS_SCALE,
                      buyer_conc_bps : 1..BPS_SCALE, sme_conc_bps : 1..BPS_SCALE]
        BY <1>0, <1>4, <2>1 DEF RestOK, SetWithdrawUtilThreshold
    <2>3. RestOK' /\ UNCHANGED <<pool, lenderVars, exposureVars>>
        BY <1>0, <1>4, <2>2 DEF RestOK, SetWithdrawUtilThreshold, lenderVars, exposureVars, timelockVars
    <2> QED
        BY <1>0, <2>3, LedgerStepKeepsInv
<1>5. ASSUME NEW bb \in ConcentrationLimits, NEW sb \in ConcentrationLimits,
             SetConcentrationLimits(bb, sb)
      PROVE  PoolInv'
    <2>1. bb \in 1..BPS_SCALE /\ sb \in 1..BPS_SCALE
        BY <1>5, InputAssumption, ScaleAssumption DEF SetConcentrationLimits, ValidBps
    <2>2. config' \in [lock_secs : Nat, withdraw_util_bps : 1..BPS_SCALE,
                      buyer_conc_bps : 1..BPS_SCALE, sme_conc_bps : 1..BPS_SCALE]
        BY <1>0, <1>5, <2>1 DEF RestOK, SetConcentrationLimits
    <2>3. RestOK' /\ UNCHANGED <<pool, lenderVars, exposureVars>>
        BY <1>0, <1>5, <2>2 DEF RestOK, SetConcentrationLimits, lenderVars, exposureVars, timelockVars
    <2> QED
        BY <1>0, <2>3, LedgerStepKeepsInv
<1>6. ASSUME NEW l \in Lender, NEW a \in Amounts, Deposit(l, a) PROVE PoolInv'
    BY <1>6, DepositKeepsInv
<1>7. ASSUME NEW l \in Lender, NEW n \in ShareCounts, Withdraw(l, n) PROVE PoolInv'
    BY <1>7, WithdrawKeepsInv
<1>8. ASSUME NEW a \in Amounts, Finance(a) PROVE PoolInv'
    BY <1>8, FinanceKeepsInv, InputAssumption
<1>9. ASSUME NEW b \in Buyer, NEW s \in Sme, NEW a \in Amounts, FinanceInvoice(b, s, a) PROVE PoolInv'
    BY <1>9, FinanceInvoiceKeepsInv, InputAssumption
<1>10. ASSUME NEW v \in Navs, SetNav(v) PROVE PoolInv'
    <2>1. v \in Int
        BY InputAssumption
    <2>2. SoundLedger(pool') /\ Backed(pool') /\ pool'.total_shares = pool.total_shares
        BY <1>0, <1>10, <2>1, SetNavSound DEF SetNav
    <2>3. RestOK' /\ UNCHANGED <<lenderVars, exposureVars>>
        BY <1>0, <1>10 DEF RestOK, SetNav, lenderVars, exposureVars, configVars, timelockVars
    <2> QED
        BY <2>2, <2>3, LedgerStepKeepsInv
<1>11. ASSUME NEW d \in Deltas, ApplyReserveDelta(d) PROVE PoolInv'
    <2>1. d \in Int
        BY InputAssumption
    <2>2. SoundLedger(pool') /\ Backed(pool') /\ pool'.total_shares = pool.total_shares
        BY <1>0, <1>11, <2>1, DeltaSound DEF ApplyReserveDelta
    <2>3. RestOK' /\ UNCHANGED <<lenderVars, exposureVars>>
        BY <1>0, <1>11 DEF RestOK, ApplyReserveDelta, lenderVars, exposureVars, configVars, timelockVars
    <2> QED
        BY <2>2, <2>3, LedgerStepKeepsInv
<1>12. CASE SetTimelockAdmin
    <2>1. RestOK' /\ UNCHANGED <<pool, lenderVars, exposureVars>>
        BY <1>0, <1>12 DEF RestOK, SetTimelockAdmin, lenderVars, exposureVars, configVars
    <2> QED
        BY <1>0, <2>1, LedgerStepKeepsInv
<1>13. ASSUME NEW p \in Param, NEW v \in MaxUtils, QueueParameterChange(p, v) PROVE PoolInv'
    <2>1. now \in Nat /\ now + TIMELOCK_SECS \in Nat /\ v \in Int
        BY <1>0, InputAssumption DEF RestOK
    <2>2. [param |-> p, new_value |-> v, queued_at |-> now,
           execute_after |-> now + TIMELOCK_SECS, executed |-> FALSE, cancelled |-> FALSE] \in QueuedAction
        BY <2>1 DEF QueuedAction
    <2>3. actions' \in Seq(QueuedAction)
        BY <1>0, <1>13, <2>2 DEF RestOK, QueueParameterChange
    <2>4. RestOK' /\ UNCHANGED <<pool, lenderVars, exposureVars>>
        BY <1>0, <1>13, <2>3 DEF RestOK, QueueParameterChange, lenderVars, exposureVars, configVars
    <2> QED
        BY <1>0, <2>4, LedgerStepKeepsInv
<1>14. ASSUME NEW i \in DOMAIN actions, ExecuteParameterChange(i) PROVE PoolInv'
    <2>1. actions \in Seq(QueuedAction) /\ actions[i] \in QueuedAction
        BY <1>0 DEF RestOK
    <2>2. actions[i].new_value \in Int /\ [actions[i] EXCEPT !.executed = TRUE] \in QueuedAction
        BY <2>1 DEF QueuedAction
    <2>3. SoundLedger(pool') /\ Backed(pool') /\ pool'.total_shares = pool.total_shares
        BY <1>0, <1>14, <2>2, MaxUtilSound DEF ExecuteParameterChange
    <2>4. actions' = [actions EXCEPT ![i] = [actions[i] EXCEPT !.executed = TRUE]]
        BY <1>14 DEF ExecuteParameterChange
    <2>5. actions' \in Seq(QueuedAction)
        BY <2>1, <2>2, <2>4
    <2>6. RestOK' /\ UNCHANGED <<lenderVars, exposureVars>>
        BY <1>0, <1>14, <2>5 DEF RestOK, ExecuteParameterChange, lenderVars, exposureVars, configVars
    <2> QED
        BY <2>3, <2>6, LedgerStepKeepsInv
<1>15. ASSUME NEW i \in DOMAIN actions, CancelParameterChange(i) PROVE PoolInv'
    <2>1. actions \in Seq(QueuedAction) /\ actions[i] \in QueuedAction
        BY <1>0 DEF RestOK
    <2>2. [actions[i] EXCEPT !.cancelled = TRUE] \in QueuedAction
        BY <2>1 DEF QueuedAction
    <2>3. actions' = [actions EXCEPT ![i] = [actions[i] EXCEPT !.cancelled = TRUE]]
        BY <1>15 DEF CancelParameterChange
    <2>4. actions' \in Seq(QueuedAction)
        BY <2>1, <2>2, <2>3
    <2>5. RestOK' /\ UNCHANGED <<pool, lenderVars, exposureVars>>
        BY <1>0, <1>15, <2>4 DEF RestOK, CancelParameterChange, lenderVars, exposureVars, configVars
    <2> QED
        BY <1>0, <2>5, LedgerStepKeepsInv
<1>16. CASE Tick
    <2>1. RestOK' /\ UNCHANGED <<pool, lenderVars, exposureVars>>
        BY <1>0, <1>16 DEF RestOK, Tick, lenderVars, exposureVars, configVars, timelockVars
    <2> QED
        BY <1>0, <2>1, LedgerStepKeepsInv
<1>17. CASE UNCHANGED vars
    <2>1. RestOK' /\ UNCHANGED <<pool, lenderVars, exposureVars>>
        BY <1>0, <1>17 DEF RestOK, vars, lenderVars, exposureVars, configVars, timelockVars
    <2> QED
        BY <1>0, <2>1, LedgerStepKeepsInv
<1> QED
    BY <1>1, <1>2, <1>3, <1>4, <1>5, <1>6, <1>7, <1>8, <1>9, <1>10, <1>11, <1>12, <1>13,
       <1>14, <1>15, <1>16, <1>17 DEF Next

\* The inductive invariant holds in every reachable state.
THEOREM PoolInvariant == Spec => []PoolInv
<1>1. Init => PoolInv
    BY PoolInit
<1>2. PoolInv /\ [Next]_vars => PoolInv'
    BY PoolNext
<1> QED
    BY <1>1, <1>2, PTL DEF Spec

\* Type correctness: whatever is called in whatever order, no stored amount
\* goes negative and NAV is never zero once a deposit could divide by it.
THEOREM TypeCorrect == Spec => []TypeOK
<1>1. PoolInv => TypeOK
    BY DEF PoolInv
<1> QED
    BY <1>1, PoolInvariant, PTL

\* TOTAL_SHARES is the sum of the lender positions.
THEOREM SharesAreConserved == Spec => []SharesConserved
<1>1. PoolInv => SharesConserved
    BY DEF PoolInv
<1> QED
    BY <1>1, PoolInvariant, PTL

\* Capital backs the shares at NAV up to rounding, for every scale and input.
THEOREM NavIsBacked == Spec => []BackingWithinRounding
<1>1. PoolInv => BackingWithinRounding
    BY DEF PoolInv
<1> QED
    BY <1>1, PoolInvariant, PTL

\* The two exposure tables always account for the same total.
THEOREM ExposuresAgree == Spec => []ExposureTablesAgree
<1>1. PoolInv => ExposureTablesAgree
    BY DEF PoolInv
<1> QED
    BY <1>1, PoolInvariant, PTL

-----------------------------------------------------------------------------
(* Lenders are covered *)

LEMMA InvCoversPositions == PoolInv => PositionsCovered
<1> SUFFICES ASSUME PoolInv PROVE PositionsCovered
    OBVIOUS
<1> DEFINE v == pool.nav
           e == [l \in Lender |-> CapitalAt(shares[l], v)]
           T == SumOver(e, Lender)
           N == SumOver(shares, Lender)
<1>1. /\ SoundLedger(pool) /\ Backed(pool) /\ pool.total_shares = N
      /\ shares \in [Lender -> Nat] /\ shares \in [Lender -> Int]
      /\ v \in Nat /\ N \in Nat
    BY PoolInvParts, SoundFields DEF RestOK
<1>2. ASSUME NEW l \in Lender
      PROVE  CapitalAt(shares[l], v) \in Int /\ NAV_SCALE * CapitalAt(shares[l], v) <= shares[l] * v
    <2>1. shares[l] * v \in Int
        BY <1>1
    <2> QED
        BY <2>1, FloorBounds, ScaleAssumption DEF CapitalAt
<1>3. e \in [Lender -> Int] /\ \A l \in Lender : NAV_SCALE * e[l] <= shares[l] * v
    BY <1>2
<1>4. T \in Int /\ NAV_SCALE * T <= N * v
    <2> HIDE DEF e, v
    <2>1. T \in Int
        BY <1>3, FiniteInputs, SumInt
    <2>2. v \in Int /\ NAV_SCALE \in Int
        BY <1>1, ScaleAssumption
    <2> QED
        BY <1>1, <1>3, <2>1, <2>2, FiniteInputs, SumScaled
<1>5. T <= CapitalAt(N, v)
    <2> HIDE DEF e, v, T, N
    <2>1. N * v \in Int
        BY <1>1
    <2> QED
        BY <1>4, <2>1, FloorAbove, ScaleAssumption DEF CapitalAt
<1>6. CapitalAt(N, v) <= pool.total_capital
    BY <1>1, CapitalCovers
<1>7. CapitalAt(N, v) \in Nat /\ pool.total_capital \in Nat
    BY <1>1, CapitalAtNat, SoundFields
<1>8. T <= pool.total_capital
    <2> HIDE DEF T
    <2> QED
        BY <1>4, <1>5, <1>6, <1>7
<1> QED
    BY <1>8 DEF PositionsCovered

\* What withdraw would pay every lender for the whole position is, taken
\* together, never more than the capital recorded, for any number of lenders.
THEOREM PositionsAreCovered == Spec => []PositionsCovered
BY InvCoversPositions, PoolInvariant, PTL

\* A withdrawal of a position the lender has burns no more than the supply.
LEMMA WithdrawnIsSupplied ==
    ASSUME PoolInv, NEW l \in Lender, NEW n \in ShareCounts, Withdraw(l, n)
    PROVE  n \in Int /\ n <= pool.total_shares
<1>1. shares \in [Lender -> Nat] /\ n \in Int /\ shares[l] >= n
    BY PoolInvParts, InputAssumption DEF RestOK, Withdraw
<1>2. shares[l] <= pool.total_shares /\ pool.total_shares \in Nat
    BY <1>1, SumBoundsEach, SumNat, FiniteInputs, PoolInvParts
<1> QED
    BY <1>1, <1>2

LEMMA DepositBooksAtMost ==
    ASSUME PoolInv, NEW l \in Lender, NEW a \in Amounts, Deposit(l, a)
    PROVE  pool'.total_capital <= pool.total_capital + a
<1>1. SoundLedger(pool) /\ Backed(pool)
    BY PoolInvParts
<1> QED
    BY <1>1, DepositSound, InputAssumption DEF Deposit

LEMMA WithdrawalWritesOff ==
    ASSUME PoolInv, NEW l \in Lender, NEW n \in ShareCounts, Withdraw(l, n)
    PROVE  pool'.total_capital + CapitalAt(n, pool.nav) <= pool.total_capital
<1>1. SoundLedger(pool) /\ Backed(pool) /\ config.withdraw_util_bps \in Int
    BY PoolInvParts DEF RestOK
<1>2. n \in Int /\ n <= pool.total_shares
    BY WithdrawnIsSupplied
<1> QED
    BY <1>1, <1>2, WithdrawSound DEF Withdraw

\* A deposit books at most what is paid in, a withdrawal writes off at least
\* what is paid out.
THEOREM BooksNeverOutrunCash == Spec => BookedNeverExceedsPaid
<1> DEFINE P == /\ \A l \in Lender, a \in Amounts :
                     Deposit(l, a) => pool'.total_capital <= pool.total_capital + a
                /\ \A l \in Lender, n \in ShareCounts :
                     Withdraw(l, n) =>
                         pool'.total_capital + CapitalAt(n, pool.nav) <= pool.total_capital
<1>1. PoolInv /\ [Next]_vars => [P]_vars
    <2> SUFFICES ASSUME PoolInv PROVE P
        OBVIOUS
    <2> QED
        BY DepositBooksAtMost, WithdrawalWritesOff
<1>2. Spec => [][P]_vars
    BY <1>1, PoolInvariant, PTL DEF Spec
<1> QED
    BY <1>2 DEF BookedNeverExceedsPaid

\* What each action does to the ledger, as far as the ceiling is concerned.
LEMMA LedgerStepSettles ==
    ASSUME PoolInv, Next, pool' # pool
    PROVE  \/ \E l \in Lender, a \in Amounts : Deposit(l, a)
           \/ WithinUtilisation(pool')
<1>0. SoundLedger(pool) /\ Backed(pool) /\ config.withdraw_util_bps \in Int
      /\ actions \in Seq(QueuedAction)
    BY PoolInvParts DEF RestOK
<1>1. ASSUME NEW mu \in MaxUtils, Initialize(mu) PROVE WithinUtilisation(pool')
    BY <1>1, InitializedSound, InputAssumption DEF Initialize
<1>2. ASSUME NEW l \in Lender, NEW n \in ShareCounts, Withdraw(l, n) PROVE WithinUtilisation(pool')
    <2>1. n \in Int /\ n <= pool.total_shares
        BY <1>2, WithdrawnIsSupplied
    <2> QED
        BY <1>0, <1>2, <2>1, WithdrawSound DEF Withdraw
<1>3. ASSUME NEW a \in Amounts, Finance(a) PROVE WithinUtilisation(pool')
    BY <1>0, <1>3, FinanceSound, InputAssumption DEF Finance
<1>4. ASSUME NEW b \in Buyer, NEW s \in Sme, NEW a \in Amounts, FinanceInvoice(b, s, a)
      PROVE  WithinUtilisation(pool')
    BY <1>0, <1>4, FinanceSound, InputAssumption DEF FinanceInvoice
<1>5. ASSUME NEW v \in Navs, SetNav(v) PROVE WithinUtilisation(pool')
    BY <1>0, <1>5, SetNavSound, InputAssumption DEF SetNav
<1>6. ASSUME NEW d \in Deltas, ApplyReserveDelta(d) PROVE WithinUtilisation(pool')
    BY <1>0, <1>6, DeltaSound, InputAssumption DEF ApplyReserveDelta
<1>7. ASSUME NEW i \in DOMAIN actions, ExecuteParameterChange(i) PROVE WithinUtilisation(pool')
    <2>1. actions[i] \in QueuedAction
        BY <1>0
    <2>2. actions[i].new_value \in Int
        BY <2>1 DEF QueuedAction
    <2> QED
        BY <1>0, <1>7, <2>2, MaxUtilSound DEF ExecuteParameterChange
<1> QED
    BY <1>1, <1>2, <1>3, <1>4, <1>5, <1>6, <1>7 DEF Next, CreatePool, SetLockPeriod,
       SetWithdrawUtilThreshold, SetConcentrationLimits, SetTimelockAdmin,
       QueueParameterChange, CancelParameterChange, Tick

\* Every invocation that changes the ledger, except a deposit, ends within the
\* ceiling.
THEOREM UtilisationIsSettled == Spec => UtilisationSettled
<1> DEFINE P == pool' # pool /\ ~(\E l \in Lender, a \in Amounts : Deposit(l, a))
                    => WithinUtilisation(pool')
<1>1. PoolInv /\ [Next]_vars => [P]_vars
    BY LedgerStepSettles
<1>2. Spec => [][P]_vars
    BY <1>1, PoolInvariant, PTL DEF Spec
<1> QED
    BY <1>2 DEF UtilisationSettled

RisesWithFinancing ==
    /\ \A b \in Buyer : RaisedWithin(config.buyer_conc_bps, buyer_exposure[b], buyer_exposure'[b])
    /\ \A s \in Sme : RaisedWithin(config.sme_conc_bps, sme_exposure[s], sme_exposure'[s])

\* A financing checked against a limit, whosever exposure it raises.
LEMMA FinancedWithin ==
    ASSUME PoolInv, NEW a \in Int, NEW e \in Nat, NEW limit_bps \in Int,
           MayFinance(pool, a), pool' = AfterFinance(pool, a), Concentrated(e, a, limit_bps)
    PROVE  RaisedWithin(limit_bps, e, e + a)
<1>1. /\ SoundLedger(pool) /\ Backed(pool)
      /\ pool.total_capital \in Nat /\ pool.financed_amt \in Int
    BY PoolInvParts, SoundFields
<1>2. /\ WithinUtilisation(pool') /\ pool'.total_capital = pool.total_capital
      /\ pool'.financed_amt = pool.financed_amt + a
    BY <1>1, FinanceSound
<1> DEFINE m == pool.total_capital * limit_bps
           q == m \div BPS_SCALE
           x == e + a
<1>3. x <= q
    BY DEF Concentrated
<1>4. m \in Int /\ q \in Int /\ BPS_SCALE * q <= m /\ x \in Int
    <2>1. m \in Int
        BY <1>1
    <2>2. x \in Int
        OBVIOUS
    <2> HIDE DEF m, x
    <2> QED
        BY <2>1, <2>2, FloorBounds, ScaleAssumption
<1>5. x * BPS_SCALE <= m
    <2> HIDE DEF m, q, x
    <2>1. BPS_SCALE * x <= BPS_SCALE * q
        BY <1>3, <1>4, MulMono, ScaleAssumption
    <2> QED
        BY <1>4, <2>1, ScaleAssumption
<1>6. x - e = pool'.financed_amt - pool.financed_amt
    BY <1>1, <1>2
<1>7. x * BPS_SCALE <= pool'.total_capital * limit_bps
    BY <1>2, <1>5
<1> HIDE DEF x
<1>8. RaisedWithin(limit_bps, e, x)
    BY <1>2, <1>6, <1>7 DEF RaisedWithin
<1> QED
    BY <1>8 DEF x

\* What finance_invoice does to the exposures, for any amount.
LEMMA FinanceInvoiceRaises ==
    ASSUME PoolInv, NEW c \in Buyer, NEW t \in Sme, NEW a \in Int, FinanceInvoice(c, t, a)
    PROVE  RisesWithFinancing
<1>1. /\ buyer_exposure \in [Buyer -> Nat] /\ sme_exposure \in [Sme -> Nat]
      /\ config.buyer_conc_bps \in Int /\ config.sme_conc_bps \in Int
    BY PoolInvParts DEF RestOK
<1>2. /\ MayFinance(pool, a) /\ pool' = AfterFinance(pool, a)
      /\ buyer_exposure' = [buyer_exposure EXCEPT ![c] = buyer_exposure[c] + a]
      /\ sme_exposure' = [sme_exposure EXCEPT ![t] = sme_exposure[t] + a]
      /\ Concentrated(buyer_exposure[c], a, config.buyer_conc_bps)
      /\ Concentrated(sme_exposure[t], a, config.sme_conc_bps)
    BY DEF FinanceInvoice, Raised
<1>3. ASSUME NEW b \in Buyer
      PROVE  RaisedWithin(config.buyer_conc_bps, buyer_exposure[b], buyer_exposure'[b])
    <2>1. CASE b = c
        <3>1. buyer_exposure[c] \in Nat /\ buyer_exposure'[c] = buyer_exposure[c] + a
            BY <1>1, <1>2
        <3> QED
            BY <1>1, <1>2, <2>1, <3>1, FinancedWithin
    <2>2. CASE b # c
        <3>1. buyer_exposure'[b] = buyer_exposure[b]
            BY <1>1, <1>2, <2>2
        <3> QED
            BY <3>1 DEF RaisedWithin
    <2> QED
        BY <2>1, <2>2
<1>4. ASSUME NEW s \in Sme
      PROVE  RaisedWithin(config.sme_conc_bps, sme_exposure[s], sme_exposure'[s])
    <2>1. CASE s = t
        <3>1. sme_exposure[t] \in Nat /\ sme_exposure'[t] = sme_exposure[t] + a
            BY <1>1, <1>2
        <3> QED
            BY <1>1, <1>2, <2>1, <3>1, FinancedWithin
    <2>2. CASE s # t
        <3>1. sme_exposure'[s] = sme_exposure[s]
            BY <1>1, <1>2, <2>2
        <3> QED
            BY <3>1 DEF RaisedWithin
    <2> QED
        BY <2>1, <2>2
<1> QED
    BY <1>3, <1>4 DEF RisesWithFinancing

\* The exposure of a buyer or an SME rises only with financed_amt, by as much,
\* and ends within the concentration limit in force for it.
THEOREM ExposuresFollowFinancing == Spec => ExposureRisesWithFinancing
<1>1. PoolInv /\ [Next]_vars => [RisesWithFinancing]_vars
    <2> SUFFICES ASSUME PoolInv, Next PROVE RisesWithFinancing
        OBVIOUS
    <2>1. CASE UNCHANGED exposureVars
        BY <2>1 DEF exposureVars, RisesWithFinancing, RaisedWithin
    <2>2. ASSUME NEW c \in Buyer, NEW t \in Sme, NEW a \in Amounts, FinanceInvoice(c, t, a)
          PROVE  RisesWithFinancing
        BY <2>2, FinanceInvoiceRaises, InputAssumption
    <2> QED
        BY <2>1, <2>2
           DEF Next, Initialize, CreatePool, SetLockPeriod, SetWithdrawUtilThreshold,
               SetConcentrationLimits, Deposit, Withdraw, Finance, SetNav, ApplyReserveDelta,
               SetTimelockAdmin, QueueParameterChange, ExecuteParameterChange,
               CancelParameterChange, Tick
<1>2. Spec => [][RisesWithFinancing]_vars
    BY <1>1, PoolInvariant, PTL DEF Spec
<1> QED
    BY <1>2 DEF ExposureRisesWithFinancing, RisesWithFinancing

-----------------------------------------------------------------------------
(* Locks and timelocks *)

\* A position has a deposit time; an action matures one timelock after it was
\* queued and has at most one outcome.
DelayInv ==
    /\ \A l \in Lender : shares[l] > 0 => deposit_time[l] # NoTime
    /\ \A i \in DOMAIN actions :
         /\ actions[i].execute_after = actions[i].queued_at + TIMELOCK_SECS
         /\ ~(actions[i].executed /\ actions[i].cancelled)

LEMMA DelayInit == Init => DelayInv
BY DEF Init, DelayInv

\* Only four actions touch positions or queued actions.
LEMMA DelayStep == PoolInv /\ DelayInv /\ [Next]_vars => DelayInv'
<1> SUFFICES ASSUME PoolInv, DelayInv, [Next]_vars PROVE DelayInv'
    OBVIOUS
<1>0. /\ shares \in [Lender -> Nat] /\ deposit_time \in [Lender -> Nat \cup {NoTime}]
      /\ actions \in Seq(QueuedAction) /\ now \in Nat
    BY PoolInvParts DEF RestOK
<1>1. ASSUME NEW l \in Lender, NEW a \in Amounts, Deposit(l, a) PROVE DelayInv'
    <2>1. now # NoTime
        BY <1>0, InputAssumption
    <2>2. /\ deposit_time' = [deposit_time EXCEPT ![l] = now] /\ actions' = actions
          /\ \A k \in Lender : k # l => shares'[k] = shares[k]
        BY <1>0, <1>1 DEF Deposit, timelockVars
    <2> QED
        BY <1>0, <2>1, <2>2 DEF DelayInv
<1>2. ASSUME NEW l \in Lender, NEW n \in ShareCounts, Withdraw(l, n) PROVE DelayInv'
    <2>1. /\ shares' = [shares EXCEPT ![l] = shares[l] - n] /\ n \in Int /\ n > 0
          /\ deposit_time' = deposit_time /\ actions' = actions
        BY <1>2, InputAssumption DEF Withdraw, MayWithdraw, timelockVars
    <2>2. \A k \in Lender : shares'[k] > 0 => shares[k] > 0
        BY <1>0, <2>1
    <2> QED
        BY <2>1, <2>2 DEF DelayInv
<1>3. ASSUME NEW p \in Param, NEW v \in MaxUtils, QueueParameterChange(p, v) PROVE DelayInv'
    <2> DEFINE x == [param |-> p, new_value |-> v, queued_at |-> now,
                     execute_after |-> now + TIMELOCK_SECS, executed |-> FALSE, cancelled |-> FALSE]
    <2>1. actions' = Append(actions, x) /\ UNCHANGED lenderVars
        BY <1>3 DEF QueueParameterChange
    <2>2. x.execute_after = x.queued_at + TIMELOCK_SECS /\ ~(x.executed /\ x.cancelled)
        OBVIOUS
    <2> HIDE DEF x
    <2>3. \A i \in DOMAIN actions' : actions'[i] = x \/ (i \in DOMAIN actions /\ actions'[i] = actions[i])
        BY <1>0, <2>1
    <2> QED
        BY <2>1, <2>2, <2>3 DEF DelayInv, lenderVars
<1>4. ASSUME NEW i \in DOMAIN actions, ExecuteParameterChange(i) PROVE DelayInv'
    <2>1. /\ actions' = [actions EXCEPT ![i] = [actions[i] EXCEPT !.executed = TRUE]]
          /\ ~actions[i].cancelled /\ UNCHANGED lenderVars
        BY <1>4 DEF ExecuteParameterChange, Executable
    <2>2. actions[i] \in QueuedAction
        BY <1>0
    <2>3. /\ actions'[i] = [actions[i] EXCEPT !.executed = TRUE] /\ DOMAIN actions' = DOMAIN actions
          /\ \A j \in DOMAIN actions : j # i => actions'[j] = actions[j]
        BY <1>0, <2>1
    <2>4. /\ actions'[i].execute_after = actions[i].execute_after
          /\ actions'[i].queued_at = actions[i].queued_at
          /\ actions'[i].cancelled = actions[i].cancelled
        BY <2>2, <2>3 DEF QueuedAction
    <2> QED
        BY <2>1, <2>3, <2>4 DEF DelayInv, lenderVars
<1>5. ASSUME NEW i \in DOMAIN actions, CancelParameterChange(i) PROVE DelayInv'
    <2>1. /\ actions' = [actions EXCEPT ![i] = [actions[i] EXCEPT !.cancelled = TRUE]]
          /\ ~actions[i].executed /\ UNCHANGED lenderVars
        BY <1>5 DEF CancelParameterChange
    <2>2. actions[i] \in QueuedAction
        BY <1>0
    <2>3. /\ actions'[i] = [actions[i] EXCEPT !.cancelled = TRUE] /\ DOMAIN actions' = DOMAIN actions
          /\ \A j \in DOMAIN actions : j # i => actions'[j] = actions[j]
        BY <1>0, <2>1
    <2>4. /\ actions'[i].execute_after = actions[i].execute_after
          /\ actions'[i].queued_at = actions[i].queued_at
          /\ actions'[i].executed = actions[i].executed
        BY <2>2, <2>3 DEF QueuedAction
    <2> QED
        BY <2>1, <2>3, <2>4 DEF DelayInv, lenderVars
<1>6. ASSUME UNCHANGED <<lenderVars, actions>> PROVE DelayInv'
    BY <1>6 DEF DelayInv, lenderVars
<1> QED
    BY <1>1, <1>2, <1>3, <1>4, <1>5, <1>6 DEF Next, vars, timelockVars, Initialize, CreatePool,
       SetLockPeriod, SetWithdrawUtilThreshold, SetConcentrationLimits, Finance,
       FinanceInvoice, SetNav, ApplyReserveDelta, SetTimelockAdmin, Tick

LEMMA DelaysHold == Spec => [](PoolInv /\ DelayInv)
<1> QED
    BY PoolInit, PoolNext, DelayInit, DelayStep, PTL DEF Spec

\* Whatever the order of deposits, joins and changes of the lock period, no
\* withdrawal beats the lock of the lender's latest deposit.
THEOREM LocksHold == Spec => FreshSharesStayLocked
<1> DEFINE P == \A l \in Lender :
        /\ shares'[l] > shares[l] => deposit_time'[l] = now
        /\ shares'[l] < shares[l] =>
            config.lock_secs = 0 \/ now - deposit_time[l] >= config.lock_secs
<1>1. PoolInv /\ DelayInv /\ [Next]_vars => [P]_vars
    <2> SUFFICES ASSUME PoolInv, DelayInv, Next PROVE P
        OBVIOUS
    <2>0. /\ shares \in [Lender -> Nat] /\ deposit_time \in [Lender -> Nat \cup {NoTime}]
          /\ config.lock_secs \in Nat /\ now \in Nat /\ SoundLedger(pool) /\ Backed(pool)
        BY PoolInvParts DEF RestOK
    <2>1. ASSUME NEW l \in Lender, NEW a \in Amounts, Deposit(l, a) PROVE P
        <3>1. a \in Int /\ SharesFor(a, pool.nav) \in Nat
            BY <2>0, <2>1, DepositSound, InputAssumption DEF Deposit
        <3>2. /\ shares' = [shares EXCEPT ![l] = shares[l] + SharesFor(a, pool.nav)]
              /\ deposit_time' = [deposit_time EXCEPT ![l] = now]
            BY <2>1 DEF Deposit
        <3>3. /\ shares'[l] \in Nat /\ shares'[l] >= shares[l] /\ deposit_time'[l] = now
              /\ \A k \in Lender : k # l => shares'[k] = shares[k]
            BY <2>0, <3>1, <3>2
        <3>4. /\ ~(shares'[l] < shares[l])
              /\ \A k \in Lender : k # l => ~(shares'[k] < shares[k]) /\ ~(shares'[k] > shares[k])
            BY <2>0, <3>3
        <3> QED
            BY <3>3, <3>4
    <2>2. ASSUME NEW l \in Lender, NEW n \in ShareCounts, Withdraw(l, n) PROVE P
        <3>1. /\ shares' = [shares EXCEPT ![l] = shares[l] - n] /\ n \in Int /\ n > 0
              /\ shares[l] >= n /\ Unlocked(l)
            BY <2>2, InputAssumption DEF Withdraw, MayWithdraw
        <3>2. deposit_time[l] \in Nat
            BY <2>0, <3>1 DEF DelayInv
        <3>3. deposit_time[l] # NoTime
            BY <3>2, InputAssumption
        <3>4. config.lock_secs = 0 \/ now - deposit_time[l] >= config.lock_secs
            BY <2>0, <3>1, <3>2, <3>3 DEF Unlocked
        <3>5. /\ ~(shares'[l] > shares[l])
              /\ \A k \in Lender : k # l => ~(shares'[k] < shares[k]) /\ ~(shares'[k] > shares[k])
            <4>1. shares'[l] = shares[l] - n /\ shares[l] \in Nat
                BY <2>0, <3>1
            <4>2. \A k \in Lender : k # l => shares'[k] = shares[k] /\ shares[k] \in Nat
                BY <2>0, <3>1
            <4> QED
                BY <3>1, <4>1, <4>2
        <3> QED
            BY <3>4, <3>5
    <2>3. ASSUME shares' = shares PROVE P
        BY <2>0, <2>3
    <2> QED
        BY <2>1, <2>2, <2>3 DEF Next, lenderVars, Initialize, CreatePool, SetLockPeriod,
           SetWithdrawUtilThreshold, SetConcentrationLimits, Finance, FinanceInvoice, SetNav,
           ApplyReserveDelta, SetTimelockAdmin, QueueParameterChange, ExecuteParameterChange,
           CancelParameterChange, Tick
<1>2. Spec => [][P]_vars
    BY <1>1, DelaysHold, PTL DEF Spec
<1> QED
    BY <1>2 DEF FreshSharesStayLocked

\* The ceiling of a live pool moves only by an action that was public for the
\* whole timelock, is not cancelled, and is used up by the move.
THEOREM CeilingIsTimelocked == Spec => CeilingChangeWasTimelocked
<1> DEFINE P == ("ADMIN" \in pool.written /\ pool'.max_util # pool.max_util) =>
        \E i \in DOMAIN actions :
            /\ actions[i].param = "max_ut" /\ actions[i].new_value = pool'.max_util
            /\ now - actions[i].queued_at >= TIMELOCK_SECS
            /\ ~actions[i].executed /\ ~actions[i].cancelled
            /\ actions'[i].executed
<1>1. PoolInv /\ DelayInv /\ [Next]_vars => [P]_vars
    <2> SUFFICES ASSUME PoolInv, DelayInv, Next, "ADMIN" \in pool.written,
                        pool'.max_util # pool.max_util
                 PROVE  P
        OBVIOUS
    <2>0. /\ SoundLedger(pool) /\ Backed(pool) /\ config.withdraw_util_bps \in Int
          /\ actions \in Seq(QueuedAction) /\ now \in Nat
        BY PoolInvParts DEF RestOK
    <2>1. ASSUME NEW l \in Lender, NEW a \in Amounts, Deposit(l, a) PROVE FALSE
        BY <2>0, <2>1, DepositSound, InputAssumption DEF Deposit
    <2>2. ASSUME NEW l \in Lender, NEW n \in ShareCounts, Withdraw(l, n) PROVE FALSE
        <3>1. n \in Int /\ n <= pool.total_shares
            BY <2>2, WithdrawnIsSupplied
        <3> QED
            BY <2>0, <2>2, <3>1, WithdrawSound DEF Withdraw
    <2>3. ASSUME NEW a \in Amounts, MayFinance(pool, a), pool' = AfterFinance(pool, a) PROVE FALSE
        BY <2>0, <2>3, FinanceSound, InputAssumption
    <2>4. ASSUME NEW v \in Navs, SetNav(v) PROVE FALSE
        BY <2>0, <2>4, SetNavSound, InputAssumption DEF SetNav
    <2>5. ASSUME NEW d \in Deltas, ApplyReserveDelta(d) PROVE FALSE
        BY <2>0, <2>5, DeltaSound, InputAssumption DEF ApplyReserveDelta
    <2>6. PICK i \in DOMAIN actions : ExecuteParameterChange(i)
        BY <2>1, <2>2, <2>3, <2>4, <2>5 DEF Next, Initialize, CreatePool, SetLockPeriod,
           SetWithdrawUtilThreshold, SetConcentrationLimits, Finance, FinanceInvoice,
           SetTimelockAdmin, QueueParameterChange, CancelParameterChange, Tick
    <2>7. actions[i] \in QueuedAction /\ actions[i].new_value \in Int
        <3>1. actions[i] \in QueuedAction
            BY <2>0
        <3> QED
            BY <3>1 DEF QueuedAction
    <2>8. pool'.max_util = actions[i].new_value
        BY <2>0, <2>6, <2>7, MaxUtilSound DEF ExecuteParameterChange
    <2>9. actions' = [actions EXCEPT ![i] = [actions[i] EXCEPT !.executed = TRUE]]
        BY <2>6 DEF ExecuteParameterChange
    <2>10. actions'[i].executed
        BY <2>0, <2>7, <2>9 DEF QueuedAction
    <2>11. now - actions[i].queued_at >= TIMELOCK_SECS
        <3>1. /\ now >= actions[i].execute_after /\ actions[i].queued_at \in Nat
              /\ actions[i].execute_after = actions[i].queued_at + TIMELOCK_SECS
            BY <2>6, <2>7 DEF ExecuteParameterChange, Executable, DelayInv, QueuedAction
        <3> QED
            BY <2>0, <3>1, InputAssumption
    <2> QED
        BY <2>6, <2>8, <2>10, <2>11 DEF ExecuteParameterChange, Executable
<1>2. Spec => [][P]_vars
    BY <1>1, DelaysHold, PTL DEF Spec
<1> QED
    BY <1>2 DEF CeilingChangeWasTimelocked

\* An action id is never reused, and an action executed or cancelled keeps that
\* one outcome.
THEOREM ActionsHaveOneOutcome == Spec => ActionsResolveOnce
<1> DEFINE P == \A i \in DOMAIN actions :
        /\ i \in DOMAIN actions'
        /\ ~(actions[i].executed /\ actions[i].cancelled)
        /\ actions[i].executed \/ actions[i].cancelled => actions'[i] = actions[i]
<1>1. PoolInv /\ DelayInv /\ [Next]_vars => [P]_vars
    <2> SUFFICES ASSUME PoolInv, DelayInv, Next PROVE P
        OBVIOUS
    <2>0. actions \in Seq(QueuedAction) /\ \A i \in DOMAIN actions : ~(actions[i].executed /\ actions[i].cancelled)
        BY PoolInvParts DEF RestOK, DelayInv
    <2>1. ASSUME NEW p \in Param, NEW v \in MaxUtils, QueueParameterChange(p, v) PROVE P
        <3>1. PICK x : actions' = Append(actions, x)
            BY <2>1 DEF QueueParameterChange
        <3> QED
            BY <2>0, <3>1
    <2>2. ASSUME NEW i \in DOMAIN actions, ExecuteParameterChange(i) PROVE P
        <3>1. /\ DOMAIN actions' = DOMAIN actions /\ ~actions[i].executed /\ ~actions[i].cancelled
              /\ \A j \in DOMAIN actions : j # i => actions'[j] = actions[j]
            BY <2>0, <2>2 DEF ExecuteParameterChange, Executable
        <3> QED
            BY <2>0, <3>1
    <2>3. ASSUME NEW i \in DOMAIN actions, CancelParameterChange(i) PROVE P
        <3>1. /\ DOMAIN actions' = DOMAIN actions /\ ~actions[i].executed /\ ~actions[i].cancelled
              /\ \A j \in DOMAIN actions : j # i => actions'[j] = actions[j]
            BY <2>0, <2>3 DEF CancelParameterChange
        <3> QED
            BY <2>0, <3>1
    <2>4. ASSUME actions' = actions PROVE P
        BY <2>0, <2>4
    <2> QED
        BY <2>1, <2>2, <2>3, <2>4 DEF Next, timelockVars, Initialize, CreatePool, SetLockPeriod,
           SetWithdrawUtilThreshold, SetConcentrationLimits, Deposit, Withdraw, Finance,
           FinanceInvoice, SetNav, ApplyReserveDelta, SetTimelockAdmin, Tick
<1>2. Spec => [][P]_vars
    BY <1>1, DelaysHold, PTL DEF Spec
<1> QED
    BY <1>2 DEF ActionsResolveOnce

-----------------------------------------------------------------------------
(* The three contracts together *)

LoanRecord == [invoice : Id, buyer : Buyer, sme : Sme, amount : Int]

CashOK ==
    /\ paid_in \in Int /\ received \in Int /\ fees \in Int
    /\ charged \in [Id -> Int]

InvoicesOK == invoices \in [Id -> Registry!CommittedInvoice \cup {NoInvoice}]

LoansOK ==
    /\ IsFiniteSet(loans) /\ loans \subseteq LoanRecord
    /\ elsewhere \in [Buyer -> [Sme -> Int]]

LiftInv == PoolInv /\ CashOK /\ InvoicesOK /\ LoansOK /\ LoanBook /\ CapitalBackedByCash

\* The invoice is financed by this pool.
Standing(i) ==
    /\ invoices[i] # NoInvoice
    /\ invoices[i].status \in {"Assigned", "Repaid"}
    /\ invoices[i].owner = PoolTag

\* Lent to a buyer, or to an SME, on the word of another contract.
OtherwiseTo(b) == SumOver(elsewhere[b], Sme)
OtherwiseBy(s) == SumOver([b \in Buyer |-> elsewhere[b][s]], Buyer)

LEMMA LoanBookParts ==
    LoanBook <=> /\ \A r1, r2 \in loans : r1.invoice = r2.invoice => r1 = r2
                 /\ \A r \in loans : Standing(r.invoice)
                 /\ \A b \in Buyer : buyer_exposure[b] = LentTo({r \in loans : r.buyer = b}) + OtherwiseTo(b)
                 /\ \A s \in Sme : sme_exposure[s] = LentTo({r \in loans : r.sme = s}) + OtherwiseBy(s)
BY DEF LoanBook, Standing, OtherwiseTo, OtherwiseBy, Registry!HasStatus

-----------------------------------------------------------------------------
(* Invoices *)

\* One invoice becomes another record: its own standing must be kept, the
\* others are not touched.
LEMMA InvoiceBecomes ==
    ASSUME InvoicesOK, NEW i \in Id, NEW r, r \in Registry!CommittedInvoice,
           invoices' = [invoices EXCEPT ![i] = r],
           Standing(i) => r.status \in {"Assigned", "Repaid"} /\ r.owner = PoolTag
    PROVE  InvoicesOK' /\ \A j \in Id : Standing(j) => Standing(j)'
<1>1. InvoicesOK'
    BY DEF InvoicesOK
<1>2. r # NoInvoice
    BY LiftAssumption
<1>3. invoices'[i] = r /\ \A j \in Id : j # i => invoices'[j] = invoices[j]
    BY DEF InvoicesOK
<1> QED
    BY <1>1, <1>2, <1>3 DEF Standing

LEMMA InvoiceFields ==
    ASSUME InvoicesOK, NEW i \in Id, invoices[i] # NoInvoice, NEW st \in Registry!Status
    PROVE  /\ [invoices[i] EXCEPT !.status = st] \in Registry!CommittedInvoice
           /\ [invoices[i] EXCEPT !.status = st].status = st
           /\ [invoices[i] EXCEPT !.status = st].owner = invoices[i].owner
<1>1. invoices[i] \in Registry!CommittedInvoice
    BY DEF InvoicesOK
<1> QED
    BY <1>1 DEF Registry!CommittedInvoice

\* assign, called for any owner, takes an approved invoice, which no pool holds.
LEMMA AssignKeepsStanding ==
    ASSUME InvoicesOK, NEW i \in Id, NEW p \in Party,
           Registry!HasStatus(i, "Approved"),
           Registry!Becomes(i, Registry!AssignedTo(invoices[i], p))
    PROVE  /\ InvoicesOK' /\ \A j \in Id : Standing(j) => Standing(j)'
           /\ ~Standing(i)
           /\ p = PoolTag => Standing(i)'
<1>1. invoices[i] # NoInvoice /\ invoices[i].status = "Approved"
    BY DEF Registry!HasStatus
<1>2. PICK r : r = [invoices[i] EXCEPT !.status = "Assigned", !.owner = p]
    OBVIOUS
<1>3. invoices' = [invoices EXCEPT ![i] = r]
    BY <1>2 DEF Registry!Becomes, Registry!AssignedTo
<1>4. r \in Registry!CommittedInvoice /\ r.status = "Assigned" /\ r.owner = p
    <2>1. invoices[i] \in Registry!CommittedInvoice
        BY <1>1 DEF InvoicesOK
    <2> QED
        BY <1>2, <2>1 DEF Registry!CommittedInvoice, Registry!Status
<1>5. ~Standing(i)
    BY <1>1 DEF Standing
<1>6. InvoicesOK' /\ \A j \in Id : Standing(j) => Standing(j)'
    BY <1>3, <1>4, <1>5, InvoiceBecomes
<1>7. p = PoolTag => Standing(i)'
    <2>1. invoices'[i] = r /\ r # NoInvoice
        BY <1>3, <1>4, LiftAssumption DEF InvoicesOK
    <2> QED
        BY <1>4, <2>1 DEF Standing
<1> QED
    BY <1>5, <1>6, <1>7

\* Whatever else is called on the registry, a financed invoice stays financed
\* and with this pool.
LEMMA RegistryCallKeepsStanding ==
    ASSUME InvoicesOK, RegistryCall
    PROVE  InvoicesOK' /\ \A j \in Id : Standing(j) => Standing(j)'
<1> DEFINE Kept == InvoicesOK' /\ \A j \in Id : Standing(j) => Standing(j)'
<1>1. ASSUME NEW p \in Party, Registry!Initialize(p) PROVE Kept
    BY <1>1 DEF Registry!Initialize, InvoicesOK, Standing
<1>2. ASSUME NEW i \in Id, NEW c \in Commitment, NEW p \in Party, Registry!Register(i, c, p)
      PROVE  Kept
    <2>1. Registry!NewInvoice(c, p) \in Registry!CommittedInvoice
        BY DEF Registry!NewInvoice, Registry!CommittedInvoice, Registry!Status
    <2>2. invoices' = [invoices EXCEPT ![i] = Registry!NewInvoice(c, p)] /\ ~Standing(i)
        BY <1>2 DEF Registry!Register, Registry!Unregistered, Standing
    <2> QED
        BY <2>1, <2>2, InvoiceBecomes
<1>3. ASSUME NEW i \in Id, NEW p \in Party, Registry!AssignInvoice(i, p) PROVE Kept
    BY <1>3, AssignKeepsStanding DEF Registry!AssignInvoice, Registry!Assignable
<1>4. ASSUME NEW i \in Id, NEW caller \in Party, NEW p \in Party, Registry!Assign(caller, i, p)
      PROVE  Kept
    BY <1>4, AssignKeepsStanding DEF Registry!Assign
<1>5. ASSUME NEW i \in Id, NEW caller \in Party, Registry!Approve(caller, i) PROVE Kept
    <2>1. /\ invoices[i] # NoInvoice /\ invoices[i].status = "Pending"
          /\ invoices' = [invoices EXCEPT ![i] = [invoices[i] EXCEPT !.status = "Approved"]]
        BY <1>5 DEF Registry!Approve, Registry!HasStatus, Registry!Becomes
    <2>2. [invoices[i] EXCEPT !.status = "Approved"] \in Registry!CommittedInvoice /\ ~Standing(i)
        <3>1. "Approved" \in Registry!Status
            BY DEF Registry!Status
        <3> QED
            BY <2>1, <3>1, InvoiceFields DEF Standing
    <2> QED
        BY <2>1, <2>2, InvoiceBecomes
<1>6. ASSUME NEW i \in Id, NEW caller \in Party, Registry!MarkRepaid(caller, i) PROVE Kept
    <2>1. PICK r : r = [invoices[i] EXCEPT !.status = "Repaid"]
        OBVIOUS
    <2>2. invoices[i] # NoInvoice /\ invoices' = [invoices EXCEPT ![i] = r]
        BY <1>6, <2>1 DEF Registry!MarkRepaid, Registry!HasStatus, Registry!Becomes
    <2>3. /\ r \in Registry!CommittedInvoice
          /\ r.status = "Repaid" /\ r.owner = invoices[i].owner
        <3>1. "Repaid" \in Registry!Status
            BY DEF Registry!Status
        <3> QED
            BY <2>1, <2>2, <3>1, InvoiceFields
    <2>4. Standing(i) => r.status \in {"Assigned", "Repaid"} /\ r.owner = PoolTag
        BY <2>3 DEF Standing
    <2> QED
        BY <2>2, <2>3, <2>4, InvoiceBecomes
<1> QED
    BY <1>1, <1>2, <1>3, <1>4, <1>5, <1>6 DEF RegistryCall

-----------------------------------------------------------------------------
(* The loan book *)

\* One more loan adds its amount to what was lent.
LEMMA LentMore ==
    ASSUME NEW S, IsFiniteSet(S), S \subseteq LoanRecord, NEW r, r \in LoanRecord, r \notin S
    PROVE  LentTo(S \cup {r}) = LentTo(S) + r.amount
<1> DEFINE U == S \cup {r}
           f == [x \in U |-> x.amount]
           w == [x \in S |-> x.amount]
<1>1. \A x \in U : x.amount \in Int
    BY DEF LoanRecord
<1>2. IsFiniteSet(U)
    BY FS_AddElement
<1>3. f \in [U -> Int]
    BY <1>1
<1>4. w \in [S -> Int]
    BY <1>1
<1>5. r \in U /\ S = U \ {r}
    OBVIOUS
<1>6. \A x \in S : w[x] = f[x]
    OBVIOUS
<1>7. f[r] = r.amount
    OBVIOUS
<1>8. LentTo(U) = SumOver(f, U) /\ LentTo(S) = SumOver(w, S)
    BY DEF LentTo
<1> HIDE DEF f, w, U
<1>9. SumOver(f, U) = SumOver(w, S) + f[r]
    BY <1>2, <1>3, <1>4, <1>5, <1>6, SumWithout
<1> QED
    BY <1>7, <1>8, <1>9 DEF U

LEMMA LentInt ==
    ASSUME NEW S, IsFiniteSet(S), S \subseteq LoanRecord PROVE LentTo(S) \in Int
<1> DEFINE w == [x \in S |-> x.amount]
<1>1. w \in [S -> Int]
    BY DEF LoanRecord
<1>2. LentTo(S) = SumOver(w, S)
    BY DEF LentTo
<1> HIDE DEF w
<1> QED
    BY <1>1, <1>2, SumInt

LEMMA OtherwiseInt ==
    ASSUME LoansOK
    PROVE  /\ \A b \in Buyer : OtherwiseTo(b) \in Int
           /\ \A s \in Sme : OtherwiseBy(s) \in Int
<1>1. elsewhere \in [Buyer -> [Sme -> Int]] /\ IsFiniteSet(Buyer) /\ IsFiniteSet(Sme)
    BY InputAssumption DEF LoansOK
<1>2. ASSUME NEW b \in Buyer PROVE OtherwiseTo(b) \in Int
    <2>1. elsewhere[b] \in [Sme -> Int]
        BY <1>1
    <2> QED
        BY <1>1, <2>1, SumInt DEF OtherwiseTo
<1>3. ASSUME NEW s \in Sme PROVE OtherwiseBy(s) \in Int
    <2>1. [b \in Buyer |-> elsewhere[b][s]] \in [Buyer -> Int]
        BY <1>1
    <2> QED
        BY <1>1, <2>1, SumInt DEF OtherwiseBy
<1> QED
    BY <1>2, <1>3

\* The book stays in order when invoices keep their standing and neither the
\* loans nor the exposure tables change.
LEMMA BookUndisturbed ==
    ASSUME LoansOK, LoanBook, UNCHANGED <<loans, elsewhere, exposureVars>>,
           \A j \in Id : Standing(j) => Standing(j)'
    PROVE  LoansOK' /\ LoanBook'
<1>1. /\ loans' = loans /\ elsewhere' = elsewhere
      /\ buyer_exposure' = buyer_exposure /\ sme_exposure' = sme_exposure
    BY DEF exposureVars
<1>2. \A r \in loans : r.invoice \in Id
    BY DEF LoansOK, LoanRecord
<1>3. \A r \in loans : Standing(r.invoice)'
    BY <1>2, LoanBookParts
<1>4. /\ \A r1, r2 \in loans' : r1.invoice = r2.invoice => r1 = r2
      /\ \A r \in loans' : (Registry!HasStatus(r.invoice, "Assigned") \/ Registry!HasStatus(r.invoice, "Repaid"))'
                           /\ invoices'[r.invoice].owner = PoolTag
    BY <1>1, <1>3 DEF LoanBook, Standing, Registry!HasStatus
<1>5. /\ \A b \in Buyer : buyer_exposure'[b]
                            = LentTo({r \in loans' : r.buyer = b}) + SumOver(elsewhere'[b], Sme)
      /\ \A s \in Sme : sme_exposure'[s]
                          = LentTo({r \in loans' : r.sme = s})
                            + SumOver([b \in Buyer |-> elsewhere'[b][s]], Buyer)
    BY <1>1 DEF LoanBook
<1>6. LoansOK'
    BY <1>1 DEF LoansOK
<1> QED
    BY <1>4, <1>5, <1>6 DEF LoanBook, LentTo

\* finance_invoice adds one loan, of an invoice no loan was made on before, and
\* adds its amount to the exposure of its buyer and of its SME.
LEMMA FinanceKeepsBook ==
    ASSUME LiftInv, NEW b \in Buyer, NEW s \in Sme, NEW i \in Id, NEW a \in Loans,
           NEW caller \in Party, FinanceAndAssign(b, s, i, a, caller)
    PROVE  InvoicesOK' /\ LoansOK' /\ LoanBook'
<1>0. PICK r : r = [invoice |-> i, buyer |-> b, sme |-> s, amount |-> a]
    OBVIOUS
<1>1. /\ r \in LoanRecord /\ r.invoice = i /\ r.buyer = b /\ r.sme = s /\ r.amount = a
      /\ loans' = loans \cup {r} /\ elsewhere' = elsewhere
    BY <1>0, LiftAssumption DEF LoanRecord, FinanceAndAssign
<1>2. InvoicesOK /\ LoansOK /\ PoolTag \in Party
    BY LiftAssumption DEF LiftInv
<1>3. /\ \A r1, r2 \in loans : r1.invoice = r2.invoice => r1 = r2
      /\ \A x \in loans : x.invoice \in Id /\ Standing(x.invoice)
      /\ \A c \in Buyer : buyer_exposure[c] = LentTo({x \in loans : x.buyer = c}) + OtherwiseTo(c)
      /\ \A t \in Sme : sme_exposure[t] = LentTo({x \in loans : x.sme = t}) + OtherwiseBy(t)
    BY LoanBookParts DEF LiftInv, LoansOK, LoanRecord
<1>4. InvoicesOK' /\ (\A j \in Id : Standing(j) => Standing(j)') /\ ~Standing(i) /\ Standing(i)'
    BY <1>2, AssignKeepsStanding DEF FinanceAndAssign, Registry!Assign
<1>5. r \notin loans /\ \A x \in loans : x.invoice # i
    BY <1>1, <1>3, <1>4
<1>6. LoansOK'
    BY <1>1, <1>2, FS_AddElement DEF LoansOK
<1>7. \A r1, r2 \in loans' : r1.invoice = r2.invoice => r1 = r2
    BY <1>1, <1>3, <1>5
<1>8. \A x \in loans' : Standing(x.invoice)'
    BY <1>1, <1>3, <1>4
<1>9. /\ buyer_exposure \in [Buyer -> Nat] /\ sme_exposure \in [Sme -> Nat]
      /\ buyer_exposure' = [buyer_exposure EXCEPT ![b] = buyer_exposure[b] + a]
      /\ sme_exposure' = [sme_exposure EXCEPT ![s] = sme_exposure[s] + a]
    BY PoolInvParts DEF LiftInv, RestOK, FinanceAndAssign, FinanceInvoice, Raised
<1>10. a \in Int
    BY LiftAssumption
<1>11. ASSUME NEW c \in Buyer
       PROVE  buyer_exposure'[c] = LentTo({x \in loans' : x.buyer = c}) + OtherwiseTo(c)
    <2>1. PICK S : S = {x \in loans : x.buyer = c}
        OBVIOUS
    <2>2. IsFiniteSet(S) /\ S \subseteq LoanRecord /\ r \notin S
        BY <1>2, <1>5, <2>1, FS_Subset DEF LoansOK
    <2>3. PICK n, k : n = LentTo(S) /\ k = OtherwiseTo(c)
        OBVIOUS
    <2>4. buyer_exposure[c] = n + k /\ n \in Int /\ k \in Int
        BY <1>2, <1>3, <2>1, <2>2, <2>3, LentInt, OtherwiseInt
    <2>5. CASE c = b
        <3>1. {x \in loans' : x.buyer = c} = S \cup {r} /\ buyer_exposure'[c] = buyer_exposure[c] + a
            BY <1>1, <1>9, <2>1, <2>5
        <3>2. LentTo({x \in loans' : x.buyer = c}) = n + a
            BY <1>1, <2>2, <2>3, <3>1, LentMore
        <3>3. buyer_exposure'[c] = (n + a) + k
            BY <1>10, <2>4, <3>1
        <3> QED
            BY <2>3, <3>2, <3>3
    <2>6. CASE c # b
        <3>1. {x \in loans' : x.buyer = c} = S /\ buyer_exposure'[c] = buyer_exposure[c]
            BY <1>1, <1>9, <2>1, <2>6
        <3> QED
            BY <2>3, <2>4, <3>1
    <2> QED
        BY <2>5, <2>6
<1>12. ASSUME NEW t \in Sme
       PROVE  sme_exposure'[t] = LentTo({x \in loans' : x.sme = t}) + OtherwiseBy(t)
    <2>1. PICK S : S = {x \in loans : x.sme = t}
        OBVIOUS
    <2>2. IsFiniteSet(S) /\ S \subseteq LoanRecord /\ r \notin S
        BY <1>2, <1>5, <2>1, FS_Subset DEF LoansOK
    <2>3. PICK n, k : n = LentTo(S) /\ k = OtherwiseBy(t)
        OBVIOUS
    <2>4. sme_exposure[t] = n + k /\ n \in Int /\ k \in Int
        BY <1>2, <1>3, <2>1, <2>2, <2>3, LentInt, OtherwiseInt
    <2>5. CASE t = s
        <3>1. {x \in loans' : x.sme = t} = S \cup {r} /\ sme_exposure'[t] = sme_exposure[t] + a
            BY <1>1, <1>9, <2>1, <2>5
        <3>2. LentTo({x \in loans' : x.sme = t}) = n + a
            BY <1>1, <2>2, <2>3, <3>1, LentMore
        <3>3. sme_exposure'[t] = (n + a) + k
            BY <1>10, <2>4, <3>1
        <3> QED
            BY <2>3, <3>2, <3>3
    <2>6. CASE t # s
        <3>1. {x \in loans' : x.sme = t} = S /\ sme_exposure'[t] = sme_exposure[t]
            BY <1>1, <1>9, <2>1, <2>6
        <3> QED
            BY <2>3, <2>4, <3>1
    <2> QED
        BY <2>5, <2>6
<1>13. LoanBook'
    BY <1>1, <1>7, <1>8, <1>11, <1>12
       DEF LoanBook, LentTo, OtherwiseTo, OtherwiseBy, Standing, Registry!HasStatus
<1> QED
    BY <1>4, <1>6, <1>13

\* Through another contract it adds to what was lent elsewhere, for its buyer and
\* for its SME, and the registry's invoices stay as they are.
LEMMA ElsewhereKeepsBook ==
    ASSUME LiftInv, NEW b \in Buyer, NEW s \in Sme, NEW a \in Loans, FinanceElsewhere(b, s, a)
    PROVE  InvoicesOK' /\ LoansOK' /\ LoanBook'
<1>1. /\ elsewhere' = [elsewhere EXCEPT ![b] = [elsewhere[b] EXCEPT ![s] = elsewhere[b][s] + a]]
      /\ loans' = loans /\ invoices' = invoices
    BY DEF FinanceElsewhere, registryVars
<1>2. /\ InvoicesOK /\ LoansOK /\ LoanBook /\ a \in Int
      /\ elsewhere \in [Buyer -> [Sme -> Int]] /\ IsFiniteSet(Buyer) /\ IsFiniteSet(Sme)
    BY LiftAssumption, InputAssumption DEF LiftInv, LoansOK
<1>3. /\ buyer_exposure \in [Buyer -> Nat] /\ sme_exposure \in [Sme -> Nat]
      /\ buyer_exposure' = [buyer_exposure EXCEPT ![b] = buyer_exposure[b] + a]
      /\ sme_exposure' = [sme_exposure EXCEPT ![s] = sme_exposure[s] + a]
    BY PoolInvParts DEF LiftInv, RestOK, FinanceElsewhere, FinanceInvoice, Raised
<1>4. /\ elsewhere'[b] = [elsewhere[b] EXCEPT ![s] = elsewhere[b][s] + a]
      /\ \A c \in Buyer : c # b => elsewhere'[c] = elsewhere[c]
      /\ elsewhere' \in [Buyer -> [Sme -> Int]]
    BY <1>1, <1>2
<1>5. /\ elsewhere[b] \in [Sme -> Int] /\ elsewhere'[b] \in [Sme -> Int]
      /\ elsewhere[b][s] \in Int /\ elsewhere'[b][s] = elsewhere[b][s] + a
      /\ \A t \in Sme : t # s => elsewhere'[b][t] = elsewhere[b][t]
    BY <1>2, <1>4
<1>6. ASSUME NEW c \in Buyer
      PROVE  buyer_exposure'[c] = LentTo({x \in loans : x.buyer = c}) + SumOver(elsewhere'[c], Sme)
    <2>1. PICK n : n = LentTo({x \in loans : x.buyer = c})
        OBVIOUS
    <2>2. buyer_exposure[c] = n + SumOver(elsewhere[c], Sme)
        BY <1>2, <2>1 DEF LoanBook
    <2>3. n \in Int /\ SumOver(elsewhere[c], Sme) \in Int
        <3>1. PICK S : S = {x \in loans : x.buyer = c}
            OBVIOUS
        <3>2. IsFiniteSet(S) /\ S \subseteq LoanRecord
            BY <1>2, <3>1, FS_Subset DEF LoansOK
        <3>3. LentTo(S) \in Int /\ OtherwiseTo(c) \in Int
            BY <1>2, <3>2, LentInt, OtherwiseInt
        <3> QED
            BY <2>1, <3>1, <3>3 DEF OtherwiseTo
    <2>4. CASE c = b
        <3>1. SumOver(elsewhere'[b], Sme) = SumOver(elsewhere[b], Sme) - elsewhere[b][s] + elsewhere'[b][s]
            BY <1>2, <1>5, SumUpdate
        <3>2. buyer_exposure'[c] = buyer_exposure[c] + a
            BY <1>3, <2>4
        <3>3. buyer_exposure'[c] = n + SumOver(elsewhere'[c], Sme)
            BY <1>2, <1>5, <2>2, <2>3, <2>4, <3>1, <3>2
        <3> QED
            BY <2>1, <3>3
    <2>5. CASE c # b
        BY <1>3, <1>4, <2>1, <2>2, <2>5
    <2> QED
        BY <2>4, <2>5
<1>7. ASSUME NEW t \in Sme
      PROVE  sme_exposure'[t] = LentTo({x \in loans : x.sme = t})
                              + SumOver([c \in Buyer |-> elsewhere'[c][t]], Buyer)
    <2>1. PICK n : n = LentTo({x \in loans : x.sme = t})
        OBVIOUS
    <2>2. PICK f : f = [c \in Buyer |-> elsewhere[c][t]]
        OBVIOUS
    <2>3. PICK g : g = [c \in Buyer |-> elsewhere'[c][t]]
        OBVIOUS
    <2>4. sme_exposure[t] = n + SumOver(f, Buyer)
        BY <1>2, <2>1, <2>2 DEF LoanBook
    <2>5. n \in Int
        <3>1. PICK S : S = {x \in loans : x.sme = t}
            OBVIOUS
        <3>2. IsFiniteSet(S) /\ S \subseteq LoanRecord
            BY <1>2, <3>1, FS_Subset DEF LoansOK
        <3> QED
            BY <2>1, <3>1, <3>2, LentInt
    <2>6. f \in [Buyer -> Int] /\ g \in [Buyer -> Int]
        BY <1>2, <1>4, <2>2, <2>3
    <2>7. SumOver(f, Buyer) \in Int
        BY <1>2, <2>6, SumInt
    <2>8. CASE t = s
        <3>1. g[b] = f[b] + a /\ \A c \in Buyer : c # b => g[c] = f[c]
            BY <1>4, <1>5, <2>2, <2>3, <2>8
        <3>2. SumOver(g, Buyer) = SumOver(f, Buyer) - f[b] + g[b]
            BY <1>2, <2>6, <3>1, SumUpdate
        <3>3. sme_exposure'[t] = sme_exposure[t] + a /\ f[b] \in Int
            BY <1>3, <2>6, <2>8
        <3>4. sme_exposure'[t] = n + SumOver(g, Buyer)
            BY <1>2, <2>4, <2>5, <2>7, <3>1, <3>2, <3>3
        <3> QED
            BY <2>1, <2>3, <3>4
    <2>9. CASE t # s
        <3>1. g = f
            BY <1>4, <1>5, <2>2, <2>3, <2>9
        <3>2. sme_exposure'[t] = sme_exposure[t]
            BY <1>3, <2>9
        <3> QED
            BY <2>1, <2>3, <2>4, <3>1, <3>2
    <2> QED
        BY <2>8, <2>9
<1>8. InvoicesOK' /\ LoansOK'
    BY <1>1, <1>2, <1>4 DEF InvoicesOK, LoansOK
<1>9. /\ \A r1, r2 \in loans' : r1.invoice = r2.invoice => r1 = r2
      /\ \A r \in loans' : (Registry!HasStatus(r.invoice, "Assigned") \/ Registry!HasStatus(r.invoice, "Repaid"))'
                           /\ invoices'[r.invoice].owner = PoolTag
    BY <1>1, <1>2 DEF LoanBook, Registry!HasStatus
<1>10. LoanBook'
    BY <1>1, <1>6, <1>7, <1>9 DEF LoanBook, LentTo
<1> QED
    BY <1>8, <1>10

-----------------------------------------------------------------------------
(* Cash *)

LEMMA ChargedInt == CashOK => SumOver(charged, Id) \in Int
<1> SUFFICES ASSUME CashOK PROVE SumOver(charged, Id) \in Int
    OBVIOUS
<1>1. IsFiniteSet(Id) /\ charged \in [Id -> Int]
    BY LiftAssumption DEF CashOK
<1> QED
    BY <1>1, SumInt

\* A step that raises capital by no more than it raises the cash behind it.
LEMMA CashKeepsUp ==
    ASSUME CashOK, CapitalBackedByCash, CashOK', SoundLedger(pool), SoundLedger(pool'),
           NEW d \in Int, pool'.total_capital <= pool.total_capital + d,
           paid_in' + received' - fees' - SumOver(charged', Id)
               = paid_in + received - fees - SumOver(charged, Id) + d
    PROVE  CapitalBackedByCash'
<1>1. /\ SumOver(charged, Id) \in Int /\ SumOver(charged', Id) \in Int
    <2>1. SumOver(charged, Id) \in Int
        BY ChargedInt
    <2>2. IsFiniteSet(Id) /\ charged' \in [Id -> Int]
        BY LiftAssumption DEF CashOK
    <2> QED
        BY <2>1, <2>2, SumInt
<1>2. /\ paid_in \in Int /\ received \in Int /\ fees \in Int
      /\ paid_in' \in Int /\ received' \in Int /\ fees' \in Int
    BY DEF CashOK
<1>3. pool.total_capital \in Int /\ pool'.total_capital \in Int
    <2>1. pool.total_capital \in Nat
        BY SoundFields
    <2>2. pool'.total_capital \in Nat
        BY DEF SoundLedger
    <2> QED
        BY <2>1, <2>2
<1>4. pool'.total_capital <= paid_in' + received' - fees' - SumOver(charged', Id)
    BY <1>1, <1>2, <1>3 DEF CapitalBackedByCash
<1> QED
    BY <1>4 DEF CapitalBackedByCash

\* No cash moves and no capital is added.
LEMMA NoCashMoves ==
    ASSUME LiftInv, SoundLedger(pool'), pool'.total_capital <= pool.total_capital,
           UNCHANGED <<paid_in, received, fees, charged>>
    PROVE  CashOK' /\ CapitalBackedByCash'
<1>1. CashOK /\ CapitalBackedByCash /\ SoundLedger(pool)
    BY PoolInvParts DEF LiftInv
<1>2. CashOK'
    BY <1>1 DEF CashOK
<1>3. SumOver(charged, Id) \in Int
    BY <1>1, ChargedInt
<1>4. pool.total_capital \in Int
    BY <1>1, SoundFields
<1>5. pool'.total_capital <= pool.total_capital + 0
    BY <1>4
<1>6. paid_in + received - fees - SumOver(charged, Id) = paid_in + received - fees - SumOver(charged, Id) + 0
    BY <1>1, <1>3 DEF CashOK
<1>7. paid_in' + received' - fees' - SumOver(charged', Id)
        = paid_in + received - fees - SumOver(charged, Id) + 0
    BY <1>6
<1> QED
    BY <1>1, <1>2, <1>5, <1>7, CashKeepsUp

\* The waterfall asks of the pool what the pool's own entrypoint does.
LEMMA SameReserveDelta ==
    ASSUME NEW p, NEW d
    PROVE  /\ Waterfall!MayApplyReserveDelta(p, d) <=> MayApplyReserveDelta(p, d)
           /\ Waterfall!AfterReserveDelta(p, d) = AfterReserveDelta(p, d)
BY DEF MayApplyReserveDelta, AfterReserveDelta, NavAfterDelta, ClampedTo, UtilLimit, TruncDiv, Fits,
       Waterfall!MayApplyReserveDelta, Waterfall!AfterReserveDelta, Waterfall!NavAfterDelta,
       Waterfall!ClampedTo, Waterfall!UtilLimit, Waterfall!TruncDiv, Waterfall!Fits

\* The four buckets of a repayment add up to what was paid, none negative.
LEMMA RepaymentSplits ==
    \A a, p, f, r \in Nat : \A b : b = Waterfall!Breakdown(a, p, f, r) =>
        b.fee_paid \in Nat /\ Waterfall!ToPool(b) \in Nat /\ Waterfall!ToPool(b) + b.fee_paid = a
<1> SUFFICES ASSUME NEW a \in Nat, NEW p \in Nat, NEW f \in Nat, NEW r \in Nat,
                    NEW b, b = Waterfall!Breakdown(a, p, f, r)
             PROVE  /\ b.fee_paid \in Nat /\ Waterfall!ToPool(b) \in Nat
                    /\ Waterfall!ToPool(b) + b.fee_paid = a
    OBVIOUS
<1> DEFINE principal == Waterfall!Smaller(a, p)
           fee       == Waterfall!Smaller(a - principal, f)
           reserve   == Waterfall!Smaller(a - principal - fee, r)
<1>1. principal \in Nat /\ principal <= a
    BY DEF Waterfall!Smaller
<1> HIDE DEF principal
<1>2. fee \in Nat /\ fee <= a - principal
    BY <1>1 DEF Waterfall!Smaller
<1> HIDE DEF fee
<1>3. reserve \in Nat /\ reserve <= a - principal - fee
    BY <1>1, <1>2 DEF Waterfall!Smaller
<1> HIDE DEF reserve
<1>4. /\ b.principal_paid = principal /\ b.fee_paid = fee /\ b.reserve_paid = reserve
      /\ b.lender_yield_paid = a - principal - fee - reserve
    BY DEF Waterfall!Breakdown, principal, fee, reserve
<1> QED
    BY <1>1, <1>2, <1>3, <1>4 DEF Waterfall!ToPool

\* What a call of the waterfall does to the pool: one change of its reserve, or
\* nothing; and the cash behind the pool changes by as much.
LEMMA RepayPoolMoves ==
    ASSUME CashOK, RepayPool
    PROVE  \E d \in Int :
             /\ \/ MayApplyReserveDelta(pool, d) /\ pool' = AfterReserveDelta(pool, d)
                \/ pool' = pool /\ d = 0
             /\ received' \in Int /\ fees' \in Int /\ charged' \in [Id -> Int]
             /\ received' - fees' - SumOver(charged', Id) = received - fees - SumOver(charged, Id) + d
             /\ now' = now
<1> DEFINE Moves(d) ==
             /\ \/ MayApplyReserveDelta(pool, d) /\ pool' = AfterReserveDelta(pool, d)
                \/ pool' = pool /\ d = 0
             /\ received' \in Int /\ fees' \in Int /\ charged' \in [Id -> Int]
             /\ received' - fees' - SumOver(charged', Id) = received - fees - SumOver(charged, Id) + d
             /\ now' = now
<1>0. /\ received \in Int /\ fees \in Int /\ charged \in [Id -> Int]
      /\ SumOver(charged, Id) \in Int
    BY ChargedInt DEF CashOK
<1>1. ASSUME UNCHANGED <<pool, received, fees, charged, now>> PROVE Moves(0)
    BY <1>0, <1>1
<1>2. ASSUME Waterfall!Initialize PROVE Moves(0)
    BY <1>1, <1>2 DEF Waterfall!Initialize, Waterfall!money, Waterfall!delinquency
<1>3. ASSUME NEW i \in Id, NEW t \in DueDates, Waterfall!MarkInvoiceDue(i, t) PROVE Moves(0)
    BY <1>1, <1>3 DEF Waterfall!MarkInvoiceDue, Waterfall!money
<1>4. ASSUME NEW a \in Payments, Waterfall!ProcessRepayment(a) PROVE Moves(a)
    <2>1. a \in Int
        BY LiftAssumption
    <2>2. /\ MayApplyReserveDelta(pool, a) /\ pool' = AfterReserveDelta(pool, a)
          /\ received' = received + a /\ fees' = fees /\ charged' = charged /\ now' = now
        BY <1>4, SameReserveDelta DEF Waterfall!ProcessRepayment, Waterfall!delinquency
    <2>3. received + a - fees - SumOver(charged, Id) = received - fees - SumOver(charged, Id) + a
        BY <1>0, <2>1
    <2> QED
        BY <1>0, <2>1, <2>2, <2>3
<1>5. ASSUME NEW a \in Payments, NEW p \in Dues, NEW f \in Dues, NEW r \in Dues,
             Waterfall!ProcessRepaymentWaterfall(a, p, f, r)
      PROVE  \E d \in Int : Moves(d)
    <2>1. PICK b : b = Waterfall!Breakdown(a, p, f, r)
        OBVIOUS
    <2>2. PICK d : d = Waterfall!ToPool(b)
        OBVIOUS
    <2>3. a \in Nat /\ p \in Nat /\ f \in Nat /\ r \in Nat
        BY <1>5, LiftAssumption DEF Waterfall!ProcessRepaymentWaterfall
    <2>4. b.fee_paid \in Nat /\ d \in Nat /\ d + b.fee_paid = a
        <3>1. \A e : e = Waterfall!Breakdown(a, p, f, r) =>
                e.fee_paid \in Nat /\ Waterfall!ToPool(e) \in Nat /\ Waterfall!ToPool(e) + e.fee_paid = a
            BY <2>3, RepaymentSplits
        <3>2. b.fee_paid \in Nat /\ Waterfall!ToPool(b) \in Nat /\ Waterfall!ToPool(b) + b.fee_paid = a
            BY <2>1, <3>1, Zenon
        <3> QED
            BY <2>2, <3>2
    <2>5. /\ d > 0 => Waterfall!MayApplyReserveDelta(pool, d)
          /\ pool' = IF d > 0 THEN Waterfall!AfterReserveDelta(pool, d) ELSE pool
          /\ fees' = fees + b.fee_paid /\ received' = received + a
          /\ charged' = charged /\ now' = now
        BY <1>5, <2>1, <2>2 DEF Waterfall!ProcessRepaymentWaterfall, Waterfall!delinquency
    <2>6. \/ MayApplyReserveDelta(pool, d) /\ pool' = AfterReserveDelta(pool, d)
          \/ pool' = pool /\ d = 0
        BY <2>4, <2>5, SameReserveDelta
    <2>7. received' \in Int /\ fees' \in Int /\ charged' \in [Id -> Int]
        BY <1>0, <2>3, <2>4, <2>5
    <2>8. received' - fees' - SumOver(charged, Id) = received - fees - SumOver(charged, Id) + d
        BY <1>0, <2>3, <2>4, <2>5
    <2>9. Moves(d)
        BY <2>5, <2>6, <2>7, <2>8
    <2> QED
        BY <2>4, <2>9
<1>6. ASSUME NEW i \in Id, NEW loss \in Losses, Waterfall!DeclareDefault(i, loss)
      PROVE  Moves(-loss)
    <2>1. loss \in Int /\ -loss \in Int
        BY LiftAssumption
    <2>2. /\ MayApplyReserveDelta(pool, -loss) /\ pool' = AfterReserveDelta(pool, -loss)
          /\ received' = received /\ fees' = fees /\ now' = now
          /\ charged' = [charged EXCEPT ![i] = charged[i] + loss]
        BY <1>6, SameReserveDelta DEF Waterfall!DeclareDefault
    <2>3. charged[i] \in Int
        BY <1>0
    <2>4. /\ charged' \in [Id -> Int] /\ charged'[i] = charged[i] + loss
          /\ \A j \in Id : j # i => charged'[j] = charged[j]
        BY <1>0, <2>1, <2>2, <2>3
    <2>5. IsFiniteSet(Id) /\ charged \in [Id -> Int] /\ i \in Id
        BY <1>0, LiftAssumption
    <2>6. SumOver(charged', Id) = SumOver(charged, Id) - charged[i] + charged'[i]
        BY <2>4, <2>5, SumUpdate
    <2>7. received - fees - SumOver(charged', Id) = received - fees - SumOver(charged, Id) + (-loss)
        BY <1>0, <2>1, <2>3, <2>4, <2>6
    <2> QED
        BY <1>0, <2>2, <2>4, <2>7
<1>7. \A a \in Payments : a \in Int
    BY LiftAssumption
<1>8. \A loss \in Losses : -loss \in Int
    BY LiftAssumption
<1>9. \E d \in Int : Moves(d)
    <2> HIDE DEF Moves
    <2>1. 0 \in Int
        OBVIOUS
    <2> QED
        BY <1>2, <1>3, <1>4, <1>5, <1>6, <1>7, <1>8, <2>1 DEF RepayPool
<1> QED
    BY <1>9

-----------------------------------------------------------------------------
(* The invariant *)

LEMMA LiftInitInv == LiftInit => LiftInv
<1> SUFFICES ASSUME LiftInit PROVE LiftInv
    OBVIOUS
<1>1. PoolInv
    BY PoolInit DEF LiftInit
<1>2. /\ paid_in = 0 /\ received = 0 /\ fees = 0 /\ charged = [i \in Id |-> 0] /\ loans = {}
      /\ elsewhere = [b \in Buyer |-> [s \in Sme |-> 0]]
      /\ invoices = [i \in Id |-> NoInvoice]
    BY DEF LiftInit, Waterfall!InitWaterfall, Registry!Init
<1>3. CashOK /\ InvoicesOK
    BY <1>2 DEF CashOK, InvoicesOK
<1>4. LoansOK
    BY <1>2, FS_EmptySet DEF LoansOK
<1>5. LoanBook
    <2>1. LentTo({}) = 0
        <3>1. LentTo({}) = SumOver([r \in {} |-> r.amount], {})
            BY DEF LentTo
        <3>2. [r \in {} |-> r.amount] = [r \in {} |-> 0]
            OBVIOUS
        <3>3. SumOver([r \in {} |-> 0], {}) = 0
            BY FS_EmptySet, SumZero
        <3> QED
            BY <3>1, <3>2, <3>3
    <2>2. /\ \A b \in Buyer : buyer_exposure[b] = 0 /\ {r \in loans : r.buyer = b} = {}
          /\ \A s \in Sme : sme_exposure[s] = 0 /\ {r \in loans : r.sme = s} = {}
        BY <1>2 DEF LiftInit, Init
    <2>3. IsFiniteSet(Buyer) /\ IsFiniteSet(Sme)
        BY InputAssumption
    <2>4. \A b \in Buyer : SumOver(elsewhere[b], Sme) = 0
        BY <1>2, <2>3, SumZero
    <2>5. ASSUME NEW s \in Sme PROVE SumOver([b \in Buyer |-> elsewhere[b][s]], Buyer) = 0
        <3>1. [b \in Buyer |-> elsewhere[b][s]] = [b \in Buyer |-> 0]
            BY <1>2
        <3> QED
            BY <2>3, <3>1, SumZero
    <2> QED
        BY <1>2, <2>1, <2>2, <2>4, <2>5 DEF LoanBook
<1>6. CapitalBackedByCash
    <2>1. SumOver(charged, Id) = 0
        BY <1>2, SumZero, LiftAssumption
    <2>2. pool.total_capital = 0
        BY DEF LiftInit, Init, Undeployed
    <2> QED
        BY <1>2, <2>1, <2>2 DEF CapitalBackedByCash
<1> QED
    BY <1>1, <1>3, <1>4, <1>5, <1>6 DEF LiftInv

\* The pool's part of a call that moves money or an invoice, and of every other.
LEMMA LiftPool == ASSUME LiftInv, [LiftNext]_liftVars PROVE PoolInv'
<1>0. PoolInv /\ CashOK /\ SoundLedger(pool) /\ RestOK
    BY PoolInvParts DEF LiftInv
<1>1. CASE PoolCall
    <2>1. ASSUME NEW mu \in MaxUtils, Initialize(mu) PROVE PoolInv'
        BY <1>0, <2>1, PoolNext DEF Next
    <2>2. ASSUME NEW bb \in ConcentrationLimits, NEW sb \in ConcentrationLimits,
                 SetConcentrationLimits(bb, sb)
          PROVE  PoolInv'
        BY <1>0, <2>2, PoolNext DEF Next
    <2>3. ASSUME NEW a \in Loans, Finance(a) PROVE PoolInv'
        BY <1>0, <2>3, FinanceKeepsInv, LiftAssumption
    <2> QED
        BY <1>1, <2>1, <2>2, <2>3 DEF PoolCall
<1>2. ASSUME NEW l \in Lender, NEW a \in Amounts, PayIn(l, a) PROVE PoolInv'
    BY <1>0, <1>2, DepositKeepsInv DEF PayIn
<1>3. ASSUME NEW l \in Lender, NEW n \in ShareCounts, PayOut(l, n) PROVE PoolInv'
    BY <1>0, <1>3, WithdrawKeepsInv DEF PayOut
<1>4. ASSUME UNCHANGED vars PROVE PoolInv'
    BY <1>0, <1>4, PoolNext
<1>5. CASE RegistryCall
    <2>1. UNCHANGED vars
        BY <1>5 DEF RegistryCall, poolOnly, vars, Registry!Initialize, Registry!Register,
           Registry!AssignInvoice, Registry!Approve, Registry!Assign, Registry!MarkRepaid,
           Registry!Becomes
    <2> QED
        BY <1>4, <2>1
<1>6. ASSUME NEW b \in Buyer, NEW s \in Sme, NEW i \in Id, NEW a \in Loans, NEW caller \in Party,
             FinanceAndAssign(b, s, i, a, caller)
      PROVE  PoolInv'
    BY <1>0, <1>6, FinanceInvoiceKeepsInv, LiftAssumption DEF FinanceAndAssign
<1>9. ASSUME NEW b \in Buyer, NEW s \in Sme, NEW a \in Loans, FinanceElsewhere(b, s, a) PROVE PoolInv'
    BY <1>0, <1>9, FinanceInvoiceKeepsInv, LiftAssumption DEF FinanceElsewhere
<1>7. CASE RepayPool
    <2>1. PICK d \in Int :
            /\ \/ MayApplyReserveDelta(pool, d) /\ pool' = AfterReserveDelta(pool, d)
               \/ pool' = pool /\ d = 0
            /\ now' = now
        BY <1>0, <1>7, RepayPoolMoves
    <2>2. UNCHANGED poolOnly
        BY <1>7 DEF RepayPool
    <2>3. CASE pool' = pool
        <3>1. UNCHANGED vars
            BY <2>1, <2>2, <2>3 DEF poolOnly, vars
        <3> QED
            BY <1>4, <3>1
    <2>4. CASE MayApplyReserveDelta(pool, d) /\ pool' = AfterReserveDelta(pool, d)
        <3>1. SoundLedger(pool') /\ Backed(pool') /\ pool'.total_shares = pool.total_shares
            BY <1>0, <2>4, DeltaSound
        <3>2. RestOK' /\ UNCHANGED <<lenderVars, exposureVars>>
            BY <1>0, <2>1, <2>2
               DEF RestOK, poolOnly, lenderVars, exposureVars, configVars, timelockVars
        <3> QED
            BY <1>0, <3>1, <3>2, LedgerStepKeepsInv
    <2> QED
        BY <2>1, <2>3, <2>4
<1>8. CASE UNCHANGED liftVars
    BY <1>4, <1>8 DEF liftVars
<1> QED
    BY <1>1, <1>2, <1>3, <1>5, <1>6, <1>7, <1>8, <1>9 DEF LiftNext

\* The book: only finance_invoice adds to it, and the registry's own calls are
\* the only others that touch an invoice.
LEMMA LiftBook == ASSUME LiftInv, [LiftNext]_liftVars PROVE InvoicesOK' /\ LoansOK' /\ LoanBook'
<1>0. InvoicesOK /\ LoansOK /\ LoanBook
    BY DEF LiftInv
<1>1. ASSUME UNCHANGED <<invoices, loans, elsewhere, exposureVars>> PROVE InvoicesOK' /\ LoansOK' /\ LoanBook'
    <2>1. InvoicesOK' /\ \A j \in Id : Standing(j) => Standing(j)'
        BY <1>0, <1>1 DEF InvoicesOK, Standing
    <2> QED
        BY <1>0, <1>1, <2>1, BookUndisturbed
<1>2. CASE PoolCall
    BY <1>1, <1>2 DEF PoolCall, registryVars, history, Initialize, SetConcentrationLimits, Finance
<1>3. ASSUME NEW l \in Lender, NEW a \in Amounts, PayIn(l, a)
      PROVE  InvoicesOK' /\ LoansOK' /\ LoanBook'
    BY <1>1, <1>3 DEF PayIn, registryVars, Deposit
<1>4. ASSUME NEW l \in Lender, NEW n \in ShareCounts, PayOut(l, n)
      PROVE  InvoicesOK' /\ LoansOK' /\ LoanBook'
    BY <1>1, <1>4 DEF PayOut, registryVars, Withdraw
<1>5. CASE RegistryCall
    <2>1. InvoicesOK' /\ \A j \in Id : Standing(j) => Standing(j)'
        BY <1>0, <1>5, RegistryCallKeepsStanding
    <2>2. UNCHANGED <<loans, elsewhere, exposureVars>>
        BY <1>5 DEF RegistryCall, poolOnly, history
    <2> QED
        BY <1>0, <2>1, <2>2, BookUndisturbed
<1>6. ASSUME NEW b \in Buyer, NEW s \in Sme, NEW i \in Id, NEW a \in Loans, NEW caller \in Party,
             FinanceAndAssign(b, s, i, a, caller)
      PROVE  InvoicesOK' /\ LoansOK' /\ LoanBook'
    BY <1>6, FinanceKeepsBook
<1>9. ASSUME NEW b \in Buyer, NEW s \in Sme, NEW a \in Loans, FinanceElsewhere(b, s, a)
      PROVE  InvoicesOK' /\ LoansOK' /\ LoanBook'
    BY <1>9, ElsewhereKeepsBook
<1>7. CASE RepayPool
    BY <1>1, <1>7 DEF RepayPool, poolOnly, registryVars, history
<1>8. CASE UNCHANGED liftVars
    BY <1>1, <1>8 DEF liftVars, vars, registryVars, history
<1> QED
    BY <1>2, <1>3, <1>4, <1>5, <1>6, <1>7, <1>8, <1>9 DEF LiftNext

\* The cash: a deposit books at most what is paid in, a withdrawal writes off at
\* least what is paid out, and every call of the waterfall moves both alike.
LEMMA LiftCash == ASSUME LiftInv, [LiftNext]_liftVars PROVE CashOK' /\ CapitalBackedByCash'
<1> DEFINE Kept == CashOK' /\ CapitalBackedByCash'
<1>0. /\ PoolInv /\ CashOK /\ CapitalBackedByCash /\ SoundLedger(pool)
      /\ SumOver(charged, Id) \in Int /\ pool.total_capital \in Nat
      /\ paid_in \in Int /\ received \in Int /\ fees \in Int /\ charged \in [Id -> Int]
    BY PoolInvParts, ChargedInt, SoundFields DEF LiftInv, CashOK
<1>1. SoundLedger(pool')
    BY LiftPool DEF PoolInv, TypeOK
<1>2. ASSUME UNCHANGED <<paid_in, received, fees, charged>>, pool'.total_capital <= pool.total_capital
      PROVE  Kept
    BY <1>1, <1>2, NoCashMoves
<1>3. ASSUME UNCHANGED <<paid_in, received, fees, charged>>, pool' = pool PROVE Kept
    <2>1. pool'.total_capital <= pool.total_capital
        BY <1>0, <1>3
    <2> QED
        BY <1>2, <1>3, <2>1
<1>4. CASE PoolCall
    <2>1. UNCHANGED <<paid_in, received, fees, charged>>
        BY <1>4 DEF PoolCall, waterfallVars, history
    <2>2. ASSUME NEW mu \in MaxUtils, Initialize(mu) PROVE pool'.total_capital <= pool.total_capital
        BY <1>0, <2>2 DEF Initialize, Initialized
    <2>3. ASSUME NEW bb \in ConcentrationLimits, NEW sb \in ConcentrationLimits,
                 SetConcentrationLimits(bb, sb)
          PROVE  pool'.total_capital <= pool.total_capital
        BY <1>0, <2>3 DEF SetConcentrationLimits
    <2>4. ASSUME NEW a \in Loans, Finance(a) PROVE pool'.total_capital <= pool.total_capital
        <3>1. pool'.total_capital = pool.total_capital
            BY <1>0, <2>4, FinanceKeepsInv, LiftAssumption
        <3> QED
            BY <1>0, <3>1
    <2> QED
        BY <1>2, <1>4, <2>1, <2>2, <2>3, <2>4 DEF PoolCall
<1>5. ASSUME NEW l \in Lender, NEW a \in Amounts, PayIn(l, a) PROVE Kept
    <2>1. /\ a \in Int /\ pool'.total_capital <= pool.total_capital + a
          /\ paid_in' = paid_in + a /\ UNCHANGED <<received, fees, charged>>
        BY <1>0, <1>5, DepositBooksAtMost, InputAssumption DEF PayIn, waterfallVars
    <2>2. CashOK'
        BY <1>0, <2>1 DEF CashOK
    <2>3. paid_in' + received' - fees' - SumOver(charged', Id)
            = paid_in + received - fees - SumOver(charged, Id) + a
        <3>1. SumOver(charged', Id) = SumOver(charged, Id)
            BY <2>1
        <3> QED
            BY <1>0, <2>1, <3>1
    <2> QED
        BY <1>0, <1>1, <2>1, <2>2, <2>3, CashKeepsUp
<1>6. ASSUME NEW l \in Lender, NEW n \in ShareCounts, PayOut(l, n) PROVE Kept
    <2>1. PICK c : c = CapitalAt(n, pool.nav)
        OBVIOUS
    <2>2. c \in Int
        <3>1. n \in Int /\ pool.nav \in Int
            BY <1>0, InputAssumption, SoundFields
        <3>2. n * pool.nav \in Int
            BY <3>1
        <3> QED
            BY <2>1, <3>2, FloorBounds, ScaleAssumption DEF CapitalAt
    <2>3. /\ pool'.total_capital + c <= pool.total_capital
          /\ paid_in' = paid_in - c /\ UNCHANGED <<received, fees, charged>>
        BY <1>0, <1>6, <2>1, WithdrawalWritesOff DEF PayOut, waterfallVars
    <2>4. pool'.total_capital \in Nat
        BY <1>1 DEF SoundLedger
    <2>5. pool'.total_capital <= pool.total_capital + (-c) /\ -c \in Int
        BY <1>0, <2>2, <2>3, <2>4
    <2>6. CashOK'
        BY <1>0, <2>2, <2>3 DEF CashOK
    <2>7. paid_in' + received' - fees' - SumOver(charged', Id)
            = paid_in + received - fees - SumOver(charged, Id) + (-c)
        <3>1. SumOver(charged', Id) = SumOver(charged, Id)
            BY <2>3
        <3> QED
            BY <1>0, <2>2, <2>3, <3>1
    <2> QED
        BY <1>0, <1>1, <2>5, <2>6, <2>7, CashKeepsUp
<1>7. CASE RegistryCall
    BY <1>3, <1>7 DEF RegistryCall, waterfallVars, history
<1>8. ASSUME NEW b \in Buyer, NEW s \in Sme, NEW a \in Loans,
             \/ \E i \in Id, caller \in Party : FinanceAndAssign(b, s, i, a, caller)
             \/ FinanceElsewhere(b, s, a)
      PROVE  Kept
    <2>1. UNCHANGED <<paid_in, received, fees, charged>>
        BY <1>8 DEF FinanceAndAssign, FinanceElsewhere, waterfallVars
    <2>2. MayFinance(pool, a) /\ pool' = AfterFinance(pool, a) /\ a \in Int
        BY <1>8, LiftAssumption DEF FinanceAndAssign, FinanceElsewhere, FinanceInvoice
    <2>3. pool'.total_capital = pool.total_capital
        BY <1>0, <2>2, FinanceSound, PoolInvParts
    <2>4. pool'.total_capital <= pool.total_capital
        BY <1>0, <2>3
    <2> QED
        BY <1>2, <2>1, <2>4
<1>9. CASE RepayPool
    <2>1. PICK d \in Int :
            /\ \/ MayApplyReserveDelta(pool, d) /\ pool' = AfterReserveDelta(pool, d)
               \/ pool' = pool /\ d = 0
            /\ received' \in Int /\ fees' \in Int /\ charged' \in [Id -> Int]
            /\ received' - fees' - SumOver(charged', Id) = received - fees - SumOver(charged, Id) + d
        BY <1>0, <1>9, RepayPoolMoves
    <2>2. paid_in' = paid_in
        BY <1>9 DEF RepayPool, history
    <2>3. pool'.total_capital <= pool.total_capital + d
        <3>1. CASE pool' = pool /\ d = 0
            BY <1>0, <3>1
        <3>2. CASE MayApplyReserveDelta(pool, d) /\ pool' = AfterReserveDelta(pool, d)
            <4>1. pool'.total_capital = pool.total_capital + d
                BY <1>0, <3>2, DeltaSound
            <4> QED
                BY <1>0, <4>1
        <3> QED
            BY <2>1, <3>1, <3>2
    <2>4. CashOK'
        BY <1>0, <2>1, <2>2 DEF CashOK
    <2>5. SumOver(charged', Id) \in Int
        BY <2>1, SumInt, LiftAssumption
    <2>6. paid_in' + received' - fees' - SumOver(charged', Id)
            = paid_in + received - fees - SumOver(charged, Id) + d
        BY <1>0, <2>1, <2>2, <2>5
    <2> QED
        BY <1>0, <1>1, <2>3, <2>4, <2>6, CashKeepsUp
<1>10. CASE UNCHANGED liftVars
    BY <1>3, <1>10 DEF liftVars, vars, waterfallVars, history
<1> QED
    BY <1>4, <1>5, <1>6, <1>7, <1>8, <1>9, <1>10 DEF LiftNext

\* The inductive invariant of the deployment.
THEOREM LiftInvariant == LiftSpec => []LiftInv
<1>1. LiftInit => LiftInv
    BY LiftInitInv
<1>2. LiftInv /\ [LiftNext]_liftVars => LiftInv'
    BY LiftPool, LiftBook, LiftCash DEF LiftInv
<1> QED
    BY <1>1, <1>2, PTL DEF LiftSpec

\* The books of the pool and of the registry agree on the loans made through the
\* registry, each of an invoice of its own that stays with the pool; the rest of
\* every exposure was lent on the word of other contracts.
THEOREM BooksAgree == LiftSpec => []LoanBook
<1>1. LiftInv => LoanBook
    BY DEF LiftInv
<1> QED
    BY <1>1, LiftInvariant, PTL

\* The capital that prices the shares never exceeds the cash behind it.
THEOREM CapitalIsPaidFor == LiftSpec => []CapitalBackedByCash
<1>1. LiftInv => CapitalBackedByCash
    BY DEF LiftInv
<1> QED
    BY <1>1, LiftInvariant, PTL

\* Under the calls of the waterfall and the registry too, the exposure tables of
\* buyers and SMEs account for one total.
THEOREM DeployedExposuresAgree == LiftSpec => []ExposureTablesAgree
<1>1. LiftInv => ExposureTablesAgree
    BY DEF LiftInv, PoolInv
<1> QED
    BY <1>1, LiftInvariant, PTL

\* Repayments and defaults that the waterfall reports leave what every lender
\* could withdraw covered by capital, and capital backed by shares at NAV.
THEOREM DeployedLendersAreCovered == LiftSpec => [](PositionsCovered /\ BackingWithinRounding)
<1>1. LiftInv => PositionsCovered /\ BackingWithinRounding
    BY InvCoversPositions DEF LiftInv, PoolInv
<1> QED
    BY <1>1, LiftInvariant, PTL

-----------------------------------------------------------------------------
(* Steps *)

\* No other contract's call, and none of the pool's but finance_invoice, touches
\* an exposure; there it rises by what is financed, within the limits, whatever
\* contract the call goes on to.
THEOREM DeployedExposureFollowsFinancing == LiftSpec => ExposureRisesWithFinancing
<1>1. LiftInv /\ [LiftNext]_liftVars => [RisesWithFinancing]_vars
    <2> SUFFICES ASSUME LiftInv, [LiftNext]_liftVars PROVE RisesWithFinancing
        OBVIOUS
    <2>1. ASSUME UNCHANGED exposureVars PROVE RisesWithFinancing
        BY <2>1 DEF exposureVars, RisesWithFinancing, RaisedWithin
    <2>2. PoolInv /\ \A a \in Loans : a \in Int
        BY LiftAssumption DEF LiftInv
    <2>3. CASE PoolCall \/ RegistryCall \/ RepayPool \/ UNCHANGED liftVars
        BY <2>1, <2>3 DEF PoolCall, RegistryCall, RepayPool, liftVars, vars, poolOnly,
           Initialize, SetConcentrationLimits, Finance
    <2>4. ASSUME NEW l \in Lender, NEW a \in Amounts, PayIn(l, a) PROVE RisesWithFinancing
        BY <2>1, <2>4 DEF PayIn, Deposit
    <2>5. ASSUME NEW l \in Lender, NEW n \in ShareCounts, PayOut(l, n) PROVE RisesWithFinancing
        BY <2>1, <2>5 DEF PayOut, Withdraw
    <2>6. ASSUME NEW b \in Buyer, NEW s \in Sme, NEW i \in Id, NEW a \in Loans, NEW caller \in Party,
                 FinanceAndAssign(b, s, i, a, caller)
          PROVE  RisesWithFinancing
        BY <2>2, <2>6, FinanceInvoiceRaises DEF FinanceAndAssign
    <2>7. ASSUME NEW b \in Buyer, NEW s \in Sme, NEW a \in Loans, FinanceElsewhere(b, s, a)
          PROVE  RisesWithFinancing
        BY <2>2, <2>7, FinanceInvoiceRaises DEF FinanceElsewhere
    <2> QED
        BY <2>3, <2>4, <2>5, <2>6, <2>7 DEF LiftNext
<1>2. LiftSpec => [][RisesWithFinancing]_vars
    BY <1>1, LiftInvariant, PTL DEF LiftSpec
<1> QED
    BY <1>2 DEF ExposureRisesWithFinancing, RisesWithFinancing

\* Repayments and defaults end within the ceiling like the pool's own calls:
\* only a deposit, which rounds the capital anew, is let off the check.
THEOREM DeployedUtilisationIsSettled == LiftSpec => UtilisationSettled
<1> DEFINE P == pool' # pool /\ ~(\E l \in Lender, a \in Amounts : Deposit(l, a))
                    => WithinUtilisation(pool')
<1>1. LiftInv /\ [LiftNext]_liftVars => [P]_vars
    <2> SUFFICES ASSUME LiftInv, [LiftNext]_liftVars, pool' # pool,
                        ~(\E l \in Lender, a \in Amounts : Deposit(l, a))
                 PROVE  WithinUtilisation(pool')
        OBVIOUS
    <2>0. PoolInv /\ CashOK /\ SoundLedger(pool) /\ Backed(pool) /\ \A a \in Loans : a \in Int
        BY PoolInvParts, LiftAssumption DEF LiftInv
    <2>1. CASE PoolCall
        <3>1. ASSUME NEW mu \in MaxUtils, Initialize(mu) PROVE WithinUtilisation(pool')
            BY <3>1, InitializedSound, InputAssumption DEF Initialize
        <3>2. ASSUME NEW a \in Loans, Finance(a) PROVE WithinUtilisation(pool')
            BY <2>0, <3>2, FinanceSound DEF Finance
        <3> QED
            BY <2>1, <3>1, <3>2 DEF PoolCall, SetConcentrationLimits
    <2>2. ASSUME NEW l \in Lender, NEW n \in ShareCounts, PayOut(l, n) PROVE WithinUtilisation(pool')
        <3>1. n \in Int /\ n <= pool.total_shares /\ config.withdraw_util_bps \in Int
            BY <2>0, <2>2, WithdrawnIsSupplied, PoolInvParts DEF PayOut, RestOK
        <3> QED
            BY <2>0, <2>2, <3>1, WithdrawSound DEF PayOut, Withdraw
    <2>3. ASSUME NEW b \in Buyer, NEW s \in Sme, NEW a \in Loans, FinanceInvoice(b, s, a)
          PROVE  WithinUtilisation(pool')
        BY <2>0, <2>3, FinanceSound DEF FinanceInvoice
    <2>4. CASE RepayPool
        <3>1. PICK d \in Int : MayApplyReserveDelta(pool, d) /\ pool' = AfterReserveDelta(pool, d)
            BY <2>0, <2>4, RepayPoolMoves
        <3> QED
            BY <2>0, <3>1, DeltaSound
    <2>5. ~RegistryCall /\ ~(\E l \in Lender, a \in Amounts : PayIn(l, a)) /\ ~UNCHANGED liftVars
        BY DEF RegistryCall, PayIn, liftVars, vars
    <2> QED
        BY <2>1, <2>2, <2>3, <2>4, <2>5 DEF LiftNext, FinanceAndAssign, FinanceElsewhere
<1>2. LiftSpec => [][P]_vars
    BY <1>1, LiftInvariant, PTL DEF LiftSpec
<1> QED
    BY <1>2 DEF UtilisationSettled

-----------------------------------------------------------------------------
(* Each contract keeps its own specification *)

\* A pool that may be asked to finance, or to move its reserve by, any integer.
AnyPool == INSTANCE PoolManager WITH Amounts <- Int, Deltas <- Int

LEMMA StartsAsDeclared == LiftInit => Registry!Init /\ AnyPool!Init
BY DEF LiftInit, Init, Undeployed, Registry!Init, AnyPool!Init, AnyPool!Undeployed

LEMMA RegistryStep == [LiftNext]_liftVars => [Registry!Next]_(Registry!vars)
<1> SUFFICES ASSUME [LiftNext]_liftVars, ~UNCHANGED Registry!vars PROVE Registry!Next
    OBVIOUS
<1>1. ~PoolCall
    BY DEF PoolCall, registryVars, Registry!vars, Initialize, SetConcentrationLimits, Finance
<1>2. ~\E l \in Lender, a \in Amounts : PayIn(l, a)
    BY DEF PayIn, Deposit, registryVars, Registry!vars
<1>3. ~\E l \in Lender, n \in ShareCounts : PayOut(l, n)
    BY DEF PayOut, Withdraw, registryVars, Registry!vars
<1>4. ~RepayPool
    BY DEF RepayPool, registryVars, Registry!vars, Waterfall!Initialize, Waterfall!ProcessRepayment,
       Waterfall!ProcessRepaymentWaterfall, Waterfall!MarkInvoiceDue, Waterfall!DeclareDefault
<1>5. /\ ~UNCHANGED liftVars
      /\ ~\E b \in Buyer, s \in Sme, a \in Loans : FinanceElsewhere(b, s, a)
    BY DEF liftVars, vars, registryVars, Registry!vars, FinanceElsewhere, FinanceInvoice
<1>6. CASE RegistryCall
    BY <1>6 DEF RegistryCall, Registry!Next
<1>7. ASSUME NEW b \in Buyer, NEW s \in Sme, NEW i \in Id, NEW a \in Loans, NEW caller \in Party,
             FinanceAndAssign(b, s, i, a, caller)
      PROVE  Registry!Next
    BY <1>7, LiftAssumption DEF FinanceAndAssign, Registry!Next
<1> QED
    BY <1>1, <1>2, <1>3, <1>4, <1>5, <1>6, <1>7 DEF LiftNext

\* In the deployment the registry does only what it specifies: finance_invoice
\* reaches it as an assign that its admin could have called.  So what is proved
\* of InvoiceRegistry (RegistryProofs) holds of it here.
THEOREM RegistryKeepsItsSpec == LiftSpec => Registry!Spec
<1>1. LiftInit => Registry!Init
    BY StartsAsDeclared
<1>2. [LiftNext]_liftVars => [Registry!Next]_(Registry!vars)
    BY RegistryStep
<1> QED
    BY <1>1, <1>2, PTL DEF LiftSpec, Registry!Spec

\* The pool's operations, asked for any amount.
LEMMA SameLedgerOperations ==
    ASSUME NEW p, NEW x, NEW y
    PROVE  /\ AnyPool!MayDeposit(p, x) <=> MayDeposit(p, x)
           /\ AnyPool!AfterDeposit(p, x) = AfterDeposit(p, x)
           /\ AnyPool!SharesFor(x, y) = SharesFor(x, y)
           /\ AnyPool!MayWithdraw(p, x, y) <=> MayWithdraw(p, x, y)
           /\ AnyPool!AfterWithdraw(p, x) = AfterWithdraw(p, x)
           /\ AnyPool!MayFinance(p, x) <=> MayFinance(p, x)
           /\ AnyPool!AfterFinance(p, x) = AfterFinance(p, x)
           /\ AnyPool!MayApplyReserveDelta(p, x) <=> MayApplyReserveDelta(p, x)
           /\ AnyPool!AfterReserveDelta(p, x) = AfterReserveDelta(p, x)
           /\ AnyPool!Initialized(x) = Initialized(x)
           /\ AnyPool!Fits(x) <=> Fits(x)
<1> USE DEF Fits, SharesFor, CapitalAt, UtilLimit, TruncDiv, ClampedTo, AnyPool!Fits,
        AnyPool!SharesFor, AnyPool!CapitalAt, AnyPool!UtilLimit, AnyPool!TruncDiv, AnyPool!ClampedTo
<1>1. /\ AnyPool!MayDeposit(p, x) <=> MayDeposit(p, x)
      /\ AnyPool!AfterDeposit(p, x) = AfterDeposit(p, x)
      /\ AnyPool!SharesFor(x, y) = SharesFor(x, y)
    BY DEF MayDeposit, AnyPool!MayDeposit, AfterDeposit, AnyPool!AfterDeposit
<1>2. /\ AnyPool!MayWithdraw(p, x, y) <=> MayWithdraw(p, x, y)
      /\ AnyPool!AfterWithdraw(p, x) = AfterWithdraw(p, x)
    BY DEF MayWithdraw, AnyPool!MayWithdraw, AfterWithdraw, AnyPool!AfterWithdraw
<1>3. /\ AnyPool!MayFinance(p, x) <=> MayFinance(p, x)
      /\ AnyPool!AfterFinance(p, x) = AfterFinance(p, x)
    BY DEF MayFinance, AnyPool!MayFinance, AfterFinance, AnyPool!AfterFinance
<1>4. /\ AnyPool!MayApplyReserveDelta(p, x) <=> MayApplyReserveDelta(p, x)
      /\ AnyPool!AfterReserveDelta(p, x) = AfterReserveDelta(p, x)
    BY DEF MayApplyReserveDelta, AnyPool!MayApplyReserveDelta, AfterReserveDelta,
       AnyPool!AfterReserveDelta, NavAfterDelta, AnyPool!NavAfterDelta
<1>5. /\ AnyPool!Initialized(x) = Initialized(x)
      /\ AnyPool!Fits(x) <=> Fits(x)
    BY DEF Initialized, AnyPool!Initialized, LedgerKey, AnyPool!LedgerKey
<1> QED
    BY <1>1, <1>2, <1>3, <1>4, <1>5

LEMMA PoolStep == LiftInv /\ [LiftNext]_liftVars => [AnyPool!Next]_(AnyPool!vars)
<1> SUFFICES ASSUME LiftInv, [LiftNext]_liftVars, ~UNCHANGED vars PROVE AnyPool!Next
    BY DEF vars, AnyPool!vars, lenderVars, exposureVars, configVars, timelockVars,
       AnyPool!lenderVars, AnyPool!exposureVars, AnyPool!configVars, AnyPool!timelockVars
<1> USE DEF lenderVars, exposureVars, configVars, timelockVars,
       AnyPool!lenderVars, AnyPool!exposureVars, AnyPool!configVars, AnyPool!timelockVars
<1>0. PoolInv /\ CashOK /\ Loans \subseteq Int /\ Amounts \subseteq Int
    BY LiftAssumption, InputAssumption DEF LiftInv
<1>1. CASE PoolCall
    <2>1. ASSUME NEW mu \in MaxUtils, Initialize(mu) PROVE AnyPool!Next
        <3>1. AnyPool!Initialize(mu)
            BY <2>1, SameLedgerOperations DEF Initialize, AnyPool!Initialize
        <3> QED
            BY <3>1 DEF AnyPool!Next
    <2>2. ASSUME NEW bb \in ConcentrationLimits, NEW sb \in ConcentrationLimits,
                 SetConcentrationLimits(bb, sb)
          PROVE  AnyPool!Next
        <3>1. AnyPool!SetConcentrationLimits(bb, sb)
            BY <2>2 DEF SetConcentrationLimits, AnyPool!SetConcentrationLimits, ValidBps, AnyPool!ValidBps
        <3> QED
            BY <3>1 DEF AnyPool!Next
    <2>3. ASSUME NEW a \in Loans, Finance(a) PROVE AnyPool!Next
        <3>1. AnyPool!Finance(a) /\ a \in Int
            BY <1>0, <2>3, SameLedgerOperations DEF Finance, AnyPool!Finance
        <3> QED
            BY <3>1 DEF AnyPool!Next
    <2> QED
        BY <1>1, <2>1, <2>2, <2>3 DEF PoolCall
<1>2. ASSUME NEW l \in Lender, NEW a \in Amounts, PayIn(l, a) PROVE AnyPool!Next
    <2>1. AnyPool!Deposit(l, a) /\ a \in Int
        BY <1>0, <1>2, SameLedgerOperations DEF PayIn, Deposit, AnyPool!Deposit
    <2> QED
        BY <2>1 DEF AnyPool!Next
<1>3. ASSUME NEW l \in Lender, NEW n \in ShareCounts, PayOut(l, n) PROVE AnyPool!Next
    <2>1. AnyPool!Withdraw(l, n)
        BY <1>3, SameLedgerOperations DEF PayOut, Withdraw, AnyPool!Withdraw, Unlocked, AnyPool!Unlocked
    <2> QED
        BY <2>1 DEF AnyPool!Next
<1>4. ASSUME NEW b \in Buyer, NEW s \in Sme, NEW a \in Loans, FinanceInvoice(b, s, a)
      PROVE  AnyPool!Next
    <2>1. AnyPool!FinanceInvoice(b, s, a) /\ a \in Int
        BY <1>0, <1>4, SameLedgerOperations
           DEF FinanceInvoice, AnyPool!FinanceInvoice, Concentrated,
               AnyPool!Concentrated, Raised, AnyPool!Raised
    <2> QED
        BY <2>1 DEF AnyPool!Next
<1>5. CASE RepayPool
    <2>1. PICK d \in Int :
            /\ \/ MayApplyReserveDelta(pool, d) /\ pool' = AfterReserveDelta(pool, d)
               \/ pool' = pool
            /\ now' = now
        BY <1>0, <1>5, RepayPoolMoves
    <2>2. UNCHANGED <<lenderVars, exposureVars, configVars, timelockVars>>
        BY <1>5 DEF RepayPool, poolOnly
    <2>3. pool' # pool
        BY <2>1, <2>2 DEF vars
    <2>4. AnyPool!ApplyReserveDelta(d)
        BY <2>1, <2>2, <2>3, SameLedgerOperations DEF AnyPool!ApplyReserveDelta
    <2> QED
        BY <2>4 DEF AnyPool!Next
<1>6. ~RegistryCall /\ ~UNCHANGED liftVars
    BY DEF RegistryCall, poolOnly, vars, liftVars, Registry!Initialize, Registry!Register,
       Registry!AssignInvoice, Registry!Approve, Registry!Assign, Registry!MarkRepaid,
       Registry!Becomes
<1> QED
    BY <1>1, <1>2, <1>3, <1>4, <1>5, <1>6 DEF LiftNext, FinanceAndAssign, FinanceElsewhere

\* The pool of the deployment is a PoolManager: whatever the registry and the
\* waterfall do to it, together with its own calls, is a sequence of its
\* entrypoints, each repayment and each default one apply_reserve_delta.
THEOREM PoolKeepsItsSpec == LiftSpec => AnyPool!Spec
<1>1. LiftInit => AnyPool!Init
    BY StartsAsDeclared
<1>2. LiftInv /\ [LiftNext]_liftVars => [AnyPool!Next]_(AnyPool!vars)
    BY PoolStep
<1> QED
    BY <1>1, <1>2, LiftInvariant, PTL DEF LiftSpec, AnyPool!Spec
==============================================================================
