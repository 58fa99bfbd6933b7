----------------------- MODULE RepaymentWaterfallProofs -----------------------
(***************************************************************************)
(* What the pool receives from the waterfall and what it loses to it, for  *)
(* any invoices, dues and amounts: its capital is accounted for to the     *)
(* unit, and an invoice is charged once, when it is marked.  A charge is   *)
(* positive and marks in the same step, so marks and charges agree; that   *)
(* agreement is what makes the second charge impossible.  Last, what an    *)
(* untripped breaker says of the defaults of the last 24 hours.            *)
(***************************************************************************)
EXTENDS RepaymentWaterfall, Commitments, PoolLedgerProofs, SumTheorems

WaterfallInv == TypeOK /\ PoolGetsWhatIsPaid /\ DefaultedIffCharged

\* TypeOK by the group of variables an action may leave alone as a whole.
MoneyOK == SoundLedger(pool) /\ received \in Nat /\ fees \in Nat
DelinquencyOK ==
    /\ grace_secs \in Nat /\ due \in [Invoice -> Nat \cup {NotMarked}]
    /\ defaulted \subseteq Invoice /\ charged \in [Invoice -> Nat]
BreakerOK ==
    /\ record \in DefaultRecord \cup {NoRecord}
    /\ record # NoRecord => record.window_start <= now
    /\ cb_threshold \in Nat /\ cb_active \in BOOLEAN
    /\ watched \in [Window -> Nat] /\ in_force \in [Window -> Nat]
    /\ now \in Nat

LEMMA TypeOKParts == TypeOK <=> MoneyOK /\ DelinquencyOK /\ BreakerOK /\ initialized \in BOOLEAN
BY DEF TypeOK, MoneyOK, DelinquencyOK, BreakerOK

LEMMA ZeroInWindow == 0 \in Window
BY WaterfallAssumption DEF Window

\* A multiple and the next enclose only one whole number of units.
LEMMA WholeUnits ==
    ASSUME NEW u \in Nat \ {0}, NEW n \in Nat, NEW k \in Int,
           u * k <= n * u, n * u < u * k + u
    PROVE  k = n
<1>1. n * u = u * n /\ u * k \in Int /\ u * n \in Int
    OBVIOUS
<1>2. ASSUME k > n PROVE FALSE
    <2>1. u * (n + 1) <= u * k /\ u * (n + 1) = u * n + u
        BY <1>2, MulMono
    <2> QED
        BY <1>1, <2>1
<1>3. ASSUME k < n PROVE FALSE
    <2>1. u * (k + 1) <= u * n /\ u * (k + 1) = u * k + u
        BY <1>3, MulMono
    <2> QED
        BY <1>1, <2>1
<1> QED
    BY <1>2, <1>3

\* The pool's one deposit is booked in full at the NAV of a new pool.
LEMMA SeedIsBooked ==
    /\ SoundLedger(AfterDeposit(Initialized(MaxUtil), Seed))
    /\ AfterDeposit(Initialized(MaxUtil), Seed).total_capital = Seed
<1> DEFINE p == Initialized(MaxUtil)
           q == AfterDeposit(p, Seed)
           m == SharesFor(Seed, NAV_SCALE)
           c == CapitalAt(m, NAV_SCALE)
<1>1. Seed \in Nat \ {0} /\ NAV_SCALE \in Nat \ {0} /\ MaxUtil \in Int
    BY WaterfallAssumption, ScaleAssumption
<1>2. SoundLedger(q)
    <2>1. SoundLedger(p) /\ Backed(p) /\ MayDeposit(p, Seed)
        BY <1>1, InitializedSound, WaterfallAssumption
    <2> HIDE DEF p
    <2> QED
        BY <1>1, <2>1, DepositSound
<1>3. m = Seed
    <2>1. m \in Int /\ NAV_SCALE * m <= Seed * NAV_SCALE /\ Seed * NAV_SCALE < NAV_SCALE * m + NAV_SCALE
        <3>1. Seed * NAV_SCALE \in Int
            BY <1>1
        <3> QED
            BY <1>1, <3>1, FloorBounds DEF SharesFor
    <2> QED
        BY <1>1, <2>1, WholeUnits
<1>4. c = Seed
    <2>1. c \in Int /\ NAV_SCALE * c <= Seed * NAV_SCALE /\ Seed * NAV_SCALE < NAV_SCALE * c + NAV_SCALE
        <3>1. Seed * NAV_SCALE \in Int
            BY <1>1
        <3> QED
            BY <1>1, <1>3, <3>1, FloorBounds DEF CapitalAt
    <2> QED
        BY <1>1, <2>1, WholeUnits
<1>5. p.nav = NAV_SCALE /\ p.total_shares = 0
    BY DEF Initialized
<1>6. q.total_capital = CapitalAt(0 + m, NAV_SCALE)
    BY <1>5 DEF AfterDeposit, Initialized
<1>7. 0 + m = m
    BY <1>1, <1>3
<1> QED
    BY <1>2, <1>4, <1>6, <1>7

LEMMA WaterfallInit == Init => WaterfallInv
<1> SUFFICES ASSUME Init PROVE WaterfallInv
    OBVIOUS
<1>1. MoneyOK /\ pool.total_capital = Seed
    BY SeedIsBooked DEF Init, InitWaterfall, MoneyOK
<1>2. DelinquencyOK /\ BreakerOK /\ initialized \in BOOLEAN
    BY DEF Init, InitWaterfall, DelinquencyOK, BreakerOK, Quiet
<1>3. PoolGetsWhatIsPaid
    <2>1. SumOver(charged, Invoice) = 0
        BY SumZero, WaterfallAssumption DEF Init, InitWaterfall
    <2>2. Seed \in Int /\ received = 0 /\ fees = 0
        BY WaterfallAssumption DEF Init, InitWaterfall
    <2> QED
        BY <1>1, <2>1, <2>2 DEF PoolGetsWhatIsPaid
<1>4. DefaultedIffCharged
    BY DEF Init, InitWaterfall, DefaultedIffCharged
<1> QED
    BY <1>1, <1>2, <1>3, <1>4, TypeOKParts DEF WaterfallInv

LEMMA ChargedTotal == WaterfallInv => SumOver(charged, Invoice) \in Int
<1> SUFFICES ASSUME WaterfallInv PROVE SumOver(charged, Invoice) \in Int
    OBVIOUS
<1>1. charged \in [Invoice -> Int]
    BY DEF WaterfallInv, TypeOK
<1> QED
    BY <1>1, SumInt, WaterfallAssumption

-----------------------------------------------------------------------------
(* Repayments *)

\* A repayment that reaches the pool and leaves fees aside.
LEMMA PaidInKeepsInv ==
    ASSUME WaterfallInv, NEW paid \in Int, NEW fee \in Nat,
           paid >= 0, paid + fee > 0,
           paid > 0 => MayApplyReserveDelta(pool, paid),
           pool' = IF paid > 0 THEN AfterReserveDelta(pool, paid) ELSE pool,
           received' = received + (paid + fee), fees' = fees + fee,
           UNCHANGED <<initialized, delinquency, breaker, now>>
    PROVE  WaterfallInv'
<1>1. MoneyOK /\ DelinquencyOK /\ BreakerOK /\ initialized \in BOOLEAN
    BY TypeOKParts DEF WaterfallInv
<1>2. SoundLedger(pool') /\ pool'.total_capital = pool.total_capital + paid
    <2>1. CASE paid > 0
        BY <1>1, <2>1, DeltaSound DEF MoneyOK
    <2>2. CASE paid = 0
        <3>1. pool' = pool
            BY <2>2
        <3>2. pool.total_capital \in Int
            BY <1>1, SoundFields DEF MoneyOK
        <3> QED
            BY <1>1, <2>2, <3>1, <3>2 DEF MoneyOK
    <2> QED
        BY <2>1, <2>2
<1>3. MoneyOK'
    BY <1>1, <1>2 DEF MoneyOK
<1>4. DelinquencyOK' /\ BreakerOK' /\ (initialized \in BOOLEAN)'
    BY <1>1 DEF DelinquencyOK, BreakerOK, delinquency, breaker
<1>5. PoolGetsWhatIsPaid'
    <2>1. charged' = charged
        BY DEF delinquency
    <2>2. pool.total_capital = Seed + received - fees - SumOver(charged, Invoice)
        BY DEF WaterfallInv, PoolGetsWhatIsPaid
    <2>3. SumOver(charged, Invoice) \in Int /\ Seed \in Int /\ received \in Int /\ fees \in Int
        BY <1>1, ChargedTotal, WaterfallAssumption DEF MoneyOK
    <2>4. pool'.total_capital = Seed + received' - fees' - SumOver(charged, Invoice)
        BY <1>2, <2>2, <2>3
    <2> QED
        BY <2>1, <2>4 DEF PoolGetsWhatIsPaid
<1>6. DefaultedIffCharged'
    BY DEF WaterfallInv, DefaultedIffCharged, delinquency
<1>7. TypeOK'
    BY <1>3, <1>4, TypeOKParts DEF TypeOK, MoneyOK, DelinquencyOK, BreakerOK
<1> QED
    BY <1>5, <1>6, <1>7 DEF WaterfallInv

\* The four buckets add up to what was paid, none of them negative.
LEMMA BucketsAddUp ==
    ASSUME NEW a \in Nat, NEW p \in Nat, NEW f \in Nat, NEW r \in Nat,
           NEW b, b = Breakdown(a, p, f, r)
    PROVE  b.fee_paid \in Nat /\ ToPool(b) \in Nat /\ ToPool(b) + b.fee_paid = a
<1> DEFINE principal == Smaller(a, p)
           fee       == Smaller(a - principal, f)
           reserve   == Smaller(a - principal - fee, r)
<1>1. principal \in Nat /\ principal <= a
    BY DEF Smaller
<1> HIDE DEF principal
<1>2. fee \in Nat /\ fee <= a - principal
    BY <1>1 DEF Smaller
<1> HIDE DEF fee
<1>3. reserve \in Nat /\ reserve <= a - principal - fee
    BY <1>1, <1>2 DEF Smaller
<1> HIDE DEF reserve
<1>4. /\ b.principal_paid = principal /\ b.fee_paid = fee /\ b.reserve_paid = reserve
      /\ b.lender_yield_paid = a - principal - fee - reserve
    BY DEF Breakdown, principal, fee, reserve
<1> QED
    BY <1>1, <1>2, <1>3, <1>4 DEF ToPool

LEMMA RepaymentKeepsInv ==
    ASSUME WaterfallInv, NEW a \in Amounts, ProcessRepayment(a)
    PROVE  WaterfallInv'
<1>1. a \in Int /\ a > 0 /\ received \in Nat /\ fees \in Nat
    BY WaterfallAssumption DEF ProcessRepayment, WaterfallInv, TypeOK
<1>2. received' = received + (a + 0) /\ fees' = fees + 0 /\ 0 \in Nat /\ a + 0 > 0
    BY <1>1 DEF ProcessRepayment
<1>3. /\ MayApplyReserveDelta(pool, a) /\ pool' = AfterReserveDelta(pool, a)
      /\ UNCHANGED <<initialized, delinquency, breaker, now>>
    BY DEF ProcessRepayment
<1> QED
    BY <1>1, <1>2, <1>3, PaidInKeepsInv

LEMMA WaterfallRepaymentKeepsInv ==
    ASSUME WaterfallInv, NEW a \in Amounts, NEW p \in Dues, NEW f \in Dues, NEW r \in Dues,
           ProcessRepaymentWaterfall(a, p, f, r)
    PROVE  WaterfallInv'
<1> DEFINE b == Breakdown(a, p, f, r)
<1>1. a \in Nat \ {0} /\ p \in Nat /\ f \in Nat /\ r \in Nat
    BY WaterfallAssumption DEF ProcessRepaymentWaterfall
<1>2. b.fee_paid \in Nat /\ ToPool(b) \in Nat /\ ToPool(b) + b.fee_paid = a
    BY <1>1, BucketsAddUp
<1>3. /\ ToPool(b) > 0 => MayApplyReserveDelta(pool, ToPool(b))
      /\ pool' = IF ToPool(b) > 0 THEN AfterReserveDelta(pool, ToPool(b)) ELSE pool
      /\ fees' = fees + b.fee_paid
      /\ received' = received + a
      /\ UNCHANGED <<initialized, delinquency, breaker, now>>
    BY DEF ProcessRepaymentWaterfall
<1>4. received' = received + (ToPool(b) + b.fee_paid)
    BY <1>2, <1>3
<1> HIDE DEF b
<1> QED
    BY <1>1, <1>2, <1>3, <1>4, PaidInKeepsInv

-----------------------------------------------------------------------------
(* Delinquency *)

\* The loss is taken from the pool and booked against the invoice it marks.
LEMMA DefaultKeepsInv ==
    ASSUME WaterfallInv, NEW i \in Invoice, NEW loss \in Losses, DeclareDefault(i, loss)
    PROVE  WaterfallInv'
<1>1. MoneyOK /\ DelinquencyOK /\ BreakerOK /\ initialized \in BOOLEAN
    BY TypeOKParts DEF WaterfallInv
<1>2. loss \in Int /\ loss > 0 /\ -loss \in Int
    BY WaterfallAssumption DEF DeclareDefault
<1>3. SoundLedger(pool') /\ pool'.total_capital = pool.total_capital - loss
    <2>1. MayApplyReserveDelta(pool, -loss) /\ pool' = AfterReserveDelta(pool, -loss)
        BY DEF DeclareDefault
    <2>2. SoundLedger(pool') /\ pool'.total_capital = pool.total_capital + (-loss)
        BY <1>1, <1>2, <2>1, DeltaSound DEF MoneyOK
    <2>3. pool.total_capital \in Int
        BY <1>1, SoundFields DEF MoneyOK
    <2> QED
        BY <1>2, <2>2, <2>3
<1>4. /\ charged' = [charged EXCEPT ![i] = charged[i] + loss]
      /\ defaulted' = defaulted \cup {i}
      /\ charged \in [Invoice -> Nat] /\ charged[i] \in Nat
    BY <1>1 DEF DeclareDefault, WithMark, DelinquencyOK
<1>5. /\ charged' \in [Invoice -> Nat] /\ charged'[i] = charged[i] + loss
      /\ \A j \in Invoice : j # i => charged'[j] = charged[j]
    BY <1>2, <1>4
<1>6. MoneyOK' /\ DelinquencyOK' /\ BreakerOK' /\ (initialized \in BOOLEAN)'
    BY <1>1, <1>3, <1>4, <1>5
       DEF MoneyOK, DelinquencyOK, BreakerOK, DeclareDefault, breaker
<1>7. PoolGetsWhatIsPaid'
    <2>1. charged \in [Invoice -> Int] /\ charged' \in [Invoice -> Int] /\ IsFiniteSet(Invoice)
        BY <1>4, <1>5, WaterfallAssumption
    <2>2. SumOver(charged', Invoice) = SumOver(charged, Invoice) - charged[i] + charged'[i]
        BY <1>5, <2>1, SumUpdate
    <2>3. SumOver(charged, Invoice) \in Int
        BY ChargedTotal
    <2>4. SumOver(charged', Invoice) = SumOver(charged, Invoice) + loss
        BY <1>2, <1>4, <1>5, <2>2, <2>3
    <2>5. pool.total_capital = Seed + received - fees - SumOver(charged, Invoice)
        BY DEF WaterfallInv, PoolGetsWhatIsPaid
    <2>6. received' = received /\ fees' = fees /\ received \in Int /\ fees \in Int /\ Seed \in Int
        BY <1>1, WaterfallAssumption DEF DeclareDefault, MoneyOK
    <2>7. pool'.total_capital = Seed + received' - fees' - SumOver(charged', Invoice)
        BY <1>2, <1>3, <2>3, <2>4, <2>5, <2>6
    <2> QED
        BY <2>7 DEF PoolGetsWhatIsPaid
<1>8. DefaultedIffCharged'
    <2>1. \A j \in Invoice : j \in defaulted <=> charged[j] > 0
        BY DEF WaterfallInv, DefaultedIffCharged
    <2>2. \A j \in Invoice : j \in defaulted' <=> charged'[j] > 0
        BY <1>2, <1>4, <1>5, <2>1
    <2> QED
        BY <2>2 DEF DefaultedIffCharged
<1>9. TypeOK'
    BY <1>6 DEF TypeOK, MoneyOK, DelinquencyOK, BreakerOK
<1> QED
    BY <1>7, <1>8, <1>9 DEF WaterfallInv

\* Everything else leaves the money and the charges alone.
LEMMA OtherKeepsInv ==
    ASSUME WaterfallInv, UNCHANGED <<money, defaulted, charged>>,
           (grace_secs \in Nat /\ due \in [Invoice -> Nat \cup {NotMarked}])',
           BreakerOK', (initialized \in BOOLEAN)'
    PROVE  WaterfallInv'
BY DEF WaterfallInv, TypeOK, MoneyOK, BreakerOK, PoolGetsWhatIsPaid, DefaultedIffCharged, money

LEMMA BreakerStep ==
    ASSUME WaterfallInv,
           \/ \E a \in Volumes : RecordDefault(a)
           \/ \E t \in Thresholds : SetCircuitBreakerThreshold(t)
           \/ ResumeProcessing
           \/ Tick
    PROVE  BreakerOK'
<1>1. BreakerOK
    BY TypeOKParts DEF WaterfallInv
<1>2. CASE \E a \in Volumes : RecordDefault(a)
    <2>1. PICK a \in Volumes : RecordDefault(a)
        BY <1>2
    <2>2. a \in Int /\ a > 0
        BY <2>1, WaterfallAssumption DEF RecordDefault
    <2>3. Recorded(a) \in DefaultRecord /\ Recorded(a).window_start <= now
        BY <1>1, <2>2 DEF Recorded, BreakerOK, DefaultRecord
    <2>4. watched' \in [Window -> Nat] /\ in_force' \in [Window -> Nat]
        BY <1>1, <2>1, <2>2, ZeroInWindow DEF RecordDefault, BreakerOK
    <2>5. cb_active' \in BOOLEAN
        BY <2>1 DEF RecordDefault
    <2> QED
        BY <1>1, <2>1, <2>3, <2>4, <2>5 DEF RecordDefault, BreakerOK
<1>3. CASE \E t \in Thresholds : SetCircuitBreakerThreshold(t)
    BY <1>1, <1>3, ZeroInWindow, WaterfallAssumption DEF SetCircuitBreakerThreshold, BreakerOK
<1>4. CASE ResumeProcessing
    <2>1. record' \in DefaultRecord /\ record'.window_start = now
        BY <1>1, <1>4 DEF ResumeProcessing, BreakerOK, DefaultRecord
    <2>2. now' = now /\ now \in Nat /\ cb_active' = FALSE /\ cb_threshold' \in Nat
        BY <1>1, <1>4 DEF ResumeProcessing, BreakerOK
    <2>3. watched' \in [Window -> Nat] /\ in_force' \in [Window -> Nat]
        BY <1>1, <1>4 DEF ResumeProcessing, BreakerOK, Quiet
    <2>4. record'.window_start <= now' /\ now' \in Nat
        BY <2>1, <2>2
    <2>5. cb_active' \in BOOLEAN
        BY <2>2
    <2> QED
        BY <2>1, <2>2, <2>3, <2>4, <2>5 DEF BreakerOK
<1>5. CASE Tick
    <2>1. watched' \in [Window -> Nat] /\ in_force' \in [Window -> Nat]
        <3>1. \A n \in Window : n # 0 => n - 1 \in Window
            BY WaterfallAssumption DEF Window
        <3> QED
            BY <1>1, <1>5, <3>1 DEF Tick, BreakerOK, SecondLater
    <2>2. record' # NoRecord => record'.window_start <= now'
        <3>1. record # NoRecord => record.window_start \in Nat
            BY <1>1 DEF BreakerOK, DefaultRecord
        <3> QED
            BY <1>1, <1>5, <3>1 DEF Tick, BreakerOK
    <2> QED
        BY <1>1, <1>5, <2>1, <2>2 DEF Tick, BreakerOK
<1> QED
    BY <1>2, <1>3, <1>4, <1>5

LEMMA WaterfallStep == WaterfallInv /\ [Next]_vars => WaterfallInv'
<1> SUFFICES ASSUME WaterfallInv, [Next]_vars PROVE WaterfallInv'
    OBVIOUS
<1>1. MoneyOK /\ DelinquencyOK /\ BreakerOK /\ initialized \in BOOLEAN
    BY TypeOKParts DEF WaterfallInv
<1>2. CASE Initialize
    BY <1>1, <1>2, OtherKeepsInv DEF Initialize, delinquency, breaker, DelinquencyOK, BreakerOK
<1>3. CASE \E a \in Amounts : ProcessRepayment(a)
    BY <1>3, RepaymentKeepsInv
<1>4. CASE \E a \in Amounts, p, f, r \in Dues : ProcessRepaymentWaterfall(a, p, f, r)
    BY <1>4, WaterfallRepaymentKeepsInv
<1>5. CASE \E secs \in GracePeriods : SetGracePeriod(secs)
    BY <1>1, <1>5, OtherKeepsInv, WaterfallAssumption
       DEF SetGracePeriod, breaker, DelinquencyOK, BreakerOK
<1>6. CASE \E i \in Invoice, t \in DueDates : MarkInvoiceDue(i, t)
    BY <1>1, <1>6, OtherKeepsInv, WaterfallAssumption
       DEF MarkInvoiceDue, breaker, DelinquencyOK, BreakerOK
<1>7. CASE \E i \in Invoice, loss \in Losses : DeclareDefault(i, loss)
    BY <1>7, DefaultKeepsInv
<1>8. CASE \E a \in Volumes : RecordDefault(a)
    <2>1. BreakerOK'
        BY <1>8, BreakerStep
    <2> QED
        BY <1>1, <1>8, <2>1, OtherKeepsInv DEF RecordDefault, delinquency, DelinquencyOK
<1>9. CASE \E t \in Thresholds : SetCircuitBreakerThreshold(t)
    <2>1. BreakerOK'
        BY <1>9, BreakerStep
    <2> QED
        BY <1>1, <1>9, <2>1, OtherKeepsInv DEF SetCircuitBreakerThreshold, delinquency, DelinquencyOK
<1>10. CASE ResumeProcessing
    <2>1. BreakerOK'
        BY <1>10, BreakerStep
    <2> QED
        BY <1>1, <1>10, <2>1, OtherKeepsInv DEF ResumeProcessing, delinquency, DelinquencyOK
<1>11. CASE Tick
    <2>1. BreakerOK'
        BY <1>11, BreakerStep
    <2> QED
        BY <1>1, <1>11, <2>1, OtherKeepsInv DEF Tick, delinquency, DelinquencyOK
<1>12. CASE UNCHANGED vars
    BY <1>1, <1>12, OtherKeepsInv DEF vars, delinquency, breaker, DelinquencyOK, BreakerOK
<1> QED
    BY <1>2, <1>3, <1>4, <1>5, <1>6, <1>7, <1>8, <1>9, <1>10, <1>11, <1>12 DEF Next

-----------------------------------------------------------------------------
(* Theorems *)

LEMMA WaterfallInvariant == Spec => []WaterfallInv
BY WaterfallInit, WaterfallStep, PTL DEF Spec

\* Every key holds a value of its type and the pool's ledger stays sound.
THEOREM WaterfallTypeCorrect == Spec => []TypeOK
<1>1. WaterfallInv => TypeOK
    BY DEF WaterfallInv
<1> QED
    BY <1>1, WaterfallInvariant, PTL

\* The pool's capital is the deposit plus every repayment, less the fees and the
\* losses, after any interleaving of repayments and defaults.
THEOREM PoolIsAccountedFor == Spec => []PoolGetsWhatIsPaid
<1>1. WaterfallInv => PoolGetsWhatIsPaid
    BY DEF WaterfallInv
<1> QED
    BY <1>1, WaterfallInvariant, PTL

\* An invoice is marked as defaulted exactly when it was charged to the pool.
THEOREM MarksAreCharges == Spec => []DefaultedIffCharged
<1>1. WaterfallInv => DefaultedIffCharged
    BY DEF WaterfallInv
<1> QED
    BY <1>1, WaterfallInvariant, PTL

\* No invoice is charged a second time, none before its grace period has passed.
THEOREM ChargedOnce == Spec => ChargedOnceWhenDelinquent
<1> DEFINE Charged == \A i \in Invoice : charged'[i] # charged[i] =>
                  /\ charged[i] = 0
                  /\ due[i] # NotMarked /\ now >= due[i] + grace_secs
<1>1. WaterfallInv /\ [Next]_vars => [Charged]_vars
    <2> SUFFICES ASSUME WaterfallInv, Next, NEW i \in Invoice, charged'[i] # charged[i]
                 PROVE  charged[i] = 0 /\ due[i] # NotMarked /\ now >= due[i] + grace_secs
        OBVIOUS
    <2>1. PICK j \in Invoice, loss \in Losses : DeclareDefault(j, loss)
        BY DEF Next, Initialize, ProcessRepayment, ProcessRepaymentWaterfall, SetGracePeriod,
               MarkInvoiceDue, RecordDefault, SetCircuitBreakerThreshold, ResumeProcessing, Tick,
               delinquency
    <2>2. charged \in [Invoice -> Nat]
        BY DEF WaterfallInv, TypeOK
    <2>3. i = j
        BY <2>1, <2>2 DEF DeclareDefault
    <2>4. Delinquent(i) /\ i \notin defaulted
        BY <2>1, <2>3 DEF DeclareDefault, Defaultable
    <2>5. charged[i] = 0
        BY <2>2, <2>4 DEF WaterfallInv, DefaultedIffCharged
    <2> QED
        BY <2>4, <2>5 DEF Delinquent
<1> HIDE DEF Charged
<1>2. Spec => [][Charged]_vars
    BY <1>1, WaterfallInvariant, PTL DEF Spec
<1> QED
    BY <1>2 DEF Charged, ChargedOnceWhenDelinquent

-----------------------------------------------------------------------------
(* The breaker.  Age seconds have passed since the default window was      *)
(* opened: what was recorded since is in the record's volume, and what was *)
(* recorded before belongs to one earlier window, which did not trip.      *)

\* The defaults of a window from n seconds ago and before.
UpTo(f, k) == [n \in Window |-> IF n >= k THEN f[n] ELSE 0]

\* Up to every default of f, its window stayed below the threshold then in force.
Bounded(f, top) ==
    \A k \in Window : f[k] > 0 => SumOver(UpTo(f, k), Window) <= top[k] - 1

\* Defaults recorded in the window the record is of, and in an earlier one.
Since(r, age) == [n \in Window |-> IF n <= age THEN r[n] ELSE 0]
Before(r, age) == [n \in Window |-> IF n > age THEN r[n] ELSE 0]

\* The record, opened age seconds ago, holds at least what was watched since;
\* neither window passed its threshold, and a window that is over is not added to.
Calm(age, volume, r, top) ==
    /\ SumOver(Since(r, age), Window) <= volume
    /\ Bounded(Since(r, age), top)
    /\ Bounded(Before(r, age), top)
    /\ \A n \in Window : age >= CIRCUIT_BREAKER_WINDOW_SECS + n => r[n] = 0

LEMMA WindowIsFinite == IsFiniteSet(Window) /\ Window \subseteq Nat
<1>1. CIRCUIT_BREAKER_WINDOW_SECS - 1 \in Int /\ 0 \in Int
    BY WaterfallAssumption
<1> QED
    BY <1>1, FS_Interval DEF Window

LEMMA WindowSum ==
    \A f \in [Window -> Nat] : f \in [Window -> Int] /\ SumOver(f, Window) \in Int
<1> SUFFICES ASSUME NEW f \in [Window -> Nat]
             PROVE  f \in [Window -> Int] /\ SumOver(f, Window) \in Int
    OBVIOUS
<1>1. f \in [Window -> Int] /\ IsFiniteSet(Window)
    BY WindowIsFinite
<1> QED
    BY <1>1, SumInt

LEMMA UpToTyped ==
    \A f \in [Window -> Nat], k \in Window :
        /\ UpTo(f, k) \in [Window -> Nat] /\ UpTo(f, k) \in [Window -> Int]
        /\ SumOver(UpTo(f, k), Window) \in Int
<1> SUFFICES ASSUME NEW f \in [Window -> Nat], NEW k \in Window
             PROVE  /\ UpTo(f, k) \in [Window -> Nat] /\ UpTo(f, k) \in [Window -> Int]
                    /\ SumOver(UpTo(f, k), Window) \in Int
    OBVIOUS
<1>1. UpTo(f, k) \in [Window -> Nat]
    BY DEF UpTo
<1> QED
    BY <1>1, WindowSum

LEMMA PartsTyped ==
    \A r \in [Window -> Nat], age \in Int :
        /\ Since(r, age) \in [Window -> Nat] /\ Before(r, age) \in [Window -> Nat]
        /\ SumOver(Since(r, age), Window) \in Int /\ SumOver(Before(r, age), Window) \in Int
<1>1. SUFFICES ASSUME NEW r \in [Window -> Nat], NEW age \in Int
               PROVE  /\ Since(r, age) \in [Window -> Nat] /\ Before(r, age) \in [Window -> Nat]
                      /\ SumOver(Since(r, age), Window) \in Int
                      /\ SumOver(Before(r, age), Window) \in Int
    OBVIOUS
<1>2. Since(r, age) \in [Window -> Nat] /\ Before(r, age) \in [Window -> Nat]
    BY DEF Since, Before
<1> QED
    BY <1>2, WindowSum

\* Only the current second differs.
LEMMA SumAtZero ==
    \A f, d \in [Window -> Nat] :
        (\A n \in Window : n # 0 => d[n] = f[n])
        => SumOver(d, Window) = SumOver(f, Window) - f[0] + d[0]
<1> SUFFICES ASSUME NEW f \in [Window -> Nat], NEW d \in [Window -> Nat],
                    \A n \in Window : n # 0 => d[n] = f[n]
             PROVE  SumOver(d, Window) = SumOver(f, Window) - f[0] + d[0]
    OBVIOUS
<1>1. 0 \in Window /\ IsFiniteSet(Window) /\ f \in [Window -> Int] /\ d \in [Window -> Int]
    BY ZeroInWindow, WindowIsFinite
<1> QED
    BY <1>1, SumUpdate

\* The two windows are all there is.
LEMMA PartsAddUp ==
    \A r \in [Window -> Nat], age \in Int :
        SumOver(r, Window) = SumOver(Since(r, age), Window) + SumOver(Before(r, age), Window)
<1> SUFFICES ASSUME NEW r \in [Window -> Nat], NEW age \in Int
             PROVE  SumOver(r, Window) = SumOver(Since(r, age), Window) + SumOver(Before(r, age), Window)
    OBVIOUS
<1>1. /\ Since(r, age) \in [Window -> Int] /\ Before(r, age) \in [Window -> Int]
      /\ r \in [Window -> Int]
    BY PartsTyped
<1>2. \A n \in Window : r[n] = Since(r, age)[n] + Before(r, age)[n]
    BY WindowIsFinite DEF Since, Before
<1>3. IsFiniteSet(Window)
    BY WindowIsFinite
<1> QED
    BY <1>1, <1>2, <1>3, SumPlus

LEMMA QuietSum == \A f \in [Window -> Nat] : (\A n \in Window : f[n] = 0) => SumOver(f, Window) = 0
<1> SUFFICES ASSUME NEW f \in [Window -> Nat], \A n \in Window : f[n] = 0
             PROVE  SumOver(f, Window) = 0
    OBVIOUS
<1>1. f = [n \in Window |-> 0]
    OBVIOUS
<1> QED
    BY <1>1, WindowIsFinite, SumZero

\* A window without defaults, or one with a youngest.
LEMMA YoungestDefault ==
    ASSUME NEW f \in [Window -> Nat]
    PROVE  \/ \A n \in Window : f[n] = 0
           \/ \E k \in Window : f[k] > 0 /\ \A n \in Window : n < k => f[n] = 0
<1> DEFINE Found == \E k \in Window : f[k] > 0 /\ \A n \in Window : n < k => f[n] = 0
           Empty == {m \in Nat : Found \/ \A n \in Window : n < m => f[n] = 0}
<1>1. 0 \in Empty
    BY WindowIsFinite
<1>2. ASSUME NEW m \in Nat, m \in Empty PROVE m + 1 \in Empty
    <2>1. CASE Found
        BY <2>1
    <2>2. CASE ~Found
        <3>1. \A n \in Window : n < m => f[n] = 0
            BY <1>2, <2>2
        <3>2. m \in Window => f[m] = 0
            BY <2>2, <3>1
        <3>3. \A n \in Window : n < m + 1 => n < m \/ n = m
            BY WindowIsFinite
        <3> QED
            BY <3>1, <3>2, <3>3
    <2> QED
        BY <2>1, <2>2
<1>3. CIRCUIT_BREAKER_WINDOW_SECS \in Empty
    <2> HIDE DEF Empty
    <2>1. Nat \subseteq Empty
        BY <1>1, <1>2, NatClosure
    <2> QED
        BY <2>1, WaterfallAssumption
<1>4. \A n \in Window : n < CIRCUIT_BREAKER_WINDOW_SECS
    BY WaterfallAssumption DEF Window
<1> QED
    BY <1>3, <1>4

\* The youngest default bounds the whole of its window.
LEMMA BoundedTotal ==
    ASSUME NEW f \in [Window -> Nat], NEW top \in [Window -> Nat], top[0] > 0, Bounded(f, top)
    PROVE  \E n \in Window : SumOver(f, Window) <= top[n] - 1
<1>1. CASE \A n \in Window : f[n] = 0
    <2>1. SumOver(f, Window) = 0 /\ 0 \in Window /\ top[0] \in Nat
        BY <1>1, QuietSum, ZeroInWindow
    <2> QED
        BY <2>1
<1>2. CASE \E k \in Window : f[k] > 0 /\ \A n \in Window : n < k => f[n] = 0
    <2>1. PICK k \in Window : f[k] > 0 /\ \A n \in Window : n < k => f[n] = 0
        BY <1>2
    <2>2. UpTo(f, k) = f
        BY <2>1, WindowIsFinite DEF UpTo
    <2> QED
        BY <2>1, <2>2 DEF Bounded
<1> QED
    BY <1>1, <1>2, YoungestDefault

LEMMA CalmIsBounded ==
    ASSUME NEW r \in [Window -> Nat], NEW age \in Int, NEW volume \in Nat,
           NEW top \in [Window -> Nat], top[0] > 0, Calm(age, volume, r, top)
    PROVE  \E n \in Window : SumOver(r, Window) <= 2 * (top[n] - 1)
<1>1. SumOver(r, Window) = SumOver(Since(r, age), Window) + SumOver(Before(r, age), Window)
    BY PartsAddUp
<1>2. /\ Since(r, age) \in [Window -> Nat] /\ Before(r, age) \in [Window -> Nat]
      /\ SumOver(Since(r, age), Window) \in Int /\ SumOver(Before(r, age), Window) \in Int
    BY PartsTyped
<1>3. PICK j \in Window : SumOver(Since(r, age), Window) <= top[j] - 1
    BY <1>2, BoundedTotal DEF Calm
<1>4. PICK k \in Window : SumOver(Before(r, age), Window) <= top[k] - 1
    BY <1>2, BoundedTotal DEF Calm
<1>5. top[j] \in Nat /\ top[k] \in Nat
    OBVIOUS
<1>6. CASE top[j] <= top[k]
    BY <1>1, <1>2, <1>3, <1>4, <1>5, <1>6
<1>7. CASE top[k] <= top[j]
    BY <1>1, <1>2, <1>3, <1>4, <1>5, <1>7
<1> QED
    BY <1>5, <1>6, <1>7

LEMMA CalmWhenQuiet ==
    ASSUME NEW age \in Int, NEW volume \in Nat, NEW top
    PROVE  Calm(age, volume, Quiet, top)
<1>1. Quiet \in [Window -> Nat] /\ \A n \in Window : Quiet[n] = 0
    BY DEF Quiet
<1>2. /\ Since(Quiet, age) \in [Window -> Nat] /\ \A n \in Window : Since(Quiet, age)[n] = 0
      /\ \A n \in Window : Before(Quiet, age)[n] = 0
    BY <1>1 DEF Since, Before
<1>3. SumOver(Since(Quiet, age), Window) = 0
    BY <1>2, QuietSum
<1> QED
    BY <1>1, <1>2, <1>3 DEF Calm, Bounded

\* A second passes: a window moves one place on and may lose its last second,
\* and the threshold that bounds a default moves with it.
LEMMA BoundedTick ==
    ASSUME NEW f \in [Window -> Nat], NEW g \in [Window -> Nat],
           NEW top \in [Window -> Nat], NEW up \in [Window -> Nat],
           g[0] = 0, \A n \in Window : n # 0 => g[n] = f[n - 1] /\ up[n] = top[n - 1],
           Bounded(f, top)
    PROVE  Bounded(g, up) /\ SumOver(g, Window) <= SumOver(f, Window)
<1> DEFINE m == CIRCUIT_BREAKER_WINDOW_SECS - 1
<1>1. m \in Nat /\ Window = 0..m /\ m \in Window
    BY WaterfallAssumption DEF Window
<1> HIDE DEF m
<1>2. \A n \in 1..m : n \in Window /\ n # 0 /\ n - 1 \in Window
    BY <1>1
<1>3. ASSUME NEW e \in [Window -> Nat], NEW d \in [Window -> Nat],
             d[0] = 0, \A n \in 1..m : d[n] = e[n - 1]
      PROVE  SumOver(d, Window) <= SumOver(e, Window)
    <2>1. SumOver(d, Window) = SumOver(e, Window) - e[m]
        <3>1. e \in [0..m -> Int] /\ d \in [0..m -> Int]
            BY <1>1
        <3> QED
            BY <1>1, <1>3, <3>1, SumShifts
    <2>2. SumOver(e, Window) \in Int /\ e[m] \in Nat
        BY <1>1, WindowSum
    <2> QED
        BY <2>1, <2>2
<1>4. SumOver(g, Window) <= SumOver(f, Window)
    BY <1>2, <1>3
<1>5. ASSUME NEW k \in Window, g[k] > 0 PROVE SumOver(UpTo(g, k), Window) <= up[k] - 1
    <2>1. k # 0 /\ k - 1 \in Window /\ k \in 1..m
        BY <1>1, <1>5
    <2>2. f[k - 1] > 0 /\ up[k] = top[k - 1]
        BY <1>5, <2>1
    <2>3. SumOver(UpTo(f, k - 1), Window) <= top[k - 1] - 1
        BY <2>1, <2>2 DEF Bounded
    <2>4. /\ UpTo(f, k - 1) \in [Window -> Nat] /\ SumOver(UpTo(f, k - 1), Window) \in Int
          /\ UpTo(g, k) \in [Window -> Nat] /\ SumOver(UpTo(g, k), Window) \in Int
        BY <2>1, UpToTyped
    <2>5. UpTo(g, k)[0] = 0
        BY <1>1, <2>1, ZeroInWindow DEF UpTo
    <2>6. ASSUME NEW n \in 1..m PROVE UpTo(g, k)[n] = UpTo(f, k - 1)[n - 1]
        <3>1. n \in Window /\ n - 1 \in Window /\ g[n] = f[n - 1]
            BY <1>2
        <3>2. n >= k <=> n - 1 >= k - 1
            BY <2>1
        <3> QED
            BY <3>1, <3>2 DEF UpTo
    <2>7. SumOver(UpTo(g, k), Window) <= SumOver(UpTo(f, k - 1), Window)
        BY <1>3, <2>4, <2>5, <2>6
    <2>8. top[k - 1] \in Nat
        BY <2>1
    <2> QED
        BY <2>2, <2>3, <2>4, <2>7, <2>8
<1> QED
    BY <1>4, <1>5 DEF Bounded

LEMMA CalmTick ==
    ASSUME NEW r \in [Window -> Nat], NEW age \in Nat, NEW volume \in Nat,
           NEW top \in [Window -> Nat], NEW first \in Nat, Calm(age, volume, r, top)
    PROVE  Calm(age + 1, volume, SecondLater(r, 0), SecondLater(top, first))
<1>1. \A n \in Window : n # 0 => n - 1 \in Window
    BY WaterfallAssumption DEF Window
<1>2. PICK q, up : q = SecondLater(r, 0) /\ up = SecondLater(top, first)
    OBVIOUS
<1>3. /\ q \in [Window -> Nat] /\ up \in [Window -> Nat] /\ q[0] = 0
      /\ \A n \in Window : n # 0 => q[n] = r[n - 1] /\ up[n] = top[n - 1]
    BY <1>1, <1>2, ZeroInWindow DEF SecondLater
<1>4. /\ Since(r, age) \in [Window -> Nat] /\ Before(r, age) \in [Window -> Nat]
      /\ SumOver(Since(r, age), Window) \in Int
    <2>1. age \in Int
        OBVIOUS
    <2> QED
        BY <2>1, PartsTyped
<1>5. /\ Since(q, age + 1) \in [Window -> Nat] /\ Before(q, age + 1) \in [Window -> Nat]
      /\ SumOver(Since(q, age + 1), Window) \in Int
    <2>1. age + 1 \in Int
        OBVIOUS
    <2> QED
        BY <1>3, <2>1, PartsTyped
<1>6. /\ Since(q, age + 1)[0] = 0 /\ Before(q, age + 1)[0] = 0
      /\ \A n \in Window : n # 0 => /\ Since(q, age + 1)[n] = Since(r, age)[n - 1]
                                    /\ Before(q, age + 1)[n] = Before(r, age)[n - 1]
    <2>1. \A n \in Window : n \in Nat
        BY WindowIsFinite
    <2> QED
        BY <1>1, <1>3, <2>1, ZeroInWindow DEF Since, Before
<1>7. /\ Bounded(Since(q, age + 1), up)
      /\ SumOver(Since(q, age + 1), Window) <= SumOver(Since(r, age), Window)
    <2>1. PICK f, g : f = Since(r, age) /\ g = Since(q, age + 1)
        OBVIOUS
    <2>2. /\ f \in [Window -> Nat] /\ g \in [Window -> Nat] /\ g[0] = 0
          /\ \A n \in Window : n # 0 => g[n] = f[n - 1]
        BY <1>4, <1>5, <1>6, <2>1
    <2>3. Bounded(f, top)
        BY <2>1 DEF Calm
    <2>4. Bounded(g, up) /\ SumOver(g, Window) <= SumOver(f, Window)
        BY <1>3, <2>2, <2>3, BoundedTick
    <2> QED
        BY <2>1, <2>4
<1>8. Bounded(Before(q, age + 1), up)
    <2>1. PICK f, g : f = Before(r, age) /\ g = Before(q, age + 1)
        OBVIOUS
    <2>2. /\ f \in [Window -> Nat] /\ g \in [Window -> Nat] /\ g[0] = 0
          /\ \A n \in Window : n # 0 => g[n] = f[n - 1]
        BY <1>4, <1>5, <1>6, <2>1
    <2>3. Bounded(f, top)
        BY <2>1 DEF Calm
    <2>4. Bounded(g, up) /\ SumOver(g, Window) <= SumOver(f, Window)
        BY <1>3, <2>2, <2>3, BoundedTick
    <2> QED
        BY <2>1, <2>4
<1>9. ASSUME NEW n \in Window, age + 1 >= CIRCUIT_BREAKER_WINDOW_SECS + n PROVE q[n] = 0
    <2>1. CASE n = 0
        BY <1>3, <2>1
    <2>2. CASE n # 0
        <3>1. n - 1 \in Window /\ age >= CIRCUIT_BREAKER_WINDOW_SECS + (n - 1)
            BY <1>1, <1>9, <2>2, WindowIsFinite, WaterfallAssumption
        <3> QED
            BY <1>3, <2>2, <3>1 DEF Calm
    <2> QED
        BY <2>1, <2>2
<1>10. SumOver(Since(q, age + 1), Window) <= volume
    BY <1>4, <1>5, <1>7 DEF Calm
<1> QED
    BY <1>2, <1>7, <1>8, <1>9, <1>10 DEF Calm

\* The threshold of the current second may rise.
LEMMA CalmRaise ==
    ASSUME NEW r \in [Window -> Nat], NEW age \in Int, NEW volume \in Nat,
           NEW top \in [Window -> Nat], NEW up \in [Window -> Nat],
           \A n \in Window : top[n] <= up[n], Calm(age, volume, r, top)
    PROVE  Calm(age, volume, r, up)
<1>1. ASSUME NEW f \in [Window -> Nat], Bounded(f, top) PROVE Bounded(f, up)
    <2> SUFFICES ASSUME NEW k \in Window, f[k] > 0 PROVE SumOver(UpTo(f, k), Window) <= up[k] - 1
        BY DEF Bounded
    <2>1. SumOver(UpTo(f, k), Window) <= top[k] - 1
        BY <1>1 DEF Bounded
    <2>2. SumOver(UpTo(f, k), Window) \in Int /\ top[k] \in Nat /\ up[k] \in Nat /\ top[k] <= up[k]
        BY UpToTyped
    <2> QED
        BY <2>1, <2>2
<1>2. Since(r, age) \in [Window -> Nat] /\ Before(r, age) \in [Window -> Nat]
    BY PartsTyped
<1> QED
    BY <1>1, <1>2 DEF Calm

\* A default of the current second that leaves its window below the threshold.
LEMMA BoundedRecord ==
    ASSUME NEW f \in [Window -> Nat], NEW g \in [Window -> Nat], NEW top \in [Window -> Nat],
           \A n \in Window : n # 0 => g[n] = f[n],
           g[0] > 0 => SumOver(g, Window) <= top[0] - 1,
           Bounded(f, top)
    PROVE  Bounded(g, top)
<1> SUFFICES ASSUME NEW k \in Window, g[k] > 0 PROVE SumOver(UpTo(g, k), Window) <= top[k] - 1
    BY DEF Bounded
<1>1. CASE k = 0
    <2>1. UpTo(g, 0) = g
        BY WindowIsFinite DEF UpTo
    <2> QED
        BY <1>1, <2>1
<1>2. CASE k # 0
    <2>1. UpTo(g, k) = UpTo(f, k)
        <3>1. \A n \in Window : n >= k => n # 0
            BY <1>2, WindowIsFinite
        <3> QED
            BY <3>1 DEF UpTo
    <2> QED
        BY <1>2, <2>1 DEF Bounded
<1> QED
    BY <1>1, <1>2

\* A default of a, of which b is watched, in the window the record is of.
LEMMA CalmRecord ==
    ASSUME NEW r \in [Window -> Nat], NEW age \in Nat, NEW volume \in Nat,
           NEW top \in [Window -> Nat], Calm(age, volume, r, top),
           age < CIRCUIT_BREAKER_WINDOW_SECS,
           NEW a \in Nat, NEW b \in {0, a}, b = 0 \/ volume + a <= top[0] - 1,
           NEW q, q = [r EXCEPT ![0] = r[0] + b]
    PROVE  Calm(age, volume + a, q, top)
<1>1. 0 \in Window /\ Window \subseteq Nat
    BY ZeroInWindow, WindowIsFinite
<1>2. q \in [Window -> Nat] /\ q[0] = r[0] + b /\ \A n \in Window : n # 0 => q[n] = r[n]
    BY <1>1
<1>3. /\ Since(r, age) \in [Window -> Nat] /\ Since(q, age) \in [Window -> Nat]
      /\ SumOver(Since(r, age), Window) \in Int /\ SumOver(Since(q, age), Window) \in Int
    <2>1. age \in Int
        OBVIOUS
    <2> QED
        BY <1>2, <2>1, PartsTyped
<1>4. /\ Since(q, age)[0] = Since(r, age)[0] + b
      /\ \A n \in Window : n # 0 => Since(q, age)[n] = Since(r, age)[n]
    BY <1>1, <1>2 DEF Since
<1>5. SumOver(Since(q, age), Window) = SumOver(Since(r, age), Window) + b
    <2>1. SumOver(Since(q, age), Window)
            = SumOver(Since(r, age), Window) - Since(r, age)[0] + Since(q, age)[0]
        BY <1>3, <1>4, SumAtZero
    <2>2. Since(r, age)[0] \in Nat
        BY <1>1, <1>3
    <2> QED
        BY <1>3, <1>4, <2>1, <2>2
<1>6. SumOver(Since(q, age), Window) <= volume + a
    BY <1>3, <1>5 DEF Calm
<1>7. Bounded(Since(q, age), top)
    <2>1. CASE b = 0
        <3>1. q = r
            BY <1>1, <2>1
        <3> QED
            BY <3>1 DEF Calm
    <2>2. CASE volume + a <= top[0] - 1
        <3>1. top[0] \in Nat
            BY <1>1
        <3>2. SumOver(Since(q, age), Window) <= top[0] - 1
            BY <1>3, <1>6, <2>2, <3>1
        <3> QED
            BY <1>3, <1>4, <3>2, BoundedRecord DEF Calm
    <2> QED
        BY <2>1, <2>2
<1>8. Before(q, age) = Before(r, age)
    BY <1>1, <1>2 DEF Before
<1>9. \A n \in Window : ~(age >= CIRCUIT_BREAKER_WINDOW_SECS + n)
    BY <1>1, WaterfallAssumption
<1> QED
    BY <1>6, <1>7, <1>8, <1>9 DEF Calm

\* A default in a new window: the one before becomes the earlier one, and no
\* default of it is of the second that opens the new one.
LEMMA CalmRestart ==
    ASSUME NEW r \in [Window -> Nat], NEW age \in Nat, NEW volume \in Nat,
           NEW top \in [Window -> Nat], Calm(age, volume, r, top),
           age >= CIRCUIT_BREAKER_WINDOW_SECS,
           NEW a \in Nat, NEW b \in {0, a}, b = 0 \/ a <= top[0] - 1,
           NEW q, q = [r EXCEPT ![0] = r[0] + b]
    PROVE  Calm(0, a, q, top)
<1>1. 0 \in Window /\ Window \subseteq Nat
    BY ZeroInWindow, WindowIsFinite
<1>2. r[0] = 0
    BY <1>1, WaterfallAssumption DEF Calm
<1>3. q \in [Window -> Nat] /\ q[0] = b /\ \A n \in Window : n # 0 => q[n] = r[n]
    BY <1>1, <1>2
<1>4. Before(q, 0) = Since(r, age)
    <2>1. \A n \in Window : n <= age
        BY WaterfallAssumption DEF Window
    <2> QED
        BY <1>1, <1>2, <1>3, <2>1 DEF Before, Since
<1>5. /\ Since(q, 0) \in [Window -> Nat] /\ Since(q, 0)[0] = b
      /\ \A n \in Window : n # 0 => Since(q, 0)[n] = 0
    BY <1>1, <1>3 DEF Since
<1>6. Quiet \in [Window -> Nat] /\ SumOver(Quiet, Window) = 0 /\ \A n \in Window : Quiet[n] = 0
    <2>1. Quiet \in [Window -> Nat] /\ \A n \in Window : Quiet[n] = 0
        BY DEF Quiet
    <2> QED
        BY <2>1, QuietSum
<1>7. SumOver(Since(q, 0), Window) = b
    <2>1. SumOver(Since(q, 0), Window) = SumOver(Quiet, Window) - Quiet[0] + Since(q, 0)[0]
        <3>1. \A n \in Window : n # 0 => Since(q, 0)[n] = Quiet[n]
            BY <1>5, <1>6
        <3> QED
            BY <1>5, <1>6, <3>1, SumAtZero
    <2> QED
        BY <1>1, <1>5, <1>6, <2>1
<1>8. Bounded(Quiet, top)
    BY <1>6 DEF Bounded
<1>9. Bounded(Since(q, 0), top)
    <2>1. Since(q, 0)[0] > 0 => SumOver(Since(q, 0), Window) <= top[0] - 1
        BY <1>5, <1>7
    <2>2. \A n \in Window : n # 0 => Since(q, 0)[n] = Quiet[n]
        BY <1>5, <1>6
    <2> QED
        BY <1>5, <1>6, <1>8, <2>1, <2>2, BoundedRecord
<1>10. \A n \in Window : ~(0 >= CIRCUIT_BREAKER_WINDOW_SECS + n)
    BY <1>1, WaterfallAssumption
<1> QED
    BY <1>4, <1>7, <1>9, <1>10 DEF Calm

\* The threshold in force counts for the current second, and an untripped
\* breaker has let neither window pass.
Surge ==
    /\ in_force[0] >= cb_threshold
    /\ ~cb_active =>
        /\ record = NoRecord => watched = Quiet
        /\ record # NoRecord => Calm(now - record.window_start, record.volume, watched, in_force)

LEMMA NotARecord == NoRecord \notin DefaultRecord
BY WaterfallAssumption DEF DefaultRecord

LEMMA RecordKeepsSurge ==
    ASSUME BreakerOK, Surge, NEW a \in Volumes, RecordDefault(a)
    PROVE  Surge'
<1>1. in_force' = in_force /\ cb_threshold' = cb_threshold /\ in_force'[0] >= cb_threshold'
    BY DEF RecordDefault, Surge
<1>2. SUFFICES ASSUME ~cb_active'
               PROVE  /\ record' # NoRecord
                      /\ Calm(now' - record'.window_start, record'.volume, watched', in_force')
    BY <1>1 DEF Surge
<1> DEFINE b == IF cb_threshold > 0 THEN a ELSE 0
<1>3. /\ now \in Nat /\ watched \in [Window -> Nat] /\ in_force \in [Window -> Nat]
      /\ cb_threshold \in Nat /\ in_force[0] \in Nat /\ in_force[0] >= cb_threshold
    BY ZeroInWindow DEF BreakerOK, Surge
<1>4. /\ a \in Nat /\ b \in {0, a} /\ now' = now /\ record' = Recorded(a)
      /\ watched' = [watched EXCEPT ![0] = watched[0] + b]
      /\ ~cb_active /\ ~Trips(Recorded(a).volume)
    <2>1. a \in Int /\ a > 0
        BY WaterfallAssumption DEF RecordDefault
    <2>2. now' = now /\ record' = Recorded(a)
        BY DEF RecordDefault
    <2>3. watched' = [watched EXCEPT ![0] = watched[0] + b]
        <3>1. CASE cb_threshold > 0
            BY <3>1 DEF RecordDefault
        <3>2. CASE ~(cb_threshold > 0)
            <4>1. watched' = watched /\ b = 0 /\ watched[0] + 0 = watched[0]
                BY <1>3, <3>2, ZeroInWindow DEF RecordDefault
            <4> QED
                BY <1>3, <4>1
        <3> QED
            BY <3>1, <3>2
    <2>4. Trips(record'.volume) => cb_active'
        BY DEF RecordDefault, BreakerOK
    <2>5. cb_active => cb_active'
        BY DEF RecordDefault, BreakerOK
    <2> QED
        BY <1>2, <2>1, <2>2, <2>3, <2>4, <2>5
<1>5. ASSUME NEW volume \in Nat, volume = Recorded(a).volume PROVE b = 0 \/ volume <= in_force[0] - 1
    BY <1>3, <1>4, <1>5 DEF Trips
<1> HIDE DEF b
<1>6. CASE record = NoRecord
    <2>1. record' = [window_start |-> now, volume |-> a] /\ Recorded(a).volume = 0 + a
        BY <1>4, <1>6 DEF Recorded
    <2>2. watched = Quiet
        BY <1>4, <1>6 DEF Surge
    <2>3. Calm(0, 0, watched, in_force)
        BY <2>2, CalmWhenQuiet
    <2>4. Calm(0, 0 + a, watched', in_force)
        <3>1. 0 < CIRCUIT_BREAKER_WINDOW_SECS /\ (b = 0 \/ 0 + a <= in_force[0] - 1)
            BY <1>4, <1>5, <2>1, WaterfallAssumption
        <3> QED
            BY <1>3, <1>4, <2>3, <3>1, CalmRecord
    <2>5. now' - record'.window_start = 0 /\ record'.volume = 0 + a
        BY <1>3, <1>4, <2>1
    <2>6. record' \in DefaultRecord
        BY <1>3, <1>4, <2>1 DEF DefaultRecord
    <2> QED
        BY <1>1, <2>4, <2>5, <2>6, NotARecord
<1>7. CASE record # NoRecord
    <2> DEFINE age == now - record.window_start
    <2>1. /\ record \in DefaultRecord /\ age \in Nat
          /\ record.window_start \in Nat /\ record.volume \in Nat
        BY <1>3, <1>7 DEF BreakerOK, DefaultRecord
    <2>2. Calm(age, record.volume, watched, in_force)
        BY <1>4, <1>7 DEF Surge
    <2>3. CASE age >= CIRCUIT_BREAKER_WINDOW_SECS
        <3>1. record' = [window_start |-> now, volume |-> a] /\ Recorded(a).volume = a
            BY <1>4, <1>7, <2>3 DEF Recorded
        <3>2. b = 0 \/ a <= in_force[0] - 1
            BY <1>4, <1>5, <3>1
        <3> HIDE DEF age
        <3>3. Calm(0, a, watched', in_force)
            BY <1>3, <1>4, <2>1, <2>2, <2>3, <3>2, CalmRestart
        <3>4. now' - record'.window_start = 0 /\ record'.volume = a
            BY <1>3, <1>4, <3>1
        <3>5. record' \in DefaultRecord
            BY <1>3, <1>4, <3>1 DEF DefaultRecord
        <3> QED
            BY <1>1, <3>3, <3>4, <3>5, NotARecord
    <2>4. CASE age < CIRCUIT_BREAKER_WINDOW_SECS
        <3>1. Recorded(a) = [record EXCEPT !.volume = record.volume + a]
            BY <1>3, <1>7, <2>1, <2>4, WaterfallAssumption DEF Recorded
        <3>2. /\ record'.volume = record.volume + a /\ record'.window_start = record.window_start
              /\ record' \in DefaultRecord /\ Recorded(a).volume = record.volume + a
            BY <1>4, <2>1, <3>1 DEF DefaultRecord
        <3>3. b = 0 \/ record.volume + a <= in_force[0] - 1
            BY <1>4, <1>5, <2>1, <3>2
        <3>4. now' - record'.window_start = age
            BY <1>4, <3>2
        <3> HIDE DEF age
        <3>5. Calm(age, record.volume + a, watched', in_force)
            BY <1>3, <1>4, <2>1, <2>2, <2>4, <3>3, CalmRecord
        <3> QED
            BY <1>1, <3>2, <3>4, <3>5, NotARecord
    <2> QED
        BY <2>1, <2>3, <2>4, WaterfallAssumption
<1> QED
    BY <1>6, <1>7

LEMMA TickKeepsSurge ==
    ASSUME BreakerOK, Surge, Tick PROVE Surge'
<1>1. /\ now' = now + 1 /\ record' = record /\ cb_active' = cb_active /\ cb_threshold' = cb_threshold
      /\ watched' = SecondLater(watched, 0) /\ in_force' = SecondLater(in_force, cb_threshold)
      /\ now \in Nat /\ cb_threshold \in Nat
      /\ watched \in [Window -> Nat] /\ in_force \in [Window -> Nat]
    BY DEF Tick, BreakerOK
<1>2. in_force'[0] = cb_threshold'
    BY <1>1, ZeroInWindow DEF SecondLater
<1>3. ASSUME ~cb_active, record = NoRecord PROVE watched' = Quiet
    <2>1. \A n \in Window : n # 0 => n - 1 \in Window
        BY WaterfallAssumption DEF Window
    <2>2. watched = Quiet
        BY <1>3 DEF Surge
    <2> QED
        BY <1>1, <2>1, <2>2 DEF Quiet, SecondLater
<1>4. ASSUME ~cb_active, record # NoRecord
      PROVE  Calm(now' - record.window_start, record.volume, watched', in_force')
    <2> DEFINE age == now - record.window_start
    <2>1. age \in Nat /\ record.volume \in Nat /\ record.window_start \in Nat
        BY <1>1, <1>4 DEF BreakerOK, DefaultRecord
    <2>2. Calm(age, record.volume, watched, in_force)
        BY <1>4 DEF Surge
    <2>3. now' - record.window_start = age + 1
        BY <1>1, <2>1
    <2> HIDE DEF age
    <2>4. Calm(age + 1, record.volume, watched', in_force')
        BY <1>1, <2>1, <2>2, CalmTick
    <2> QED
        BY <2>3, <2>4
<1> QED
    BY <1>1, <1>2, <1>3, <1>4 DEF Surge

\* A threshold that is lowered still counts for the second it was in force.
LEMMA SetKeepsSurge ==
    ASSUME BreakerOK, Surge, NEW t \in Thresholds, SetCircuitBreakerThreshold(t)
    PROVE  Surge'
<1>1. /\ record' = record /\ cb_active' = cb_active /\ watched' = watched /\ now' = now
      /\ cb_threshold' = t
      /\ in_force' = [in_force EXCEPT ![0] = IF in_force[0] < t THEN t ELSE in_force[0]]
    BY DEF SetCircuitBreakerThreshold
<1>2. /\ t \in Nat /\ now \in Nat /\ 0 \in Window
      /\ watched \in [Window -> Nat] /\ in_force \in [Window -> Nat]
    BY ZeroInWindow, WaterfallAssumption DEF BreakerOK, SetCircuitBreakerThreshold
<1>3. in_force' \in [Window -> Nat] /\ in_force'[0] >= t
    BY <1>1, <1>2
<1>4. \A n \in Window : in_force[n] <= in_force'[n]
    BY <1>1, <1>2
<1>5. ASSUME ~cb_active, record # NoRecord
      PROVE  Calm(now - record.window_start, record.volume, watched, in_force')
    <2>1. now - record.window_start \in Int /\ record.volume \in Nat
        BY <1>2, <1>5 DEF BreakerOK, DefaultRecord
    <2>2. Calm(now - record.window_start, record.volume, watched, in_force)
        BY <1>5 DEF Surge
    <2> QED
        BY <1>2, <1>3, <1>4, <2>1, <2>2, CalmRaise
<1> QED
    BY <1>1, <1>3, <1>5 DEF Surge

LEMMA ResumeKeepsSurge ==
    ASSUME BreakerOK, Surge, ResumeProcessing PROVE Surge'
<1>1. /\ record' = [window_start |-> now, volume |-> 0] /\ now' = now /\ now \in Nat
      /\ watched' = Quiet /\ in_force' = in_force /\ cb_threshold' = cb_threshold
    BY DEF ResumeProcessing, BreakerOK
<1>2. record' \in DefaultRecord /\ now' - record'.window_start = 0 /\ record'.volume = 0
    BY <1>1 DEF DefaultRecord
<1>3. Calm(0, 0, watched', in_force')
    BY <1>1, CalmWhenQuiet
<1> QED
    BY <1>1, <1>2, <1>3, NotARecord DEF Surge

LEMMA SurgeStep == WaterfallInv /\ Surge /\ [Next]_vars => Surge'
<1> SUFFICES ASSUME WaterfallInv, Surge, [Next]_vars PROVE Surge'
    OBVIOUS
<1>1. BreakerOK
    BY TypeOKParts DEF WaterfallInv
<1>2. CASE \E a \in Volumes : RecordDefault(a)
    BY <1>1, <1>2, RecordKeepsSurge
<1>3. CASE Tick
    BY <1>1, <1>3, TickKeepsSurge
<1>4. CASE \E t \in Thresholds : SetCircuitBreakerThreshold(t)
    BY <1>1, <1>4, SetKeepsSurge
<1>5. CASE ResumeProcessing
    BY <1>1, <1>5, ResumeKeepsSurge
<1>6. CASE UNCHANGED <<breaker, now>>
    BY <1>6 DEF Surge, breaker
<1> QED
    BY <1>2, <1>3, <1>4, <1>5, <1>6
       DEF Next, vars, Initialize, ProcessRepayment, ProcessRepaymentWaterfall, SetGracePeriod,
           MarkInvoiceDue, DeclareDefault

\* While the breaker has not tripped, what was recorded in the last 24 hours
\* under a threshold, since processing was last resumed, is less than twice the
\* highest threshold of those hours, however the defaults fall on its windows
\* and however often the threshold was moved.
THEOREM SurgesAreBounded == Spec => []SurgeIsBounded
<1>1. Init => Surge
    <2> SUFFICES ASSUME Init PROVE Surge
        OBVIOUS
    <2>1. in_force[0] = 0 /\ cb_threshold = 0 /\ record = NoRecord /\ watched = Quiet
        BY ZeroInWindow DEF Init, InitWaterfall, Quiet
    <2> QED
        BY <2>1 DEF Surge
<1>2. WaterfallInv /\ Surge => SurgeIsBounded
    <2> SUFFICES ASSUME WaterfallInv, Surge, ~cb_active, cb_threshold > 0
                 PROVE  \E n \in Window : SumOver(watched, Window) <= 2 * (in_force[n] - 1)
        BY DEF SurgeIsBounded
    <2>1. BreakerOK
        BY TypeOKParts DEF WaterfallInv
    <2>2. watched \in [Window -> Nat] /\ in_force \in [Window -> Nat] /\ in_force[0] > 0
        BY <2>1, ZeroInWindow DEF BreakerOK, Surge
    <2>3. CASE record = NoRecord
        <3>1. Calm(0, 0, watched, in_force)
            BY <2>3, CalmWhenQuiet DEF Surge
        <3> QED
            BY <2>2, <3>1, CalmIsBounded
    <2>4. CASE record # NoRecord
        <3>1. now - record.window_start \in Int /\ record.volume \in Nat
            BY <2>1, <2>4 DEF BreakerOK, DefaultRecord
        <3>2. Calm(now - record.window_start, record.volume, watched, in_force)
            BY <2>4 DEF Surge
        <3> QED
            BY <2>2, <3>1, <3>2, CalmIsBounded
    <2> QED
        BY <2>3, <2>4
<1> QED
    BY <1>1, <1>2, SurgeStep, WaterfallInvariant, PTL DEF Spec

-----------------------------------------------------------------------------
(* Congruence modulo P *)

LEMMA Widths ==
    /\ HALF \in Nat /\ BASE \in Nat /\ P \in Nat /\ U_MAX \in Nat
    /\ HALF >= 2 /\ BASE = 2 * HALF /\ P >= 7
    /\ BASE * HALF = P + 1
    /\ BASE * BASE = 2 * P + 2
    /\ U_MAX = 2 * P + 1
<1>1. HALF \in Nat /\ HALF >= 2
    BY CommitmentAssumption
<1>2. BASE = 2 * HALF /\ BASE \in Nat /\ BASE >= 4
    BY <1>1 DEF BASE
<1>3. BASE * HALF >= 4 * HALF /\ BASE * HALF \in Nat
    BY <1>1, <1>2
<1>4. P = BASE * HALF - 1
    BY DEF P
<1>5. P \in Nat /\ P >= 7 /\ BASE * HALF = P + 1
    BY <1>1, <1>2, <1>3, <1>4
<1>6. BASE * BASE = 2 * (BASE * HALF)
    BY <1>1, <1>2
<1>7. U_MAX = BASE * BASE - 1
    BY DEF U_MAX
<1> QED
    BY <1>1, <1>2, <1>5, <1>6, <1>7

Cong(x, y) == \E k \in Int : x = y + k * P

LEMMA CongRefl == \A x \in Int : Cong(x, x)
BY Widths DEF Cong

LEMMA CongBy == \A x, y, k \in Int : x = y + k * P => Cong(x, y)
BY DEF Cong

LEMMA CongSym == \A x, y \in Int : Cong(x, y) => Cong(y, x)
<1> SUFFICES ASSUME NEW x \in Int, NEW y \in Int, Cong(x, y) PROVE Cong(y, x)
    OBVIOUS
<1>1. PICK k \in Int : x = y + k * P
    BY DEF Cong
<1>2. -k \in Int /\ y = x + (-k) * P
    BY <1>1, Widths
<1> QED
    BY <1>2 DEF Cong

LEMMA CongTrans == \A x, y, z \in Int : Cong(x, y) /\ Cong(y, z) => Cong(x, z)
<1> SUFFICES ASSUME NEW x \in Int, NEW y \in Int, NEW z \in Int, Cong(x, y), Cong(y, z)
             PROVE  Cong(x, z)
    OBVIOUS
<1>1. PICK k \in Int : x = y + k * P
    BY DEF Cong
<1>2. PICK l \in Int : y = z + l * P
    BY DEF Cong
<1>3. k + l \in Int /\ x = z + (k + l) * P
    BY <1>1, <1>2, Widths
<1> QED
    BY <1>3 DEF Cong

LEMMA CongAdd ==
    \A a, b, c, d \in Int : Cong(a, b) /\ Cong(c, d) => Cong(a + c, b + d)
<1> SUFFICES ASSUME NEW a \in Int, NEW b \in Int, NEW c \in Int, NEW d \in Int,
                    Cong(a, b), Cong(c, d)
             PROVE  Cong(a + c, b + d)
    OBVIOUS
<1>1. PICK k \in Int : a = b + k * P
    BY DEF Cong
<1>2. PICK l \in Int : c = d + l * P
    BY DEF Cong
<1>3. k + l \in Int /\ a + c = (b + d) + (k + l) * P
    BY <1>1, <1>2, Widths
<1> QED
    BY <1>3 DEF Cong

LEMMA CongTimes ==
    \A a, b, c \in Int : Cong(a, b) => Cong(a * c, b * c)
<1> SUFFICES ASSUME NEW a \in Int, NEW b \in Int, NEW c \in Int, Cong(a, b)
             PROVE  Cong(a * c, b * c)
    OBVIOUS
<1>1. PICK k \in Int : a = b + k * P
    BY DEF Cong
<1>2. k * c \in Int /\ a * c = b * c + (k * c) * P
    BY <1>1, Widths
<1> QED
    BY <1>2 DEF Cong

LEMMA CongMul ==
    \A a, b, c, d \in Int : Cong(a, b) /\ Cong(c, d) => Cong(a * c, b * d)
<1> SUFFICES ASSUME NEW a \in Int, NEW b \in Int, NEW c \in Int, NEW d \in Int,
                    Cong(a, b), Cong(c, d)
             PROVE  Cong(a * c, b * d)
    OBVIOUS
<1>1. Cong(a * c, b * c)
    BY CongTimes
<1>2. Cong(c * b, d * b)
    BY CongTimes
<1>3. c * b = b * c /\ d * b = b * d /\ a * c \in Int /\ b * c \in Int /\ b * d \in Int
    OBVIOUS
<1> QED
    BY <1>1, <1>2, <1>3, CongTrans

\* A multiple of P that is less than P in size is zero.
LEMMA SmallMultiple == \A k \in Int : k * P < P /\ k * P > -P => k = 0
<1> SUFFICES ASSUME NEW k \in Int, k * P < P, k * P > -P PROVE k = 0
    OBVIOUS
<1>1. k >= 1 => k * P >= P
    BY Widths
<1>2. k <= -1 => k * P <= -P
    BY Widths
<1>3. k < 1 /\ k > -1
    BY <1>1, <1>2, Widths
<1> QED
    BY <1>3

LEMMA CongUnique == \A x, y \in 0..(P - 1) : Cong(x, y) => x = y
<1> SUFFICES ASSUME NEW x \in 0..(P - 1), NEW y \in 0..(P - 1), Cong(x, y) PROVE x = y
    OBVIOUS
<1>1. PICK k \in Int : x = y + k * P
    BY DEF Cong
<1>2. k * P \in Int /\ k * P < P /\ k * P > -P
    BY <1>1, Widths
<1>3. k = 0
    BY <1>2, SmallMultiple
<1> QED
    BY <1>1, <1>3, Widths

LEMMA ResidueOf ==
    \A x \in Int : Residue(x) \in 0..(P - 1) /\ Residue(x) \in Int /\ Cong(Residue(x), x)
<1> SUFFICES ASSUME NEW x \in Int
             PROVE  Residue(x) \in 0..(P - 1) /\ Residue(x) \in Int /\ Cong(Residue(x), x)
    OBVIOUS
<1>1. PICK r, q : r = x % P /\ q = x \div P
    OBVIOUS
<1>2. r \in 0..(P - 1) /\ r \in Int /\ q \in Int /\ x = r + q * P
    BY <1>1, Widths
<1>3. Cong(x, r)
    BY <1>2, CongBy
<1>4. Cong(r, x)
    BY <1>2, <1>3, CongSym
<1> QED
    BY <1>1, <1>2, <1>4 DEF Residue

\* Numbers are congruent when they have the same residue.
LEMMA ResidueEqual == \A x, y \in Int : Residue(x) = Residue(y) <=> Cong(x, y)
<1> SUFFICES ASSUME NEW x \in Int, NEW y \in Int
             PROVE  Residue(x) = Residue(y) <=> Cong(x, y)
    OBVIOUS
<1>1. /\ Residue(x) \in 0..(P - 1) /\ Residue(x) \in Int /\ Cong(Residue(x), x)
      /\ Residue(y) \in 0..(P - 1) /\ Residue(y) \in Int /\ Cong(Residue(y), y)
    BY ResidueOf
<1>2. Cong(x, Residue(x)) /\ Cong(y, Residue(y))
    BY <1>1, CongSym
<1>3. ASSUME Residue(x) = Residue(y) PROVE Cong(x, y)
    BY <1>1, <1>2, <1>3, CongTrans
<1>4. ASSUME Cong(x, y) PROVE Residue(x) = Residue(y)
    <2>1. Cong(Residue(x), y)
        BY <1>1, <1>4, CongTrans
    <2>2. Cong(Residue(x), Residue(y))
        BY <2>1, <1>1, <1>2, CongTrans
    <2> QED
        BY <2>2, <1>1, CongUnique
<1> QED
    BY <1>3, <1>4

LEMMA DifferenceDivides == \A x, y \in Int : (x - y) % P = 0 <=> Cong(x, y)
<1> SUFFICES ASSUME NEW x \in Int, NEW y \in Int PROVE (x - y) % P = 0 <=> Cong(x, y)
    OBVIOUS
<1> DEFINE d == x - y
<1>1. d \in Int /\ 0 \in Int /\ Residue(0) = 0 /\ Residue(d) = d % P
    BY Widths DEF Residue
<1>2. d % P = 0 <=> Cong(d, 0)
    BY <1>1, ResidueEqual
<1>3. ASSUME NEW k \in Int PROVE x = y + k * P <=> d = 0 + k * P
    BY Widths
<1>4. Cong(d, 0) <=> Cong(x, y)
    BY <1>3 DEF Cong
<1> QED
    BY <1>2, <1>4

-----------------------------------------------------------------------------
(* Reduction and multiplication *)

LEMMA ReduceIs ==
    \A x \in 0..U_MAX :
        Reduce(x) \in 0..(P - 1) /\ Reduce(x) \in Int /\ Cong(Reduce(x), x)
<1> SUFFICES ASSUME NEW x \in 0..U_MAX
             PROVE  Reduce(x) \in 0..(P - 1) /\ Reduce(x) \in Int /\ Cong(Reduce(x), x)
    OBVIOUS
<1>1. PICK m, r, q : m = P + 1 /\ r = x % m /\ q = x \div m
    OBVIOUS
<1>2. x \in Int /\ m \in Int /\ m > 0 /\ x <= 2 * P + 1
    BY <1>1, Widths
<1>3. r \in 0..(m - 1) /\ r \in Int /\ q \in Int /\ x = r + q * m
    BY <1>1, <1>2
<1>4. q = 0 \/ q = 1
    <2>1. q * m < 2 * m /\ q * m > -m
        BY <1>1, <1>2, <1>3, Widths
    <2>2. q >= 2 => q * m >= 2 * m
        BY <1>2, <1>3
    <2>3. q <= -1 => q * m <= -m
        BY <1>2, <1>3
    <2>4. q * m \in Int /\ 2 * m \in Int
        BY <1>2, <1>3
    <2> QED
        BY <2>1, <2>2, <2>3, <2>4, <1>2, <1>3
<1>5. r + q \in Int /\ x = (r + q) + q * P
    BY <1>1, <1>3, <1>4, Widths
<1>6. Reduce(x) = IF r + q >= P THEN r + q - P ELSE r + q
    <2>1. x % (P + 1) = r /\ x \div (P + 1) = q
        BY <1>1
    <2> QED
        BY <2>1, <1>2, <1>3, Widths DEF Reduce
<1>7. CASE r + q >= P
    <2>1. Reduce(x) = r + q - P /\ q + 1 \in Int
        BY <1>3, <1>6, <1>7
    <2>2. Reduce(x) \in 0..(P - 1) /\ Reduce(x) \in Int
        BY <2>1, <1>1, <1>3, <1>4, <1>7, Widths
    <2>3. x = Reduce(x) + (q + 1) * P
        <3>1. (q + 1) * P = q * P + P /\ q * P \in Int
            BY <1>4, Widths
        <3> QED
            BY <3>1, <2>1, <1>3, <1>5, <1>2, Widths
    <2> QED
        BY <2>1, <2>2, <2>3, <1>2, CongBy, CongSym
<1>8. CASE ~(r + q >= P)
    <2>1. Reduce(x) = r + q
        BY <1>6, <1>8
    <2>2. Reduce(x) \in 0..(P - 1) /\ Reduce(x) \in Int
        BY <2>1, <1>1, <1>3, <1>4, <1>8, Widths
    <2>3. x = Reduce(x) + q * P
        BY <2>1, <1>5
    <2> QED
        BY <2>2, <2>3, <1>2, <1>3, CongBy, CongSym
<1> QED
    BY <1>7, <1>8

\* Two residues add up within u128.
LEMMA ResiduesFit ==
    \A x, y \in 0..(P - 1) : x + y \in 0..U_MAX /\ 2 * x \in 0..U_MAX /\ x \in 0..U_MAX
BY Widths

\* The two limbs of a number below unit * rest.
LEMMA LimbsOf ==
    \A a, unit, rest \in Nat : unit > 0 /\ a < unit * rest =>
        \E l \in 0..(unit - 1), h \in 0..(rest - 1) :
            a = l + unit * h /\ LowPart(a, unit) = l /\ HighPart(a, unit) = h
<1> SUFFICES ASSUME NEW a \in Nat, NEW unit \in Nat, NEW rest \in Nat,
                    unit > 0, a < unit * rest
             PROVE  \E l \in 0..(unit - 1), h \in 0..(rest - 1) :
                        a = l + unit * h /\ LowPart(a, unit) = l /\ HighPart(a, unit) = h
    OBVIOUS
<1>1. PICK l, h : l = a % unit /\ h = a \div unit
    OBVIOUS
<1>2. l \in 0..(unit - 1) /\ l \in Int /\ h \in Int /\ a = l + unit * h
    BY <1>1
<1>3. h \in 0..(rest - 1)
    <2>1. h <= -1 => unit * h <= -unit
        BY <1>2
    <2>2. h >= rest => unit * h >= unit * rest
        BY <1>2
    <2>3. unit * h \in Int /\ unit * rest \in Int
        BY <1>2
    <2> QED
        BY <2>1, <2>2, <2>3, <1>2
<1> QED
    BY <1>1, <1>2, <1>3 DEF LowPart, HighPart

LEMMA ProductBounds ==
    \A x, y, m, n \in Nat : x < m /\ y < n => x * y \in Nat /\ x * y < m * n
<1> SUFFICES ASSUME NEW x \in Nat, NEW y \in Nat, NEW m \in Nat, NEW n \in Nat, x < m, y < n
             PROVE  x * y \in Nat /\ x * y < m * n
    OBVIOUS
<1>1. x * y <= m * y
    OBVIOUS
<1>2. m * y + m <= m * n
    <2>1. y + 1 <= n
        OBVIOUS
    <2>2. m * (y + 1) <= m * n
        BY <2>1
    <2> QED
        BY <2>2
<1>3. x * y \in Nat /\ m * y \in Nat /\ m * n \in Nat /\ m > 0
    OBVIOUS
<1> QED
    BY <1>1, <1>2, <1>3

\* A residue times BASE, folded: the bits from BASE * HALF = P + 1 up come back as ones.
LEMMA CrossTermIs ==
    \A r \in 0..(P - 1) :
        CrossTerm(r) \in 0..U_MAX /\ CrossTerm(r) \in Int /\ Cong(CrossTerm(r), BASE * r)
<1> SUFFICES ASSUME NEW r \in 0..(P - 1)
             PROVE  CrossTerm(r) \in 0..U_MAX /\ CrossTerm(r) \in Int
                    /\ Cong(CrossTerm(r), BASE * r)
    OBVIOUS
<1>1. r \in Nat /\ HALF > 0 /\ HALF * BASE = P + 1 /\ r < HALF * BASE
    BY Widths
<1>2. PICK l \in 0..(HALF - 1), h \in 0..(BASE - 1) :
            r = l + HALF * h /\ LowPart(r, HALF) = l /\ HighPart(r, HALF) = h
    BY <1>1, LimbsOf, Widths
<1>3. CrossTerm(r) = l * BASE + h
    BY <1>2 DEF CrossTerm
<1>4. l \in Nat /\ h \in Nat /\ l * BASE \in Nat /\ h * P \in Nat
    BY Widths
<1>5. BASE * r = (l * BASE + h) + h * P
    <2>1. BASE * r = l * BASE + h * (HALF * BASE)
        BY <1>2, <1>4, Widths
    <2>2. h * (HALF * BASE) = h * P + h
        BY <1>1, <1>4, Widths
    <2> QED
        BY <2>1, <2>2, <1>4
<1>6. l * BASE + h <= P
    <2>1. l * BASE <= (HALF - 1) * BASE
        BY <1>4, Widths
    <2>2. (HALF - 1) * BASE = P + 1 - BASE
        BY <1>1, Widths
    <2> QED
        BY <2>1, <2>2, <1>4, Widths
<1>7. CrossTerm(r) \in Nat /\ CrossTerm(r) <= U_MAX /\ BASE * r = CrossTerm(r) + h * P
    BY <1>3, <1>4, <1>5, <1>6, Widths
<1>8. PICK z, c : z = BASE * r /\ c = CrossTerm(r)
    OBVIOUS
<1>9. z \in Int /\ c \in Int /\ h \in Int /\ z = c + h * P
    BY <1>1, <1>4, <1>7, <1>8, Widths
<1>10. Cong(c, z)
    BY <1>9, CongBy, CongSym
<1> QED
    BY <1>7, <1>8, <1>10

\* mod_mul, up to its last reduction: no intermediate result leaves u128, and
\* the total is congruent to the product.
LEMMA FoldsAre ==
    \A x, y \in 0..(P - 1) :
        /\ FitU128(Products(x, y))
        /\ FitU128(Folds(x, y))
        /\ Folds(x, y).total \in 0..U_MAX
        /\ Cong(Folds(x, y).total, x * y)
<1> SUFFICES ASSUME NEW x \in 0..(P - 1), NEW y \in 0..(P - 1)
             PROVE  /\ FitU128(Products(x, y))
                    /\ FitU128(Folds(x, y))
                    /\ Folds(x, y).total \in 0..U_MAX
                    /\ Cong(Folds(x, y).total, x * y)
    OBVIOUS
<1>1. /\ x \in Nat /\ y \in Nat /\ BASE > 0 /\ BASE \in Nat /\ HALF \in Nat
      /\ x < BASE * HALF /\ y < BASE * HALF
    BY Widths
<1>2. PICK xl \in 0..(BASE - 1), xh \in 0..(HALF - 1) :
            x = xl + BASE * xh /\ LowPart(x, BASE) = xl /\ HighPart(x, BASE) = xh
    BY <1>1, LimbsOf
<1>3. PICK yl \in 0..(BASE - 1), yh \in 0..(HALF - 1) :
            y = yl + BASE * yh /\ LowPart(y, BASE) = yl /\ HighPart(y, BASE) = yh
    BY <1>1, LimbsOf
<1>4. /\ xl \in Nat /\ xh \in Nat /\ xl < BASE /\ xh < HALF
      /\ yl \in Nat /\ yh \in Nat /\ yl < BASE /\ yh < HALF
    BY <1>1
<1>5. /\ xl * yl \in 0..U_MAX /\ xl * yh \in 0..U_MAX
      /\ xh * yl \in 0..U_MAX /\ xh * yh \in 0..U_MAX
    <2>1. xl * yl \in Nat /\ xl * yl < BASE * BASE
        BY <1>1, <1>4, ProductBounds
    <2>2. xl * yh \in Nat /\ xl * yh < BASE * HALF
        BY <1>1, <1>4, ProductBounds
    <2>3. xh * yl \in Nat /\ xh * yl < HALF * BASE /\ HALF * BASE = BASE * HALF
        BY <1>1, <1>4, ProductBounds
    <2>4. xh * yh \in Nat /\ xh * yh < BASE * HALF
        BY <1>1, <1>4, ProductBounds, Widths
    <2> QED
        BY <2>1, <2>2, <2>3, <2>4, Widths
<1>6. PICK p0, p1, p2, p3 :
            p0 = xl * yl /\ p1 = xl * yh /\ p2 = xh * yl /\ p3 = xh * yh
    OBVIOUS
<1>7. /\ p0 \in 0..U_MAX /\ p1 \in 0..U_MAX /\ p2 \in 0..U_MAX /\ p3 \in 0..U_MAX
      /\ p0 \in Int /\ p1 \in Int /\ p2 \in Int /\ p3 \in Int
    BY <1>5, <1>6, Widths
<1>8. Products(x, y) = [r0 |-> p0, r1_1 |-> p1, r1_2 |-> p2, r2 |-> p3]
    BY <1>2, <1>3, <1>6 DEF Products
<1>9. FitU128(Products(x, y))
    BY <1>7, <1>8 DEF FitU128
<1>10. PICK q0, q1, q2, q3 :
            q0 = Reduce(p0) /\ q1 = Reduce(p1) /\ q2 = Reduce(p2) /\ q3 = Reduce(p3)
    OBVIOUS
<1>11. /\ q0 \in 0..(P - 1) /\ q0 \in Int /\ Cong(q0, p0)
       /\ q1 \in 0..(P - 1) /\ q1 \in Int /\ Cong(q1, p1)
       /\ q2 \in 0..(P - 1) /\ q2 \in Int /\ Cong(q2, p2)
       /\ q3 \in 0..(P - 1) /\ q3 \in Int /\ Cong(q3, p3)
    BY <1>7, <1>10, ReduceIs
<1>12. PICK r1, s1 : r1 = q1 + q2 /\ s1 = Reduce(r1)
    OBVIOUS
<1>13. r1 \in 0..U_MAX /\ r1 \in Int /\ Cong(r1, p1 + p2)
    BY <1>7, <1>11, <1>12, ResiduesFit, CongAdd
<1>14. s1 \in 0..(P - 1) /\ s1 \in Int /\ Cong(s1, r1)
    BY <1>12, <1>13, ReduceIs
<1>15. PICK c, d : c = CrossTerm(s1) /\ d = Reduce(c)
    OBVIOUS
<1>16. c \in 0..U_MAX /\ c \in Int /\ Cong(c, BASE * s1)
    BY <1>14, <1>15, CrossTermIs
<1>17. d \in 0..(P - 1) /\ d \in Int /\ Cong(d, c)
    BY <1>15, <1>16, ReduceIs
<1>18. PICK e, f : e = 2 * q3 /\ f = Reduce(e)
    OBVIOUS
<1>19. e \in 0..U_MAX /\ e \in Int
    BY <1>11, <1>18, ResiduesFit
<1>20. f \in 0..(P - 1) /\ f \in Int /\ Cong(f, e)
    BY <1>18, <1>19, ReduceIs
<1>21. PICK t, u : t = q0 + d /\ u = Reduce(t)
    OBVIOUS
<1>22. t \in 0..U_MAX /\ t \in Int
    BY <1>11, <1>17, <1>21, ResiduesFit
<1>23. u \in 0..(P - 1) /\ u \in Int /\ Cong(u, t)
    BY <1>21, <1>22, ReduceIs
<1>24. u + f \in 0..U_MAX /\ u + f \in Int
    BY <1>20, <1>23, ResiduesFit
<1>25. Folds(x, y) = [r1 |-> r1, r1_scaled |-> c, r2_scaled |-> e, sum1 |-> t, total |-> u + f]
    BY <1>8, <1>10, <1>12, <1>15, <1>18, <1>21 DEF Folds
<1>26. FitU128(Folds(x, y)) /\ Folds(x, y).total = u + f
    BY <1>13, <1>16, <1>19, <1>22, <1>24, <1>25 DEF FitU128
<1>27. Cong(c, BASE * (p1 + p2))
    <2>1. Cong(s1, p1 + p2)
        BY <1>7, <1>13, <1>14, CongTrans
    <2>2. Cong(s1 * BASE, (p1 + p2) * BASE)
        <3>1. PICK v, b : v = p1 + p2 /\ b = BASE
            OBVIOUS
        <3>2. v \in Int /\ b \in Int /\ Cong(s1, v)
            BY <3>1, <2>1, <1>1, <1>7
        <3>3. Cong(s1 * b, v * b)
            BY <3>2, <1>14, CongTimes
        <3> QED
            BY <3>1, <3>3
    <2>3. /\ s1 * BASE = BASE * s1 /\ (p1 + p2) * BASE = BASE * (p1 + p2)
          /\ BASE * s1 \in Int /\ BASE * (p1 + p2) \in Int
        BY <1>1, <1>7, <1>14
    <2> QED
        BY <2>2, <2>3, <1>16, CongTrans
<1>28. Cong(t, p0 + BASE * (p1 + p2))
    <2>1. Cong(d, BASE * (p1 + p2)) /\ BASE * (p1 + p2) \in Int
        BY <1>1, <1>7, <1>16, <1>17, <1>27, CongTrans
    <2> QED
        BY <2>1, <1>7, <1>11, <1>17, <1>21, CongAdd
<1>29. Cong(f, 2 * p3)
    <2>1. Cong(q3 * 2, p3 * 2) /\ q3 * 2 = e /\ p3 * 2 = 2 * p3 /\ 2 * p3 \in Int
        BY <1>7, <1>11, <1>18, CongTimes
    <2> QED
        BY <2>1, <1>19, <1>20, CongTrans
<1>30. PICK g, w : g = p0 + BASE * (p1 + p2) /\ w = g + 2 * p3
    OBVIOUS
<1>31. g \in Int /\ w \in Int /\ Cong(u + f, w)
    <2>1. g \in Int /\ w \in Int /\ 2 * p3 \in Int
        BY <1>1, <1>7, <1>30
    <2>2. Cong(u, g)
        BY <2>1, <1>22, <1>23, <1>28, <1>30, CongTrans
    <2> QED
        BY <2>1, <2>2, <1>20, <1>23, <1>29, <1>30, CongAdd
<1>32. x * y \in Int /\ x * y = w + (2 * p3) * P
    <2>1. x * y = xl * yl + BASE * (xl * yh + xh * yl) + (BASE * BASE) * (xh * yh)
        BY <1>1, <1>2, <1>3, <1>4
    <2>2. x * y = g + (BASE * BASE) * p3
        BY <2>1, <1>6, <1>30
    <2>3. (BASE * BASE) * p3 = 2 * p3 + (2 * p3) * P
        BY <1>7, Widths
    <2> QED
        BY <2>2, <2>3, <1>1, <1>7, <1>30, <1>31, Widths
<1>33. Cong(w, x * y)
    BY <1>7, <1>31, <1>32, CongBy, CongSym
<1>34. Cong(u + f, x * y)
    BY <1>24, <1>31, <1>32, <1>33, CongTrans
<1> QED
    BY <1>9, <1>24, <1>26, <1>34

LEMMA ModMulIs ==
    \A a, b \in Int :
        ModMul(a, b) \in 0..(P - 1) /\ ModMul(a, b) \in Int /\ Cong(ModMul(a, b), a * b)
<1> SUFFICES ASSUME NEW a \in Int, NEW b \in Int
             PROVE  ModMul(a, b) \in 0..(P - 1) /\ ModMul(a, b) \in Int
                    /\ Cong(ModMul(a, b), a * b)
    OBVIOUS
<1>1. PICK x, y : x = Residue(a) /\ y = Residue(b)
    OBVIOUS
<1>2. /\ x \in 0..(P - 1) /\ x \in Int /\ Cong(x, a)
      /\ y \in 0..(P - 1) /\ y \in Int /\ Cong(y, b)
    BY <1>1, ResidueOf
<1>3. PICK t : t = Folds(x, y).total
    OBVIOUS
<1>4. t \in 0..U_MAX /\ t \in Int /\ Cong(t, x * y)
    BY <1>2, <1>3, FoldsAre, Widths
<1>5. ModMul(a, b) = Reduce(t)
    BY <1>1, <1>3 DEF ModMul
<1>6. Reduce(t) \in 0..(P - 1) /\ Reduce(t) \in Int /\ Cong(Reduce(t), t)
    BY <1>4, ReduceIs
<1>7. Cong(x * y, a * b) /\ x * y \in Int /\ a * b \in Int
    BY <1>2, CongMul
<1> QED
    BY <1>4, <1>5, <1>6, <1>7, CongTrans

-----------------------------------------------------------------------------
(* The inverse *)

\* A turn of the loop leaves the remainder of a division by r.
LEMMA TurnIs ==
    \A e \in LoopState : e.r # 0 =>
        /\ Turn(e) \in LoopState /\ Turn(e).r < e.r
        /\ \E q \in Int : /\ Turn(e).old_r = e.r /\ Turn(e).r = e.old_r - q * e.r
                          /\ Turn(e).old_s = e.s /\ Turn(e).s = e.old_s - q * e.s
<1> SUFFICES ASSUME NEW e \in LoopState, e.r # 0
             PROVE  /\ Turn(e) \in LoopState /\ Turn(e).r < e.r
                    /\ \E q \in Int : /\ Turn(e).old_r = e.r /\ Turn(e).r = e.old_r - q * e.r
                                      /\ Turn(e).old_s = e.s /\ Turn(e).s = e.old_s - q * e.s
    OBVIOUS
<1>1. PICK a, b, c, d : a = e.old_r /\ b = e.r /\ c = e.old_s /\ d = e.s
    OBVIOUS
<1>2. a \in 0..P /\ b \in 1..P /\ c \in Int /\ d \in Int
    BY <1>1, Widths DEF LoopState
<1>3. PICK q, m : q = a \div b /\ m = a % b
    OBVIOUS
<1>4. q \in Int /\ m \in 0..(b - 1) /\ a = b * q + m
    BY <1>2, <1>3, Widths
<1>5. m = a - q * b /\ d * q \in Int /\ q * d \in Int /\ c - q * d \in Int
    BY <1>2, <1>4, Widths
<1>6. Turn(e) = [old_r |-> b, r |-> m, old_s |-> d, s |-> c - q * d]
    BY <1>1, <1>3, <1>5 DEF Turn
<1>7. b \in 0..P /\ m \in 0..P /\ m < b
    BY <1>2, <1>4, Widths
<1>8. Turn(e) \in LoopState
    BY <1>2, <1>5, <1>6, <1>7 DEF LoopState
<1>9. /\ Turn(e).old_r = b /\ Turn(e).r = m
      /\ Turn(e).old_s = d /\ Turn(e).s = c - q * d
    BY <1>6
<1> QED
    BY <1>1, <1>4, <1>5, <1>7, <1>8, <1>9

\* The two coefficients have opposite signs and balance the two remainders.
Balanced(e) ==
    \/ e.old_s >= 0 /\ e.s <= 0 /\ e.old_s * e.r - e.s * e.old_r = P
    \/ e.old_s <= 0 /\ e.s >= 0 /\ e.s * e.old_r - e.old_s * e.r = P

\* mod_inverse does not trap either: its loop starts balanced, and a turn keeps the
\* balance and computes no value outside i128.
THEOREM InverseFits ==
    /\ \A a \in Int : Balanced([old_r |-> Residue(a), r |-> P, old_s |-> 1, s |-> 0])
    /\ \A e \in LoopState : e.r # 0 /\ Balanced(e) =>
          /\ Balanced(Turn(e))
          /\ (e.old_r \div e.r) * e.s \in I128 /\ Turn(e).s \in I128
          /\ (e.old_r \div e.r) * e.r \in I128
<1>1. ASSUME NEW a \in Int
      PROVE  Balanced([old_r |-> Residue(a), r |-> P, old_s |-> 1, s |-> 0])
    <2>1. PICK v : v = Residue(a)
        OBVIOUS
    <2>2. v \in Int
        BY <2>1, ResidueOf
    <2>3. 1 * P - 0 * v = P
        BY <2>2, Widths
    <2> QED
        BY <2>1, <2>3 DEF Balanced
<1>2. ASSUME NEW e \in LoopState, e.r # 0, Balanced(e)
      PROVE  /\ Balanced(Turn(e))
             /\ (e.old_r \div e.r) * e.s \in I128 /\ Turn(e).s \in I128
             /\ (e.old_r \div e.r) * e.r \in I128
    <2>1. PICK a, b, c, d : a = e.old_r /\ b = e.r /\ c = e.old_s /\ d = e.s
        OBVIOUS
    <2>2. a \in 0..P /\ b \in 1..P /\ c \in Int /\ d \in Int
        BY <1>2, <2>1, Widths DEF LoopState
    <2>3. PICK q, m : q = a \div b /\ m = a % b
        OBVIOUS
    <2>4. q \in Int /\ m \in 0..(b - 1) /\ a = q * b + m
        BY <2>2, <2>3, Widths
    <2>5. q >= 0
        <3>1. q <= -1 => q * b <= -b
            BY <2>2, <2>4
        <3>2. q * b \in Int /\ q * b > -b
            BY <2>2, <2>4, Widths
        <3> QED
            BY <3>1, <3>2, <2>2, <2>4
    <2>6. PICK x, y, n : x = q * d /\ y = c - x /\ n = a - q * b
        OBVIOUS
    <2>7. x \in Int /\ y \in Int /\ n = m /\ q * b \in 0..P
        BY <2>2, <2>4, <2>6, Widths
    <2>8. Turn(e) = [old_r |-> b, r |-> n, old_s |-> d, s |-> y]
        BY <2>1, <2>3, <2>6 DEF Turn
    <2>9. y * b - d * n = c * b - d * a
        <3>1. y * b = c * b - x * b /\ x * b = d * (q * b) /\ d * n = d * a - d * (q * b)
            BY <2>2, <2>4, <2>6, <2>7
        <3>2. PICK k1, k2, k3 : k1 = c * b /\ k2 = d * (q * b) /\ k3 = d * a
            OBVIOUS
        <3>3. k1 \in Int /\ k2 \in Int /\ k3 \in Int
            BY <2>2, <2>4, <3>2, Widths
        <3> QED
            BY <3>1, <3>2, <3>3
    <2>10. d <= 0 => x <= 0 /\ d * n <= 0
        BY <2>2, <2>4, <2>5, <2>6, <2>7
    <2>11. d >= 0 => x >= 0 /\ d * n >= 0
        BY <2>2, <2>4, <2>5, <2>6, <2>7
    <2>12. (y >= 0 => y * b >= y) /\ (y <= 0 => y * b <= y)
        BY <2>2, <2>7, Widths
    <2>13. PICK u, v, w : u = y * b /\ v = d * n /\ w = c * b - d * a
        OBVIOUS
    <2>14. u \in Int /\ v \in Int /\ w \in Int /\ u - v = w
        BY <2>2, <2>4, <2>7, <2>9, <2>13, Widths
    <2>15. y \in -P..P /\ x \in -P..P /\ Balanced(Turn(e))
        <3>1. CASE c >= 0 /\ d <= 0 /\ w = P
            <4>1. x <= 0 /\ v <= 0 /\ y >= 0 /\ u >= y
                BY <3>1, <2>2, <2>6, <2>7, <2>10, <2>12, <2>13
            <4>2. y \in -P..P /\ x \in -P..P
                BY <4>1, <3>1, <2>2, <2>6, <2>7, <2>14, Widths
            <4>3. y * b - d * n = P
                BY <3>1, <2>13, <2>14
            <4> QED
                BY <4>1, <4>2, <4>3, <3>1, <2>8 DEF Balanced
        <3>2. CASE c <= 0 /\ d >= 0 /\ w = -P
            <4>1. x >= 0 /\ v >= 0 /\ y <= 0 /\ u <= y
                BY <3>2, <2>2, <2>6, <2>7, <2>11, <2>12, <2>13
            <4>2. y \in -P..P /\ x \in -P..P
                BY <4>1, <3>2, <2>2, <2>6, <2>7, <2>14, Widths
            <4>3. d * n - y * b = P
                BY <3>2, <2>13, <2>14, Widths
            <4> QED
                BY <4>1, <4>2, <4>3, <3>2, <2>8 DEF Balanced
        <3>3. (c >= 0 /\ d <= 0 /\ w = P) \/ (c <= 0 /\ d >= 0 /\ w = -P)
            <4>1. PICK k1, k2 : k1 = c * b /\ k2 = d * a
                OBVIOUS
            <4>2. k1 \in Int /\ k2 \in Int
                BY <2>2, <4>1, Widths
            <4>3. \/ c >= 0 /\ d <= 0 /\ k1 - k2 = P
                  \/ c <= 0 /\ d >= 0 /\ k2 - k1 = P
                BY <1>2, <2>1, <4>1 DEF Balanced
            <4> QED
                BY <2>13, <4>1, <4>2, <4>3, Widths
        <3> QED
            BY <3>1, <3>2, <3>3
    <2>16. x \in I128 /\ y \in I128 /\ q * b \in I128
        BY <2>7, <2>15, Widths DEF I128
    <2>17. Turn(e).s = y
        BY <2>8
    <2> QED
        BY <2>1, <2>3, <2>6, <2>15, <2>16, <2>17
<1> QED
    BY <1>1, <1>2

EuclidStep(g, e) == IF e.r = 0 THEN e ELSE g[Turn(e)]

\* By induction on the remainder up to which a function satisfies the equation.
LEMMA EuclidExists == \E g : g = [e \in LoopState |-> EuclidStep(g, e)]
<1> DEFINE Upto(n, g) == \A e \in LoopState : e.r <= n => g[e] = EuclidStep(g, e)
           Reached == {n \in Nat : \E g : Upto(n, g)}
<1>1. 0 \in Reached
    <2> DEFINE z == [e \in LoopState |-> e]
    <2>1. ASSUME NEW e \in LoopState, e.r <= 0 PROVE z[e] = EuclidStep(z, e)
        <3>1. e.r = 0
            BY <2>1, Widths DEF LoopState
        <3> QED
            BY <3>1 DEF EuclidStep
    <2>2. Upto(0, z)
        BY <2>1
    <2> QED
        BY <2>2
<1>2. ASSUME NEW n \in Nat, n \in Reached PROVE n + 1 \in Reached
    <2>1. PICK g : Upto(n, g)
        BY <1>2
    <2> DEFINE h == [e \in LoopState |-> EuclidStep(g, e)]
    <2>2. ASSUME NEW e \in LoopState, e.r <= n + 1 PROVE h[e] = EuclidStep(h, e)
        <3>1. CASE e.r = 0
            BY <3>1 DEF EuclidStep
        <3>2. CASE e.r # 0
            <4>1. Turn(e) \in LoopState /\ Turn(e).r < e.r
                BY <3>2, TurnIs
            <4>2. Turn(e).r \in Nat /\ e.r \in Nat
                BY <4>1, Widths DEF LoopState
            <4>3. Turn(e).r <= n
                BY <4>1, <4>2, <2>2
            <4>4. g[Turn(e)] = EuclidStep(g, Turn(e))
                BY <4>1, <4>3, <2>1
            <4>5. h[Turn(e)] = g[Turn(e)]
                BY <4>1, <4>4
            <4>6. h[e] = g[Turn(e)] /\ EuclidStep(h, e) = h[Turn(e)]
                BY <3>2 DEF EuclidStep
            <4> QED
                BY <4>5, <4>6
        <3> QED
            BY <3>1, <3>2
    <2>3. Upto(n + 1, h)
        BY <2>2
    <2>4. \E k : Upto(n + 1, k)
        BY <2>3
    <2> QED
        BY <2>4
<1>3. P \in Reached
    <2>1. Nat \subseteq Reached
        BY <1>1, <1>2, NatClosure
    <2> QED
        BY <2>1, Widths
<1>4. PICK g : Upto(P, g)
    BY <1>3
<1>5. \A e \in LoopState : g[e] = EuclidStep(g, e)
    BY <1>4, Widths DEF LoopState
<1> DEFINE h == [e \in LoopState |-> g[e]]
<1>6. ASSUME NEW e \in LoopState PROVE h[e] = EuclidStep(h, e)
    <2>1. CASE e.r = 0
        BY <1>5, <2>1 DEF EuclidStep
    <2>2. CASE e.r # 0
        <3>1. Turn(e) \in LoopState
            BY <2>2, TurnIs
        <3>2. h[Turn(e)] = g[Turn(e)] /\ h[e] = EuclidStep(g, e)
            BY <3>1, <1>5
        <3> QED
            BY <2>2, <3>2 DEF EuclidStep
    <2> QED
        BY <2>1, <2>2
<1>7. h = [e \in LoopState |-> EuclidStep(h, e)]
    BY <1>6
<1> QED
    BY <1>7

LEMMA EuclidIs ==
    \A e \in LoopState : Euclid[e] = IF e.r = 0 THEN e ELSE Euclid[Turn(e)]
<1>1. Euclid = [e \in LoopState |-> IF e.r = 0 THEN e ELSE Euclid[Turn(e)]]
    <2>1. \E g : g = [e \in LoopState |-> IF e.r = 0 THEN e ELSE g[Turn(e)]]
        BY EuclidExists DEF EuclidStep
    <2> QED
        BY <2>1 DEF Euclid
<1> QED
    BY <1>1

\* The invariant of the loop of mod_inverse.
Bezout(a, e) == Cong(e.old_s * a, e.old_r) /\ Cong(e.s * a, e.r)

LEMMA TurnKeepsBezout ==
    \A a \in Int : \A e \in LoopState : e.r # 0 /\ Bezout(a, e) => Bezout(a, Turn(e))
<1> SUFFICES ASSUME NEW a \in Int, NEW e \in LoopState, e.r # 0, Bezout(a, e)
             PROVE  Bezout(a, Turn(e))
    OBVIOUS
<1>1. PICK q \in Int : /\ Turn(e).old_r = e.r /\ Turn(e).r = e.old_r - q * e.r
                       /\ Turn(e).old_s = e.s /\ Turn(e).s = e.old_s - q * e.s
    BY TurnIs
<1>2. PICK m, n, s, t : m = e.old_r /\ n = e.r /\ s = e.old_s /\ t = e.s
    OBVIOUS
<1>3. m \in Int /\ n \in Int /\ s \in Int /\ t \in Int
    BY <1>2, Widths DEF LoopState
<1>4. Cong(s * a, m) /\ Cong(t * a, n)
    BY <1>2 DEF Bezout
<1>5. Cong((t * a) * (-q), n * (-q))
    <2>1. PICK v, w : v = t * a /\ w = -q
        OBVIOUS
    <2>2. v \in Int /\ w \in Int
        BY <1>3, <2>1
    <2> QED
        BY <1>3, <1>4, <2>1, <2>2, CongTimes
<1>6. Cong((s - q * t) * a, m - q * n)
    <2>1. PICK u, v, w : u = s * a /\ v = (t * a) * (-q) /\ w = n * (-q)
        OBVIOUS
    <2>2. u \in Int /\ v \in Int /\ w \in Int
        BY <1>3, <2>1
    <2>3. Cong(u + v, m + w)
        BY <1>3, <1>4, <1>5, <2>1, <2>2, CongAdd
    <2>4. u + v = (s - q * t) * a /\ m + w = m - q * n
        BY <1>3, <2>1
    <2> QED
        BY <2>3, <2>4
<1> QED
    BY <1>1, <1>2, <1>4, <1>6 DEF Bezout

LEMMA EuclidKeepsBezout ==
    \A a \in Int : \A e \in LoopState :
        Bezout(a, e) => Euclid[e] \in LoopState /\ Bezout(a, Euclid[e])
<1> SUFFICES ASSUME NEW a \in Int
             PROVE  \A e \in LoopState :
                        Bezout(a, e) => Euclid[e] \in LoopState /\ Bezout(a, Euclid[e])
    OBVIOUS
<1> DEFINE Kept(e) == Bezout(a, e) => Euclid[e] \in LoopState /\ Bezout(a, Euclid[e])
           Reached == {n \in Nat : \A e \in LoopState : e.r <= n => Kept(e)}
<1>1. ASSUME NEW e \in LoopState, e.r = 0 PROVE Kept(e)
    BY <1>1, EuclidIs
<1>2. 0 \in Reached
    <2>1. \A e \in LoopState : e.r <= 0 => e.r = 0
        BY Widths DEF LoopState
    <2> QED
        BY <1>1, <2>1
<1>3. ASSUME NEW n \in Nat, n \in Reached PROVE n + 1 \in Reached
    <2>1. ASSUME NEW e \in LoopState, e.r <= n + 1, e.r # 0 PROVE Kept(e)
        <3>1. Turn(e) \in LoopState /\ Turn(e).r < e.r
            BY <2>1, TurnIs
        <3>2. Turn(e).r \in Nat /\ e.r \in Nat
            BY <3>1, Widths DEF LoopState
        <3>3. Turn(e).r <= n
            BY <2>1, <3>1, <3>2
        <3>4. Kept(Turn(e))
            BY <1>3, <3>1, <3>3
        <3>5. Euclid[e] = Euclid[Turn(e)]
            BY <2>1, EuclidIs
        <3> QED
            BY <2>1, <3>4, <3>5, TurnKeepsBezout
    <2> QED
        BY <1>1, <2>1
<1>4. Nat \subseteq Reached
    BY <1>2, <1>3, NatClosure
<1>5. P \in Reached
    BY <1>4, Widths
<1> QED
    BY <1>5, Widths DEF LoopState

\* Where mod_inverse does not panic, it returns the inverse.
LEMMA ModInverseIs ==
    \A a \in Int : Invertible(a) =>
        ModInverse(a) \in 0..(P - 1) /\ ModInverse(a) \in Int /\ Cong(ModInverse(a) * a, 1)
<1> SUFFICES ASSUME NEW a \in Int, Invertible(a)
             PROVE  ModInverse(a) \in 0..(P - 1) /\ ModInverse(a) \in Int
                    /\ Cong(ModInverse(a) * a, 1)
    OBVIOUS
<1>1. PICK e : e = [old_r |-> Residue(a), r |-> P, old_s |-> 1, s |-> 0]
    OBVIOUS
<1>2. e \in LoopState
    BY <1>1, ResidueOf, Widths DEF LoopState
<1>3. Bezout(a, e)
    <2>1. Cong(a, Residue(a))
        BY ResidueOf, CongSym
    <2>2. 1 * a = a /\ 0 * a = 0
        OBVIOUS
    <2>3. Cong(0, P)
        <3>1. 0 \in Int /\ P \in Int /\ -1 \in Int /\ 0 = P + (-1) * P
            BY Widths
        <3> QED
            BY <3>1, CongBy
    <2> QED
        BY <1>1, <2>1, <2>2, <2>3 DEF Bezout
<1>4. PICK s : s = Euclid[e].old_s
    OBVIOUS
<1>5. s \in Int /\ Cong(s * a, Euclid[e].old_r)
    BY <1>2, <1>3, <1>4, EuclidKeepsBezout DEF Bezout, LoopState
<1>6. Euclid[e].old_r = 1 /\ ModInverse(a) = Residue(s)
    BY <1>1, <1>4 DEF Invertible, ModInverse, EuclidOf
<1>7. Residue(s) \in 0..(P - 1) /\ Residue(s) \in Int /\ Cong(Residue(s), s)
    BY <1>5, ResidueOf
<1>8. PICK v : v = Residue(s)
    OBVIOUS
<1>9. v \in Int /\ Cong(v * a, s * a)
    BY <1>5, <1>7, <1>8, CongTimes
<1>10. v * a \in Int /\ s * a \in Int /\ 1 \in Int
    BY <1>5, <1>9
<1>11. Cong(v * a, 1)
    BY <1>5, <1>6, <1>9, <1>10, CongTrans
<1> QED
    BY <1>6, <1>7, <1>8, <1>11

LEMMA ScaleCommitmentIs ==
    Invertible(SHARE_SCALE) =>
        \A c, share \in Int :
            /\ ScaleCommitment(c, share) \in 0..(P - 1) /\ ScaleCommitment(c, share) \in Int
            /\ Cong(ScaleCommitment(c, share), (c * ModInverse(SHARE_SCALE)) * share)
            /\ Cong(ScaleCommitment(c, share) * SHARE_SCALE, c * share)
<1> SUFFICES ASSUME Invertible(SHARE_SCALE), NEW c \in Int, NEW share \in Int
             PROVE  /\ ScaleCommitment(c, share) \in 0..(P - 1)
                    /\ ScaleCommitment(c, share) \in Int
                    /\ Cong(ScaleCommitment(c, share), (c * ModInverse(SHARE_SCALE)) * share)
                    /\ Cong(ScaleCommitment(c, share) * SHARE_SCALE, c * share)
    OBVIOUS
<1>1. PICK w, i, m, z : /\ w = SHARE_SCALE /\ i = ModInverse(SHARE_SCALE)
                        /\ m = ModMul(c, share) /\ z = ScaleCommitment(c, share)
    OBVIOUS
<1>2. w \in Int /\ i \in Int /\ Cong(i * w, 1)
    BY <1>1, ModInverseIs, CommitmentAssumption
<1>3. m \in Int /\ Cong(m, c * share)
    BY <1>1, ModMulIs
<1>4. z = ModMul(m, i)
    BY <1>1 DEF ScaleCommitment
<1>5. z \in 0..(P - 1) /\ z \in Int /\ Cong(z, m * i)
    BY <1>2, <1>3, <1>4, ModMulIs
<1>6. PICK p : p = c * share
    OBVIOUS
<1>7. p \in Int /\ Cong(m, p) /\ m * i \in Int /\ p * i \in Int /\ p * i = (c * i) * share
    BY <1>2, <1>3, <1>6
<1>8. Cong(z, p * i)
    <2>1. Cong(m * i, p * i)
        BY <1>2, <1>3, <1>7, CongTimes
    <2> QED
        BY <2>1, <1>5, <1>7, CongTrans
<1>9. Cong(z * w, p)
    <2>1. PICK v, x, o : v = p * i /\ x = i * w /\ o = 1
        OBVIOUS
    <2>2. /\ v \in Int /\ x \in Int /\ o \in Int /\ Cong(x, o)
          /\ v * w = x * p /\ o * p = p /\ z * w \in Int /\ v * w \in Int
        BY <1>2, <1>5, <1>7, <2>1
    <2>3. Cong(z * w, v * w)
        BY <1>2, <1>5, <1>8, <2>1, <2>2, CongTimes
    <2>4. Cong(x * p, o * p)
        BY <1>7, <2>2, CongTimes
    <2> QED
        BY <1>7, <2>2, <2>3, <2>4, CongTrans
<1> QED
    BY <1>1, <1>5, <1>6, <1>7, <1>8, <1>9

-----------------------------------------------------------------------------
(* Commitments *)

LEMMA AddCommitmentsIs ==
    \A x, y \in 0..(P - 1) :
        /\ AddCommitments(x, y) \in 0..(P - 1) /\ AddCommitments(x, y) \in Int
        /\ Cong(AddCommitments(x, y), x + y)
BY ReduceIs, ResiduesFit DEF AddCommitments

LEMMA CommitIs ==
    \A v, r \in Int :
        /\ Commit(v, r) \in 0..(P - 1) /\ Commit(v, r) \in Int
        /\ Cong(Commit(v, r), v * G + r * H)
<1> SUFFICES ASSUME NEW v \in Int, NEW r \in Int
             PROVE  /\ Commit(v, r) \in 0..(P - 1) /\ Commit(v, r) \in Int
                    /\ Cong(Commit(v, r), v * G + r * H)
    OBVIOUS
<1>1. G \in Int /\ H \in Int
    BY DEF G, H
<1>2. PICK x, y : x = ModMul(v, G) /\ y = ModMul(r, H)
    OBVIOUS
<1>3. /\ x \in 0..(P - 1) /\ x \in Int /\ Cong(x, v * G)
      /\ y \in 0..(P - 1) /\ y \in Int /\ Cong(y, r * H)
    BY <1>1, <1>2, ModMulIs
<1>4. PICK s, t : s = v * G /\ t = r * H
    OBVIOUS
<1>5. s \in Int /\ t \in Int /\ x + y \in Int /\ s + t \in Int
    BY <1>1, <1>3, <1>4
<1>6. Cong(x + y, s + t)
    BY <1>3, <1>4, <1>5, CongAdd
<1>7. /\ AddCommitments(x, y) \in 0..(P - 1) /\ AddCommitments(x, y) \in Int
      /\ Cong(AddCommitments(x, y), x + y)
    BY <1>3, AddCommitmentsIs
<1> QED
    BY <1>2, <1>4, <1>5, <1>6, <1>7, CongTrans DEF Commit

LEMMA CommitmentsAdd ==
    \A v1, r1, v2, r2 \in Int :
        AddCommitments(Commit(v1, r1), Commit(v2, r2)) = Commit(v1 + v2, r1 + r2)
<1> SUFFICES ASSUME NEW v1 \in Int, NEW r1 \in Int, NEW v2 \in Int, NEW r2 \in Int
             PROVE  AddCommitments(Commit(v1, r1), Commit(v2, r2)) = Commit(v1 + v2, r1 + r2)
    OBVIOUS
<1>1. G \in Int /\ H \in Int /\ v1 + v2 \in Int /\ r1 + r2 \in Int
    BY DEF G, H
<1>2. PICK x, y, z : x = Commit(v1, r1) /\ y = Commit(v2, r2) /\ z = Commit(v1 + v2, r1 + r2)
    OBVIOUS
<1>3. PICK s, t, u : /\ s = v1 * G + r1 * H /\ t = v2 * G + r2 * H
                     /\ u = (v1 + v2) * G + (r1 + r2) * H
    OBVIOUS
<1>4. /\ x \in 0..(P - 1) /\ x \in Int /\ Cong(x, s)
      /\ y \in 0..(P - 1) /\ y \in Int /\ Cong(y, t)
      /\ z \in 0..(P - 1) /\ z \in Int /\ Cong(z, u)
    BY <1>1, <1>2, <1>3, CommitIs
<1>5. s \in Int /\ t \in Int /\ u \in Int /\ u = s + t /\ x + y \in Int
    BY <1>1, <1>3, <1>4
<1>6. PICK a : a = AddCommitments(x, y)
    OBVIOUS
<1>7. a \in 0..(P - 1) /\ a \in Int /\ Cong(a, x + y)
    BY <1>4, <1>6, AddCommitmentsIs
<1>8. Cong(x + y, u)
    BY <1>4, <1>5, CongAdd
<1>9. Cong(a, z)
    BY <1>4, <1>5, <1>7, <1>8, CongTrans, CongSym
<1> QED
    BY <1>2, <1>4, <1>6, <1>7, <1>9, CongUnique

\* verify accepts the openings of one class of v * G + r * H.
LEMMA VerifyIs ==
    \A v1, r1, v2, r2 \in Int :
        Verify(Commit(v1, r1), v2, r2) <=> ((v1 - v2) * G + (r1 - r2) * H) % P = 0
<1> SUFFICES ASSUME NEW v1 \in Int, NEW r1 \in Int, NEW v2 \in Int, NEW r2 \in Int
             PROVE  Verify(Commit(v1, r1), v2, r2)
                        <=> ((v1 - v2) * G + (r1 - r2) * H) % P = 0
    OBVIOUS
<1>1. G \in Int /\ H \in Int
    BY DEF G, H
<1>2. PICK x, y : x = Commit(v1, r1) /\ y = Commit(v2, r2)
    OBVIOUS
<1>3. PICK s, t : s = v1 * G + r1 * H /\ t = v2 * G + r2 * H
    OBVIOUS
<1>4. /\ x \in 0..(P - 1) /\ x \in Int /\ Cong(x, s)
      /\ y \in 0..(P - 1) /\ y \in Int /\ Cong(y, t)
    BY <1>2, <1>3, CommitIs
<1>5. s \in Int /\ t \in Int /\ (v1 - v2) * G + (r1 - r2) * H = s - t
    BY <1>1, <1>3
<1>6. Cong(x, y) <=> Cong(s, t)
    BY <1>4, <1>5, CongTrans, CongSym
<1>7. Cong(x, y) <=> y = x
    BY <1>4, CongUnique, CongRefl
<1>8. (s - t) % P = 0 <=> Cong(s, t)
    BY <1>5, DifferenceDivides
<1> QED
    BY <1>2, <1>5, <1>6, <1>7, <1>8 DEF Verify

-----------------------------------------------------------------------------
(* Sums of parts *)

\* The running totals of a list.
LEMMA SumPrefixes ==
    \A n \in Nat : \A f \in [1..n -> Int] : \E h \in [0..n -> Int] :
        /\ h[0] = 0 /\ h[n] = SumOver(f, 1..n)
        /\ \A k \in 1..n : h[k] = h[k - 1] + f[k]
<1> SUFFICES ASSUME NEW n \in Nat, NEW f \in [1..n -> Int]
             PROVE  \E h \in [0..n -> Int] :
                        /\ h[0] = 0 /\ h[n] = SumOver(f, 1..n)
                        /\ \A k \in 1..n : h[k] = h[k - 1] + f[k]
    OBVIOUS
<1>1. IsFiniteSet(1..n)
    BY FS_Interval
<1>2. PICK g \in [SUBSET (1..n) -> Int] :
        IsSum(f, g, 1..n) /\ SumOver(f, 1..n) = g[1..n] /\ SplitsAnywhere(f, g, 1..n)
    BY <1>1, SumSplits
<1> DEFINE h == [k \in 0..n |-> g[1..k]]
<1>3. h \in [0..n -> Int]
    <2>1. \A k \in 0..n : 1..k \in SUBSET (1..n)
        OBVIOUS
    <2> QED
        BY <2>1
<1>4. h[0] = 0
    <2>1. 1..0 = {} /\ {} \in SUBSET (1..n)
        OBVIOUS
    <2>2. g[{}] = 0
        BY <2>1, <1>2 DEF IsSum, SumStep
    <2> QED
        BY <2>1, <2>2
<1>5. h[n] = SumOver(f, 1..n)
    BY <1>2
<1>6. ASSUME NEW k \in 1..n PROVE h[k] = h[k - 1] + f[k]
    <2>1. 1..k \in SUBSET (1..n) /\ k \in 1..k /\ (1..k) \ {k} = 1..(k - 1)
        OBVIOUS
    <2>2. g[1..k] = f[k] + g[(1..k) \ {k}]
        BY <1>2, <2>1 DEF SplitsAnywhere
    <2>3. h[k] = g[1..k] /\ h[k - 1] = g[1..(k - 1)] /\ h[k - 1] \in Int /\ f[k] \in Int
        <3>1. k - 1 \in 0..n /\ k \in 0..n
            OBVIOUS
        <3> QED
            BY <1>3, <3>1
    <2>4. h[k] = f[k] + h[k - 1]
        BY <2>1, <2>2, <2>3, Zenon
    <2> HIDE DEF h
    <2> QED
        BY <2>3, <2>4
<1> QED
    BY <1>3, <1>4, <1>5, <1>6

\* Congruence to a multiple carries from the parts to their sum.
LEMMA SumCong ==
    \A n \in Nat : \A u \in Int : \A d, f \in [1..n -> Int] :
        (\A k \in 1..n : Cong(d[k], u * f[k])) =>
            /\ SumOver(d, 1..n) \in Int /\ SumOver(f, 1..n) \in Int
            /\ Cong(SumOver(d, 1..n), u * SumOver(f, 1..n))
<1> SUFFICES ASSUME NEW n \in Nat, NEW u \in Int,
                    NEW d \in [1..n -> Int], NEW f \in [1..n -> Int],
                    \A k \in 1..n : Cong(d[k], u * f[k])
             PROVE  /\ SumOver(d, 1..n) \in Int /\ SumOver(f, 1..n) \in Int
                    /\ Cong(SumOver(d, 1..n), u * SumOver(f, 1..n))
    OBVIOUS
<1>1. PICK a \in [0..n -> Int] : /\ a[0] = 0 /\ a[n] = SumOver(d, 1..n)
                                 /\ \A k \in 1..n : a[k] = a[k - 1] + d[k]
    BY SumPrefixes
<1>2. PICK b \in [0..n -> Int] : /\ b[0] = 0 /\ b[n] = SumOver(f, 1..n)
                                 /\ \A k \in 1..n : b[k] = b[k - 1] + f[k]
    BY SumPrefixes
<1> DEFINE S == {k \in Nat : k <= n => Cong(a[k], u * b[k])}
<1>3. 0 \in S
    <2>1. u * 0 = 0 /\ 0 \in Int
        OBVIOUS
    <2> QED
        BY <2>1, <1>1, <1>2, CongRefl
<1>4. ASSUME NEW k \in Nat, k \in S PROVE k + 1 \in S
    <2> SUFFICES ASSUME k + 1 <= n PROVE Cong(a[k + 1], u * b[k + 1])
        OBVIOUS
    <2>1. k + 1 \in 1..n /\ k \in 0..n /\ (k + 1) - 1 = k /\ k <= n
        OBVIOUS
    <2>2. PICK v, w, x, y : v = a[k] /\ w = b[k] /\ x = d[k + 1] /\ y = f[k + 1]
        OBVIOUS
    <2>3. v \in Int /\ w \in Int /\ x \in Int /\ y \in Int
        BY <2>1, <2>2
    <2>4. a[k + 1] = v + x /\ b[k + 1] = w + y
        BY <1>1, <1>2, <2>1, <2>2
    <2>5. Cong(v, u * w)
        BY <1>4, <2>1, <2>2
    <2>6. Cong(x, u * y)
        BY <2>1, <2>2
    <2>7. PICK s, t : s = u * w /\ t = u * y
        OBVIOUS
    <2>8. s \in Int /\ t \in Int /\ u * (w + y) = s + t
        BY <2>3, <2>7
    <2>9. Cong(v + x, s + t)
        BY <2>3, <2>5, <2>6, <2>7, <2>8, CongAdd
    <2> QED
        BY <2>4, <2>8, <2>9
<1>5. n \in S
    BY <1>3, <1>4, NatClosure
<1> QED
    BY <1>1, <1>2, <1>5

\* The loop of verify_split, with its running sum made explicit.
PartStep(ps, sum, k) ==
    IF k = 0 THEN 0
    ELSE IF sum[k - 1] = Trapped \/ sum[k - 1] + AsU128(ps[k]) > U_MAX THEN Trapped
    ELSE Reduce(sum[k - 1] + AsU128(ps[k]))

\* Of parts that are residues, verify_split computes the sum: it never traps.
LEMMA PartSumIs ==
    \A n \in Nat : \A ps \in [1..n -> 0..(P - 1)] : Len(ps) = n =>
        /\ SumOver(ps, 1..n) \in Int
        /\ PartSum(ps) = Residue(SumOver(ps, 1..n))
<1> SUFFICES ASSUME NEW n \in Nat, NEW ps \in [1..n -> 0..(P - 1)], Len(ps) = n
             PROVE  /\ SumOver(ps, 1..n) \in Int
                    /\ PartSum(ps) = Residue(SumOver(ps, 1..n))
    OBVIOUS
<1>1. ps \in [1..n -> Int]
    BY Widths
<1>2. PICK h \in [0..n -> Int] : /\ h[0] = 0 /\ h[n] = SumOver(ps, 1..n)
                                 /\ \A k \in 1..n : h[k] = h[k - 1] + ps[k]
    BY <1>1, SumPrefixes
<1>3. ASSUME NEW sum PROVE PartStep(ps, sum, 0) = Residue(h[0])
    <2>1. Residue(0) = 0
        BY Widths DEF Residue
    <2> QED
        BY <1>2, <2>1 DEF PartStep
<1>4. ASSUME NEW sum, NEW k \in 1..n, sum[k - 1] = Residue(h[k - 1])
      PROVE  PartStep(ps, sum, k) = Residue(h[k])
    <2>1. PICK v, x, r : v = h[k - 1] /\ x = ps[k] /\ r = Residue(v)
        OBVIOUS
    <2>2. v \in Int /\ x \in Int /\ x \in 0..(P - 1) /\ h[k] = v + x /\ v + x \in Int
        <3>1. k - 1 \in 0..n
            OBVIOUS
        <3> QED
            BY <3>1, <1>1, <1>2, <2>1
    <2>3. r \in 0..(P - 1) /\ r \in Int /\ Cong(r, v)
        BY <2>1, <2>2, ResidueOf
    <2>4. AsU128(x) = x
        BY <2>2 DEF AsU128
    <2>5. r + x \in 0..U_MAX /\ r + x \in Int
        BY <2>2, <2>3, ResiduesFit
    <2>6. r # Trapped /\ ~(r + x > U_MAX) /\ k # 0
        BY <2>3, <2>5, Widths DEF Trapped
    <2>7. PartStep(ps, sum, k) = Reduce(r + x)
        BY <1>4, <2>1, <2>4, <2>6 DEF PartStep
    <2>8. /\ Reduce(r + x) \in 0..(P - 1) /\ Reduce(r + x) \in Int
          /\ Cong(Reduce(r + x), r + x)
        BY <2>5, ReduceIs
    <2>9. Cong(r + x, v + x)
        BY <2>2, <2>3, CongRefl, CongAdd
    <2>10. /\ Residue(v + x) \in 0..(P - 1) /\ Residue(v + x) \in Int
           /\ Cong(v + x, Residue(v + x))
        BY <2>2, ResidueOf, CongSym
    <2>11. Cong(Reduce(r + x), Residue(v + x))
        BY <2>2, <2>5, <2>8, <2>9, <2>10, CongTrans
    <2> QED
        BY <2>2, <2>7, <2>8, <2>10, <2>11, CongUnique
<1> DEFINE z == [k \in 0..n |-> Residue(h[k])]
<1>5. z = [k \in 0..n |-> PartStep(ps, z, k)]
    <2>1. ASSUME NEW k \in 0..n PROVE z[k] = PartStep(ps, z, k)
        <3>1. CASE k = 0
            <4>1. z[0] = Residue(h[0])
                OBVIOUS
            <4> QED
                BY <3>1, <4>1, <1>3
        <3>2. CASE k # 0
            <4>1. k \in 1..n /\ k - 1 \in 0..n
                BY <3>2
            <4>2. z[k - 1] = Residue(h[k - 1]) /\ z[k] = Residue(h[k])
                BY <4>1
            <4> HIDE DEF z
            <4> QED
                BY <4>1, <4>2, <1>4
        <3> QED
            BY <3>1, <3>2
    <2> QED
        BY <2>1
<1> DEFINE sum == CHOOSE sum : sum =
        [k \in 0..Len(ps) |->
            IF k = 0 THEN 0
            ELSE IF sum[k - 1] = Trapped \/ sum[k - 1] + AsU128(ps[k]) > U_MAX THEN Trapped
            ELSE Reduce(sum[k - 1] + AsU128(ps[k]))]
<1>6. PartSum(ps) = sum[n]
    BY DEF PartSum
<1>7. sum = [k \in 0..n |-> PartStep(ps, sum, k)]
    <2>1. \E s : s = [k \in 0..Len(ps) |->
            IF k = 0 THEN 0
            ELSE IF s[k - 1] = Trapped \/ s[k - 1] + AsU128(ps[k]) > U_MAX THEN Trapped
            ELSE Reduce(s[k - 1] + AsU128(ps[k]))]
        BY <1>5 DEF PartStep
    <2> QED
        BY <2>1 DEF PartStep
<1> HIDE DEF sum, z
<1> DEFINE S == {k \in Nat : k <= n => sum[k] = Residue(h[k])}
<1>8. 0 \in S
    <2>1. sum[0] = 0 /\ Residue(h[0]) = 0
        BY <1>2, <1>7, Widths DEF PartStep, Residue
    <2> QED
        BY <2>1
<1>9. ASSUME NEW k \in Nat, k \in S PROVE k + 1 \in S
    <2> SUFFICES ASSUME k + 1 <= n PROVE sum[k + 1] = Residue(h[k + 1])
        OBVIOUS
    <2>1. k + 1 \in 1..n /\ k + 1 \in 0..n /\ (k + 1) - 1 = k /\ k <= n
        OBVIOUS
    <2>2. sum[(k + 1) - 1] = Residue(h[(k + 1) - 1])
        BY <1>9, <2>1
    <2>3. PartStep(ps, sum, k + 1) = Residue(h[k + 1])
        BY <2>1, <2>2, <1>4
    <2> QED
        BY <2>1, <2>3, <1>7
<1>10. n \in S
    BY <1>8, <1>9, NatClosure
<1> QED
    BY <1>2, <1>6, <1>10

\* verify_split accepts parts that are residues exactly when they sum to the
\* commitment modulo P.
LEMMA VerifySplitIs ==
    \A n \in Nat : \A ps \in [1..n -> 0..(P - 1)] : \A c \in Int : Len(ps) = n =>
        (VerifySplit(ps, c) <=> Cong(SumOver(ps, 1..n), c))
<1> SUFFICES ASSUME NEW n \in Nat, NEW ps \in [1..n -> 0..(P - 1)], NEW c \in Int, Len(ps) = n
             PROVE  VerifySplit(ps, c) <=> Cong(SumOver(ps, 1..n), c)
    OBVIOUS
<1>1. PICK s : s = SumOver(ps, 1..n)
    OBVIOUS
<1>2. s \in Int /\ PartSum(ps) = Residue(s)
    BY <1>1, PartSumIs
<1>3. Residue(s) = Residue(c) <=> Cong(s, c)
    BY <1>2, ResidueEqual
<1> QED
    BY <1>1, <1>2, <1>3 DEF VerifySplit

-----------------------------------------------------------------------------
(* The specification *)

\* Parts that are no forgery are those of a split that passed its checks.
SplitOf(s) ==
    /\ s \in Seq(I128)
    /\ ValidShares(s)
    /\ Invertible(SHARE_SCALE)
    /\ parts = [k \in DOMAIN s |-> ScaleCommitment(total, s[k])]

CommitInv ==
    /\ total \in I128
    /\ parts \in Seq(I128)
    /\ shares # <<>> => SplitOf(shares)

LEMMA IntsOf == I128 \subseteq Int /\ 0..(P - 1) \subseteq I128
BY Widths DEF I128

LEMMA ListsOf ==
    \A s \in Seq(I128) :
        /\ Len(s) \in Nat /\ DOMAIN s = 1..Len(s) /\ s \in [1..Len(s) -> Int]
        /\ \A k \in DOMAIN s : s[k] \in Int
<1> SUFFICES ASSUME NEW s \in Seq(I128)
             PROVE  /\ Len(s) \in Nat /\ DOMAIN s = 1..Len(s) /\ s \in [1..Len(s) -> Int]
                    /\ \A k \in DOMAIN s : s[k] \in Int
    OBVIOUS
<1>1. Len(s) \in Nat /\ DOMAIN s = 1..Len(s) /\ s \in [1..Len(s) -> I128]
    OBVIOUS
<1>2. I128 \subseteq Int
    BY IntsOf
<1>3. \A k \in 1..Len(s) : s[k] \in Int
    BY <1>1, <1>2
<1>4. s = [k \in 1..Len(s) |-> s[k]]
    BY <1>1
<1>5. s \in [1..Len(s) -> Int]
    BY <1>3, <1>4
<1> QED
    BY <1>1, <1>3, <1>5

LEMMA InitCommits == CommitInit => CommitInv
BY CommitmentAssumption DEF CommitInit, CommitInv

LEMMA SplitCommits ==
    \A s \in Shares : CommitInv /\ SplitCommitment(s) => CommitInv'
<1> SUFFICES ASSUME NEW s \in Shares, CommitInv, SplitCommitment(s) PROVE CommitInv'
    OBVIOUS
<1>1. s \in Seq(I128) /\ ValidShares(s) /\ Invertible(SHARE_SCALE)
    BY CommitmentAssumption DEF SplitCommitment
<1>2. /\ shares' = s /\ total' = total /\ total \in I128
      /\ parts' = [k \in DOMAIN s |-> ScaleCommitment(total, s[k])]
    BY DEF SplitCommitment, CommitInv
<1>3. SplitOf(shares)'
    BY <1>1, <1>2 DEF SplitOf
<1>4. parts' \in Seq(I128)
    <2>1. ASSUME NEW k \in DOMAIN s PROVE ScaleCommitment(total, s[k]) \in I128
        <3>1. total \in Int /\ s[k] \in Int
            BY <1>1, <1>2, IntsOf, ListsOf
        <3> QED
            BY <3>1, <1>1, ScaleCommitmentIs, IntsOf
    <2>2. PICK n \in Nat : DOMAIN s = 1..n
        BY <1>1
    <2>3. parts' \in [1..n -> I128]
        BY <1>2, <2>1, <2>2
    <2> QED
        BY <2>3
<1> QED
    BY <1>2, <1>3, <1>4 DEF CommitInv

LEMMA ReplaceCommits ==
    \A part \in Forgeries : \A k \in DOMAIN parts :
        CommitInv /\ Replace(k, part) => CommitInv'
<1> SUFFICES ASSUME NEW part \in Forgeries, NEW k \in DOMAIN parts, CommitInv, Replace(k, part)
             PROVE  CommitInv'
    OBVIOUS
<1>1. part \in I128 /\ parts \in Seq(I128) /\ total \in I128
    BY CommitmentAssumption DEF CommitInv
<1>2. parts' = [parts EXCEPT ![k] = part] /\ shares' = <<>> /\ total' = total
    BY DEF Replace
<1>3. parts' \in Seq(I128)
    BY <1>1, <1>2
<1> QED
    BY <1>1, <1>2, <1>3 DEF CommitInv

\* The parts are those of a split that passed its checks, until one is replaced.
THEOREM CommitInvariant == CommitSpec => []CommitInv
<1>1. CommitInv /\ [CommitNext]_commit_vars => CommitInv'
    <2> SUFFICES ASSUME CommitInv, [CommitNext]_commit_vars PROVE CommitInv'
        OBVIOUS
    <2>1. CASE \E s \in Shares : SplitCommitment(s)
        BY <2>1, SplitCommits
    <2>2. CASE \E k \in DOMAIN parts, part \in Forgeries : Replace(k, part)
        BY <2>2, ReplaceCommits
    <2>3. CASE UNCHANGED commit_vars
        BY <2>3 DEF CommitInv, SplitOf, commit_vars
    <2> QED
        BY <2>1, <2>2, <2>3 DEF CommitNext
<1> QED
    BY <1>1, InitCommits, PTL DEF CommitSpec

LEMMA InvPartsAreShares == CommitInv => PartsAreShares
<1> SUFFICES ASSUME CommitInv, NEW k \in DOMAIN shares
             PROVE  /\ parts[k] \in 0..(P - 1)
                    /\ (parts[k] * SHARE_SCALE - total * shares[k]) % P = 0
                    /\ FitU128(Products(Residue(total), Residue(shares[k])))
                    /\ FitU128(Folds(Residue(total), Residue(shares[k])))
    BY DEF PartsAreShares
<1>1. shares # <<>>
    OBVIOUS
<1>2. SplitOf(shares) /\ total \in Int
    BY <1>1, IntsOf DEF CommitInv
<1>3. /\ shares[k] \in Int /\ Invertible(SHARE_SCALE)
      /\ parts[k] = ScaleCommitment(total, shares[k])
    <2>1. shares \in Seq(I128) /\ Invertible(SHARE_SCALE)
        BY <1>2 DEF SplitOf
    <2>2. parts[k] = ScaleCommitment(total, shares[k])
        BY <1>2 DEF SplitOf
    <2> QED
        BY <2>1, <2>2, ListsOf
<1>4. PICK c, w, z : c = shares[k] /\ w = SHARE_SCALE /\ z = parts[k]
    OBVIOUS
<1>5. /\ c \in Int /\ w \in Int /\ z \in 0..(P - 1) /\ z \in Int
      /\ Cong(z * w, total * c)
    <2>1. c \in Int /\ w \in Int /\ z = ScaleCommitment(total, c) /\ Invertible(SHARE_SCALE)
        BY <1>3, <1>4, CommitmentAssumption
    <2>2. z \in 0..(P - 1) /\ z \in Int /\ Cong(z * SHARE_SCALE, total * c)
        BY <1>2, <2>1, ScaleCommitmentIs
    <2> QED
        BY <1>4, <2>1, <2>2
<1>6. (z * w - total * c) % P = 0
    <2>1. PICK x, y : x = z * w /\ y = total * c
        OBVIOUS
    <2>2. x \in Int /\ y \in Int
        BY <1>2, <1>5, <2>1
    <2> QED
        BY <1>5, <2>1, <2>2, DifferenceDivides
<1>7. /\ FitU128(Products(Residue(total), Residue(c)))
      /\ FitU128(Folds(Residue(total), Residue(c)))
    BY <1>2, <1>5, ResidueOf, FoldsAre
<1> QED
    BY <1>4, <1>5, <1>6, <1>7

\* split_commitment never traps and each part is the one residue that, times
\* the scale, is the total times its share.
THEOREM SplitsAreExact == CommitSpec => []PartsAreShares
BY CommitInvariant, InvPartsAreShares, PTL

\* What was split adds up again.
LEMMA SplitVerifies == CommitInv /\ shares # <<>> => VerifySplit(parts, total)
<1> SUFFICES ASSUME CommitInv, shares # <<>> PROVE VerifySplit(parts, total)
    OBVIOUS
<1>1. SplitOf(shares) /\ total \in Int
    BY IntsOf DEF CommitInv
<1>2. PICK s, w, i : s = shares /\ w = SHARE_SCALE /\ i = ModInverse(SHARE_SCALE)
    OBVIOUS
<1>3. /\ s \in Seq(I128) /\ SumOver(s, DOMAIN s) = w /\ Invertible(w)
      /\ parts = [k \in DOMAIN s |-> ScaleCommitment(total, s[k])]
    BY <1>1, <1>2 DEF SplitOf, ValidShares
<1>4. w \in Int /\ i \in Int /\ Cong(i * w, 1)
    BY <1>2, <1>3, ModInverseIs, CommitmentAssumption
<1>5. PICK n \in Nat : DOMAIN s = 1..n /\ s \in [1..n -> Int]
    <2>1. s \in [1..Len(s) -> Int] /\ Len(s) \in Nat /\ DOMAIN s = 1..Len(s)
        BY <1>3, ListsOf
    <2> QED
        BY <2>1
<1>6. PICK u : u = total * i
    OBVIOUS
<1>7. u \in Int
    BY <1>1, <1>4, <1>6
<1>8. ASSUME NEW k \in 1..n PROVE parts[k] \in 0..(P - 1) /\ Cong(parts[k], u * s[k])
    <2>1. s[k] \in Int /\ parts[k] = ScaleCommitment(total, s[k])
        BY <1>3, <1>5
    <2> QED
        BY <2>1, <1>1, <1>2, <1>3, <1>6, ScaleCommitmentIs
<1>9. parts \in [1..n -> 0..(P - 1)] /\ parts \in [1..n -> Int] /\ Len(parts) = n
    <2>1. DOMAIN parts = 1..n /\ parts = [k \in 1..n |-> parts[k]]
        BY <1>3, <1>5
    <2>2. parts \in [1..n -> 0..(P - 1)]
        BY <2>1, <1>8
    <2> QED
        BY <2>1, <2>2, Widths
<1>10. PICK p : p = SumOver(parts, 1..n)
    OBVIOUS
<1>11. p \in Int /\ Cong(p, u * w)
    BY <1>3, <1>5, <1>7, <1>8, <1>9, <1>10, SumCong
<1>12. Cong(u * w, total)
    <2>1. PICK x, o : x = i * w /\ o = 1
        OBVIOUS
    <2>2. /\ x \in Int /\ o \in Int /\ Cong(x, o)
          /\ x * total = u * w /\ o * total = total
        BY <1>1, <1>4, <1>6, <2>1
    <2>3. Cong(x * total, o * total)
        BY <1>1, <2>2, CongTimes
    <2> QED
        BY <2>2, <2>3
<1>13. Cong(p, total)
    BY <1>1, <1>4, <1>7, <1>11, <1>12, CongTrans
<1> QED
    BY <1>1, <1>9, <1>10, <1>13, VerifySplitIs

LEMMA InvOpeningsAdd == CommitInv => OpeningsAdd
<1> SUFFICES ASSUME CommitInv PROVE OpeningsAdd
    OBVIOUS
<1>1. total \in Int /\ \A v \in Openings : v \in Int
    BY CommitmentAssumption, IntsOf DEF CommitInv
<1>2. shares # <<>> => VerifySplit(parts, total)
    BY SplitVerifies
<1>3. ASSUME NEW r1 \in Openings, NEW v2 \in Openings, NEW r2 \in Openings
      PROVE  /\ AddCommitments(Commit(total, r1), Commit(v2, r2)) = Commit(total + v2, r1 + r2)
             /\ Verify(Commit(total, r1), v2, r2)
                    <=> ((total - v2) * G + (r1 - r2) * H) % P = 0
    <2>1. total \in Int /\ r1 \in Int /\ v2 \in Int /\ r2 \in Int
        BY <1>1
    <2>2. AddCommitments(Commit(total, r1), Commit(v2, r2)) = Commit(total + v2, r1 + r2)
        BY <2>1, CommitmentsAdd
    <2>3. Verify(Commit(total, r1), v2, r2)
              <=> ((total - v2) * G + (r1 - r2) * H) % P = 0
        BY <2>1, VerifyIs
    <2> QED
        BY <2>2, <2>3
<1> QED
    BY <1>2, <1>3 DEF OpeningsAdd

\* The parts of a split verify, commitments add as their openings do, and verify
\* accepts the openings of the same residue and no others.
THEOREM CommitmentsOpenToSums == CommitSpec => []OpeningsAdd
BY CommitInvariant, InvOpeningsAdd, PTL

LEMMA InvAcceptsExactly == CommitInv => AcceptsExactly
<1> SUFFICES ASSUME CommitInv, \A k \in DOMAIN parts : parts[k] \in 0..(P - 1)
             PROVE  VerifySplit(parts, total)
                        <=> (SumOver(parts, DOMAIN parts) - total) % P = 0
    BY DEF AcceptsExactly
<1>1. total \in Int /\ parts \in Seq(I128)
    BY IntsOf DEF CommitInv
<1>2. PICK n : n = Len(parts)
    OBVIOUS
<1>3. n \in Nat /\ DOMAIN parts = 1..n /\ parts \in [1..n -> 0..(P - 1)]
    BY <1>1, <1>2
<1>4. PICK s : s = SumOver(parts, 1..n)
    OBVIOUS
<1>5. s \in Int
    BY <1>2, <1>3, <1>4, PartSumIs
<1>6. VerifySplit(parts, total) <=> Cong(s, total)
    BY <1>1, <1>2, <1>3, <1>4, VerifySplitIs
<1>7. (s - total) % P = 0 <=> Cong(s, total)
    BY <1>1, <1>5, DifferenceDivides
<1> QED
    BY <1>3, <1>4, <1>6, <1>7

\* verify_split accepts parts that are residues when they sum to the total modulo P,
\* and no others: it neither traps on them nor loses a carry.
THEOREM VerificationIsExact == CommitSpec => []AcceptsExactly
BY CommitInvariant, InvAcceptsExactly, PTL
=============================================================================
