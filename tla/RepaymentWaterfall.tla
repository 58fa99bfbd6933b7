-------------------------- MODULE RepaymentWaterfall --------------------------
(***************************************************************************)
(* The RepaymentWaterfall contract and the pool it reports to: repayments  *)
(* forwarded to the pool's apply_reserve_delta, whole or in priority       *)
(* order, defaults charged to it after a grace period, and the circuit     *)
(* breaker that a surge of recorded defaults trips.  A call that the pool  *)
(* refuses reverts with everything it wrote.                               *)
(*                                                                         *)
(* The pool starts with one deposit, as in the contract's tests, and       *)
(* nobody else calls it: InvoiceLift has the pool's other callers.  The    *)
(* upgrade entrypoints are UpgradeQueue, split_commitment and verify_split *)
(* Commitments.                                                            *)
(***************************************************************************)
EXTENDS PoolLedger, Sums, FiniteSets

CONSTANTS
    Invoice,
    CIRCUIT_BREAKER_WINDOW_SECS,    \* 86_400 in the code
    U64_MAX,                        \* largest u64 value
    MaxUtil, Seed,                  \* the pool's ceiling and its one deposit
    Amounts, Dues, Losses, Volumes, Thresholds, GracePeriods, DueDates,   \* inputs
    NotMarked, NoRecord,            \* absent keys
    MaxReceived, MaxVolume, MaxTime \* bounds

ASSUME WaterfallAssumption ==
    /\ IsFiniteSet(Invoice)
    /\ CIRCUIT_BREAKER_WINDOW_SECS \in Nat \ {0} /\ U64_MAX \in Nat
    /\ MaxUtil \in Nat /\ Seed \in Nat \ {0}
    /\ MayDeposit(Initialized(MaxUtil), Seed)
    /\ Amounts \subseteq Int /\ Dues \subseteq Int /\ Losses \subseteq Int
    /\ Volumes \subseteq Int /\ Thresholds \subseteq Int
    /\ GracePeriods \subseteq Nat /\ DueDates \subseteq Nat
    /\ NoRecord \notin [window_start : Nat, volume : Nat]
    /\ MaxReceived \in Nat /\ MaxVolume \in Nat /\ MaxTime \in Nat

VARIABLES
    pool,               \* the ledger of the pool at POOL_MANAGER
    initialized,        \* whether ADMIN and POOL_MANAGER are set
    grace_secs,         \* GRACE_SECS
    due,                \* InvoiceDueKey(DUE_TAG, i)
    defaulted,          \* who has InvoiceDefaultedKey(DEFAULT_TAG, i)
    record,             \* DEFAULT_RECORD
    cb_threshold,       \* CB_THRESHOLD, 0 when unset
    cb_active,          \* CB_ACTIVE
    received, fees,     \* history: paid by buyers, kept as protocol fees
    charged,            \* history: loss charged for each invoice
    watched,            \* history: volume recorded n seconds ago under a threshold,
                        \* since processing was last resumed
    in_force,           \* history: highest threshold in force n seconds ago
    now                 \* ledger timestamp

money == <<pool, received, fees>>
delinquency == <<grace_secs, due, defaulted, charged>>
breaker == <<record, cb_threshold, cb_active, watched, in_force>>
vars == <<money, initialized, delinquency, breaker, now>>

DefaultRecord == [window_start : Nat, volume : Nat]

Window == 0..(CIRCUIT_BREAKER_WINDOW_SECS - 1)
Quiet == [n \in Window |-> 0]
SecondLater(h, first) == [n \in Window |-> IF n = 0 THEN first ELSE h[n - 1]]

InitWaterfall ==
    /\ initialized = FALSE
    /\ grace_secs = 0
    /\ due = [i \in Invoice |-> NotMarked]
    /\ defaulted = {}
    /\ record = NoRecord
    /\ cb_threshold = 0
    /\ cb_active = FALSE
    /\ received = 0 /\ fees = 0
    /\ charged = [i \in Invoice |-> 0]
    /\ watched = Quiet /\ in_force = Quiet
    /\ now = 0

Init ==
    /\ pool = AfterDeposit(Initialized(MaxUtil), Seed)
    /\ InitWaterfall

Initialize ==
    /\ ~initialized
    /\ initialized' = TRUE
    /\ UNCHANGED <<money, delinquency, breaker, now>>

-----------------------------------------------------------------------------
(* Repayments *)

NotPaused == ~cb_active

ProcessRepayment(amount) ==
    /\ NotPaused
    /\ amount > 0
    /\ initialized
    /\ MayApplyReserveDelta(pool, amount)
    /\ received + amount <= MaxReceived
    /\ pool' = AfterReserveDelta(pool, amount)
    /\ received' = received + amount
    /\ UNCHANGED <<fees, initialized, delinquency, breaker, now>>

Smaller(x, y) == IF x <= y THEN x ELSE y

\* RepaymentBreakdown: each bucket is paid up to its due before the next.
Breakdown(amount, principal_due, fee_due, reserve_due) ==
    LET principal == Smaller(amount, principal_due)
        fee       == Smaller(amount - principal, fee_due)
        reserve   == Smaller(amount - principal - fee, reserve_due)
    IN [principal_paid |-> principal, fee_paid |-> fee, reserve_paid |-> reserve,
        lender_yield_paid |-> amount - principal - fee - reserve]

ToPoolAndFee(b) == b.principal_paid + b.fee_paid + b.reserve_paid + b.lender_yield_paid
ToPool(b) == b.principal_paid + b.reserve_paid + b.lender_yield_paid

ProcessRepaymentWaterfall(amount, principal_due, fee_due, reserve_due) ==
    /\ NotPaused
    /\ amount > 0
    /\ principal_due >= 0 /\ fee_due >= 0 /\ reserve_due >= 0
    /\ initialized
    /\ received + amount <= MaxReceived
    /\ LET b == Breakdown(amount, principal_due, fee_due, reserve_due)
       IN /\ ToPool(b) > 0 => MayApplyReserveDelta(pool, ToPool(b))
          /\ pool' = IF ToPool(b) > 0 THEN AfterReserveDelta(pool, ToPool(b)) ELSE pool
          /\ fees' = fees + b.fee_paid
    /\ received' = received + amount
    /\ UNCHANGED <<initialized, delinquency, breaker, now>>

-----------------------------------------------------------------------------
(* Delinquency: anyone may call these. *)

SetGracePeriod(secs) ==
    /\ grace_secs' = secs
    /\ UNCHANGED <<money, initialized, due, defaulted, charged, breaker, now>>

MarkInvoiceDue(i, due_at) ==
    /\ due' = [due EXCEPT ![i] = due_at]
    /\ UNCHANGED <<money, initialized, grace_secs, defaulted, charged, breaker, now>>

Delinquent(i) ==
    /\ due[i] # NotMarked
    /\ due[i] + grace_secs <= U64_MAX
    /\ now >= due[i] + grace_secs

DefaultableAgain(i) == Delinquent(i)
Defaultable(i) == Delinquent(i) /\ i \notin defaulted

WithoutMark(i) == defaulted
WithMark(i) == defaulted \cup {i}

DeclareDefault(i, loss_amount) ==
    /\ loss_amount > 0
    /\ Defaultable(i)
    /\ initialized
    /\ MayApplyReserveDelta(pool, -loss_amount)
    /\ pool' = AfterReserveDelta(pool, -loss_amount)
    /\ defaulted' = WithMark(i)
    /\ charged' = [charged EXCEPT ![i] = @ + loss_amount]
    /\ UNCHANGED <<received, fees, initialized, grace_secs, due, breaker, now>>

-----------------------------------------------------------------------------
(* Circuit breaker *)

Recorded(amount) ==
    IF record = NoRecord THEN [window_start |-> now, volume |-> amount]
    ELSE IF now - record.window_start >= CIRCUIT_BREAKER_WINDOW_SECS
    THEN [window_start |-> now, volume |-> amount]
    ELSE [record EXCEPT !.volume = @ + amount]

TripsAbove(volume) == cb_threshold > 0 /\ volume > cb_threshold
Trips(volume) == cb_threshold > 0 /\ volume >= cb_threshold

\* Anyone may call it; declare_default does not.
RecordDefault(amount) ==
    /\ amount > 0
    /\ Recorded(amount).volume <= MaxVolume
    /\ record' = Recorded(amount)
    /\ cb_active' = (cb_active \/ Trips(record'.volume))
    /\ watched' = IF cb_threshold > 0 THEN [watched EXCEPT ![0] = @ + amount] ELSE watched
    /\ UNCHANGED <<money, initialized, delinquency, cb_threshold, in_force, now>>

\* Authorized by the admin.  It reads neither the record nor the flag: a lower
\* threshold takes effect at the next default.
SetCircuitBreakerThreshold(threshold) ==
    /\ initialized
    /\ threshold > 0
    /\ cb_threshold' = threshold
    /\ in_force' = [in_force EXCEPT ![0] = IF @ < threshold THEN threshold ELSE @]
    /\ UNCHANGED <<money, initialized, delinquency, record, cb_active, watched, now>>

\* Authorized by the admin.
ResumeProcessing ==
    /\ initialized
    /\ cb_active' = FALSE
    /\ record' = [window_start |-> now, volume |-> 0]
    /\ watched' = Quiet
    /\ UNCHANGED <<money, initialized, delinquency, cb_threshold, in_force, now>>

Tick ==
    /\ now < MaxTime
    /\ now' = now + 1
    /\ watched' = SecondLater(watched, 0)
    /\ in_force' = SecondLater(in_force, cb_threshold)
    /\ UNCHANGED <<money, initialized, delinquency, record, cb_threshold, cb_active>>

Next ==
    \/ Initialize
    \/ \E a \in Amounts : ProcessRepayment(a)
    \/ \E a \in Amounts, p, f, r \in Dues : ProcessRepaymentWaterfall(a, p, f, r)
    \/ \E secs \in GracePeriods : SetGracePeriod(secs)
    \/ \E i \in Invoice, t \in DueDates : MarkInvoiceDue(i, t)
    \/ \E i \in Invoice, loss \in Losses : DeclareDefault(i, loss)
    \/ \E a \in Volumes : RecordDefault(a)
    \/ \E t \in Thresholds : SetCircuitBreakerThreshold(t)
    \/ ResumeProcessing
    \/ Tick

Spec == Init /\ [][Next]_vars

-----------------------------------------------------------------------------
(* Properties *)

\* Every key holds a value of its type, and the pool's ledger stays sound under
\* whatever the waterfall asks of it.
TypeOK ==
    /\ SoundLedger(pool)
    /\ initialized \in BOOLEAN /\ cb_active \in BOOLEAN
    /\ grace_secs \in Nat /\ now \in Nat
    /\ due \in [Invoice -> Nat \cup {NotMarked}]
    /\ defaulted \subseteq Invoice
    /\ record \in DefaultRecord \cup {NoRecord}
    /\ record # NoRecord => record.window_start <= now
    /\ cb_threshold \in Nat
    /\ received \in Nat /\ fees \in Nat
    /\ charged \in [Invoice -> Nat]
    /\ watched \in [Window -> Nat] /\ in_force \in [Window -> Nat]

\* No money is made or lost between the buyers and the pool: its capital is the
\* deposit, plus every repayment less the protocol fees, less every loss.
PoolGetsWhatIsPaid ==
    pool.total_capital = Seed + received - fees - SumOver(charged, Invoice)

\* An invoice is charged to the pool if and only if it is marked as defaulted:
\* neither a refused charge nor a second declaration leaves the two apart.
DefaultedIffCharged == \A i \in Invoice : i \in defaulted <=> charged[i] > 0

\* The lenders bear the loss of an invoice once, when its due date and the
\* grace period have passed, whatever else is called in between.
ChargedOnceWhenDelinquent ==
    [][\A i \in Invoice : charged'[i] # charged[i] =>
        /\ charged[i] = 0
        /\ due[i] # NotMarked /\ now >= due[i] + grace_secs]_vars

\* What an untripped breaker bounds.  A default window starts afresh, so the
\* defaults of 24 hours may reach the threshold unnoticed; but as two windows
\* cover any 24 hours, they stay below twice the highest threshold in force
\* meanwhile, wherever the admin raised or lowered it.  Counted is what was
\* recorded under a threshold and since processing was last resumed.
SurgeIsBounded ==
    ~cb_active /\ cb_threshold > 0 =>
        \E n \in Window : SumOver(watched, Window) <= 2 * (in_force[n] - 1)
==============================================================================
