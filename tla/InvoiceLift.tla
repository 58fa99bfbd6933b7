----------------------------- MODULE InvoiceLift -----------------------------
(***************************************************************************)
(* The deployment of tests/integration.rs: one InvoiceRegistry, one        *)
(* PoolManager and one RepaymentWaterfall on one ledger clock.  Two calls  *)
(* cross a contract boundary: the pool's finance_invoice ends with the     *)
(* registry's assign, and the waterfall's three money calls end with the   *)
(* pool's apply_reserve_delta.  The host runs each as one invocation: if   *)
(* the callee fails, what the caller wrote is reverted with it.            *)
(*                                                                         *)
(* Each action is an action of one component, or the conjunction of the    *)
(* two that the invocation joins, and leaves the rest alone.  Kept are the *)
(* calls that lead money or an invoice from one contract to another;       *)
(* set_nav, which revalues a pool without any money, and what waits for a  *)
(* later ledger (locks, timelocks, deadlines, windows), and the freezing   *)
(* of invoices stay with the modules of the components: here the clock     *)
(* stands still.                                                           *)
(* Other pools are callers of the registry under a tag of their own.  And  *)
(* finance_invoice takes the registry's address from its caller, whom      *)
(* nobody authenticates: a call may name another contract instead.         *)
(***************************************************************************)
EXTENDS PoolManager

CONSTANTS
    Id, Party, Commitment, DueDate, NoAdmin, NoInvoice, NoTerms, Unowned,  \* InvoiceRegistry
    CIRCUIT_BREAKER_WINDOW_SECS, U64_MAX, Dues, Losses, Volumes,           \* RepaymentWaterfall
    Thresholds, GracePeriods, DueDates, NotMarked, NoRecord,
    MaxReceived, MaxVolume,
    PoolTag,            \* the admin tag of the pool, under which it owns invoices
    Loans,              \* amounts financed
    Payments,           \* amounts repaid
    MaxPaidIn,          \* bound on what lenders pay in
    MaxElsewhere        \* bound on what is lent to a buyer and an SME elsewhere

VARIABLES
    registry_admin, invoices, terms, verifiers,     \* InvoiceRegistry
    initialized, grace_secs, due, defaulted, record, cb_threshold, cb_active,
    received, fees, charged, watched, in_force,     \* RepaymentWaterfall
    loans,              \* history: the loans finance_invoice made through this registry
    elsewhere,          \* history: lent to a buyer and an SME through any other contract
    paid_in             \* history: cash deposited less cash withdrawn

Registry == INSTANCE InvoiceRegistry WITH admin <- registry_admin
Waterfall == INSTANCE RepaymentWaterfall WITH
    Invoice <- Id, Amounts <- Payments, MaxUtil <- BPS_SCALE, Seed <- 1

\* An instance does not bring its module's assumptions: these are the ones on
\* which the composition rests.
ASSUME LiftAssumption ==
    /\ IsFiniteSet(Id) /\ PoolTag \in Party
    /\ Loans \subseteq Int /\ Payments \subseteq Int /\ Dues \subseteq Int /\ Losses \subseteq Int
    /\ NoInvoice \notin Registry!CommittedInvoice
    /\ MaxPaidIn \in Nat /\ MaxElsewhere \in Nat

poolOnly == <<lenderVars, exposureVars, configVars, timelockVars>>
registryVars == <<registry_admin, invoices, terms, verifiers>>
waterfallVars == <<initialized, grace_secs, due, defaulted, record, cb_threshold,
                   cb_active, received, fees, charged, watched, in_force>>
history == <<loans, elsewhere, paid_in>>
liftVars == <<vars, registryVars, waterfallVars, history>>

\* Deployed and not initialized, each on its own.
LiftInit ==
    /\ Init
    /\ Registry!Init
    /\ Waterfall!InitWaterfall
    /\ loans = {}
    /\ elsewhere = [b \in Buyer |-> [s \in Sme |-> 0]]
    /\ paid_in = 0

-----------------------------------------------------------------------------
(* Calls that end in the contract they reach *)

PoolCall ==
    /\ \/ \E mu \in MaxUtils : Initialize(mu)
       \/ \E bb, sb \in ConcentrationLimits : SetConcentrationLimits(bb, sb)
       \/ \E a \in Loans : Finance(a)
    /\ UNCHANGED <<registryVars, waterfallVars, history>>

PayIn(l, amount) ==
    /\ Deposit(l, amount)
    /\ paid_in + amount <= MaxPaidIn
    /\ paid_in' = paid_in + amount
    /\ UNCHANGED <<registryVars, waterfallVars, loans, elsewhere>>

PayOut(l, count) ==
    /\ Withdraw(l, count)
    /\ paid_in' = paid_in - CapitalAt(count, pool.nav)
    /\ UNCHANGED <<registryVars, waterfallVars, loans, elsewhere>>

RegistryCall ==
    /\ \/ \E p \in Party : Registry!Initialize(p)
       \/ \E i \in Id :
            \/ \E c \in Commitment, p \in Party : Registry!Register(i, c, p)
            \/ \E p \in Party : Registry!AssignInvoice(i, p)
            \/ \E caller \in Party :
                 \/ Registry!Approve(caller, i)
                 \/ \E p \in Party : Registry!Assign(caller, i, p)
                 \/ Registry!MarkRepaid(caller, i)
    /\ UNCHANGED <<pool, poolOnly, waterfallVars, history>>

-----------------------------------------------------------------------------
(* Calls that go on to another contract *)

\* The registry takes the caller the pool names for its admin, and the pool's
\* tag for the owner; neither contract looks at what the other knows of the
\* invoice: its terms, its amount, an earlier loan.
FinanceAndAssign(b, s, i, amount, caller) ==
    /\ FinanceInvoice(b, s, amount)
    /\ Registry!Assign(caller, i, PoolTag)
    /\ loans' = loans \cup {[invoice |-> i, buyer |-> b, sme |-> s, amount |-> amount]}
    /\ UNCHANGED <<waterfallVars, elsewhere, paid_in>>

\* The contract the caller names need not be this registry, only answer assign.
\* It cannot call the pool back; what it may call on the others, anyone may.
FinanceElsewhere(b, s, amount) ==
    /\ FinanceInvoice(b, s, amount)
    /\ elsewhere[b][s] + amount <= MaxElsewhere
    /\ elsewhere' = [elsewhere EXCEPT ![b][s] = @ + amount]
    /\ UNCHANGED <<registryVars, waterfallVars, loans, paid_in>>

RepayPool ==
    /\ \/ Waterfall!Initialize
       \/ \E a \in Payments : Waterfall!ProcessRepayment(a)
       \/ \E a \in Payments, p, f, r \in Dues : Waterfall!ProcessRepaymentWaterfall(a, p, f, r)
       \/ \E i \in Id, t \in DueDates : Waterfall!MarkInvoiceDue(i, t)
       \/ \E i \in Id, loss \in Losses : Waterfall!DeclareDefault(i, loss)
    /\ UNCHANGED <<poolOnly, registryVars, history>>

LiftNext ==
    \/ PoolCall
    \/ \E l \in Lender, a \in Amounts : PayIn(l, a)
    \/ \E l \in Lender, n \in ShareCounts : PayOut(l, n)
    \/ RegistryCall
    \/ \E b \in Buyer, s \in Sme, i \in Id, a \in Loans, caller \in Party :
         FinanceAndAssign(b, s, i, a, caller)
    \/ \E b \in Buyer, s \in Sme, a \in Loans : FinanceElsewhere(b, s, a)
    \/ RepayPool

LiftSpec == LiftInit /\ [][LiftNext]_liftVars

-----------------------------------------------------------------------------
(* Properties *)

LentTo(S) == SumOver([r \in S |-> r.amount], S)

\* The books of the two contracts, though each writes its own.  Through this
\* registry no invoice is financed twice, and every invoice financed belongs to
\* this pool for good, whatever other pools and the registry's admin do to it.
\* The exposure of a buyer or an SME is what those loans add up to and what the
\* pool lent them on the word of other contracts, of which this registry knows
\* nothing, with nothing left of a finance_invoice whose assign failed.
LoanBook ==
    /\ \A r1, r2 \in loans : r1.invoice = r2.invoice => r1 = r2
    /\ \A r \in loans :
         /\ Registry!HasStatus(r.invoice, "Assigned") \/ Registry!HasStatus(r.invoice, "Repaid")
         /\ invoices[r.invoice].owner = PoolTag
    /\ \A b \in Buyer :
         buyer_exposure[b] = LentTo({r \in loans : r.buyer = b}) + SumOver(elsewhere[b], Sme)
    /\ \A s \in Sme :
         sme_exposure[s] = LentTo({r \in loans : r.sme = s})
                         + SumOver([b \in Buyer |-> elsewhere[b][s]], Buyer)

\* The capital that prices the shares was paid for: it never exceeds the cash
\* lenders left in the pool and buyers repaid, less fees and losses charged,
\* through the rounding of every deposit, withdrawal and repricing between.
CapitalBackedByCash ==
    pool.total_capital <= paid_in + received - fees - SumOver(charged, Id)
==============================================================================
