# A TLA+ verification of the InvoiceLift contracts

InvoiceLift finances invoices on Soroban (Stellar smart contracts in Rust). Four
contracts keep the state: a registry of invoices, pools that lend against them, a
waterfall that routes repayments and defaults into a pool, and a governance
contract. A vendored copy of the 256-bit integers of `ethnum` is built with them. This directory holds TLA+ modules translated from their source, TLC
configurations that check them on small instances, and theorems that TLAPS proves
for every value of the constants.

All paths below are relative to the repository; `pool-manager` stands for
`pool-manager/src/lib.rs` and so on. `PROJECT.json` lists for each definition the
lines it models, for each property a mutation of the code model that breaks it, and
for each hazard the properties that watch it.

## 1. Execution model

A call of a contract is one *invocation*. The host runs invocations one at a time; an
invocation that returns `Err`, traps or panics is reverted with everything it wrote,
what it wrote in other contracts included. So in every module:

* an entrypoint is **one action**, enabled exactly when the invocation would return
  `Ok`; a call that fails changes nothing and is no step;
* a cross-contract call is part of the caller's action, and the callee's guards are
  conjuncts of it (`RebalanceReserves`, `DeclareDefault`);
* concurrency is the *order* of invocations by many callers. `Next` lets every caller
  pass every value of small input sets at any time, which is what the chain allows:
  most of the mutators authenticate nobody (`docs/audit/risks.md`, R-1 and R-2);
* the ledger clock advances in an action `Tick` of its own, bounded by `MaxTime`.

The workspace builds with `overflow-checks = true` (`Cargo.toml:67`): arithmetic that
leaves `i128` traps. `Fits(x)` is a guard for every intermediate result, and
`I128_MAX` is a parameter, so that small instances live *at* the overflow boundary
rather than below it. This is also what makes amounts finite without an
artificial bound.

**Fairness** is assumed in one place. No scheduler, keeper or retry loop exists in the
repository: every call is somebody's free choice, and most of what "must eventually
happen" cannot be justified from the code. The exception is reserve rebalancing:
`rebalance_reserves` authenticates nobody and returns "whether a transfer occurred"
(`pool-manager:960-972`), so it is made to be called, by any pool with any list, until it
reports none. `PoolRebalance!FairSpec` adds `WF_vars(Rebalance)`: as long as some call of
`rebalance_reserves` would transfer something, somebody sooner or later makes one. This is
an assumption on those callers, and the only one. Every
other specification is `Init /\ [][Next]_vars`, its properties are safety properties,
and a behaviour that stops anywhere is a legal one.

## 2. Inventory

| Component | State it keeps | Operations | What makes it correct |
| --- | --- | --- | --- |
| **Pool accounting** (`pool-manager:162-957`) | supply, capital, financed amount, ceiling, NAV; position and deposit time per lender; locks and thresholds | `initialize`, `create_pool`, `deposit`, `join_pool`, `withdraw`, `finance`, `set_nav`, `apply_reserve_delta`, setters | supply is the sum of positions; capital backs the supply; rounding never favours a lender; ceiling respected |
| **Concentration limits** (`pool-manager:629-760`) | exposure per buyer and per SME | `set_concentration_limits`, `finance_invoice` | both tables move with the financing they record, within the limit |
| **Timelocked parameters** (`pool-manager:1081-1250`) | queued actions | `set_timelock_admin`, `queue_`, `execute_`, `cancel_parameter_change` | a change is public for 48 h, cancellable, used once |
| **Reserve rebalancing** (`pool-manager:896-1079`) | the ledgers of several pools, donor block | `set_donor_blocked`, `rebalance_reserves` | capital conserved; donor not made needy; blocked pools spared |
| **Invoice lifecycle** (`invoice-registry:175-570`) | lifecycle record and terms per id, verifiers, admin | `register`, `create_invoice`, `approve`, `verify_invoice`, `assign`, `assign_invoice`, `mark_repaid`, `flag_`, `freeze_`, `unfreeze_invoice` | raised, approved, financed and settled once, in order; terms immutable |
| **M-of-N verification** (`invoice-registry/src/multisig.rs`) | policy and progress per id | `configure`, `submit_signature` | verified means enough different signers in time |
| **Invoice token** (`invoice-registry/src/nft.rs`) | owner and transfer history per id | `mint`, `transfer` | history is the chain of owners |
| **Upgrade queue** (registry, pool and waterfall) | one queued Wasm hash, pause flag | `queue_`, `execute_`, `cancel_upgrade`, `set_upgrade_paused` | code changes only to what was public for 48 h |
| **Repayment waterfall** (`repayment-waterfall:224-392`) | the pool it reports to | `process_repayment`, `process_repayment_waterfall` | no money made or lost on the way |
| **Delinquency** (`repayment-waterfall:408-525`) | due date and default mark per invoice, grace period | `set_grace_period`, `mark_invoice_due`, `declare_default` | a loss is charged once, when due, or not at all |
| **Circuit breaker** (`repayment-waterfall:527-629`) | default window, threshold, flag | `record_default`, `set_circuit_breaker_threshold`, `resume_processing` | a trip halts repayments; a surge trips |
| **Commitments** (`repayment-waterfall:9-127,239-281`, `pedersen.rs`) | none | `split_commitment`, `verify_split`, `commit`, `add_commitments`, `verify` and the modular arithmetic | exact shares, no overflow, sound verification, sums of commitments open to sums |
| **Composition** (registry, pool, waterfall) | all of the above at once | the calls that reach another contract | the books of the contracts agree; capital is backed by cash |
| **Governance** (`governance`) | voting powers and their total, proposals, votes, parameters | `set_voting_power`, `create_proposal`, `vote`, `execute_proposal` | one vote per voter, quorum and majority, one execution |
| **ethnum** (`ethnum-1.5.0`) | none | arithmetic, shifts, conversions, parsing and printing of `U256`, `I256` over native intrinsics | every operation is that of the integers, modulo 2^256 or with the overflow reported |

How they interact:

* `finance_invoice` (pool) calls `assign` of the registry; `assign_invoice` is a second
  way in for a pool manager.
* The waterfall calls `apply_reserve_delta` of its pool, positive for a repayment and
  negative for a default. `record_default` is called by neither: the breaker sees only
  what somebody reports to it.
* `rebalance_reserves` reads its peer pools and calls `apply_reserve_delta` on two.
* `ethnum` is called by no contract directly: it is patched into the dependencies of the
  SDK (`Cargo.toml:43`).
* Governance stores parameters nobody reads yet. The verification verdict and the
  invoice token are likewise consulted by no transition of the lifecycle.

Hard behaviours: rounding of share arithmetic over long call sequences; two derivations
(capital from NAV, NAV from capital) that alternate; records written in pairs;
timelocks, locks, deadlines and windows met at their boundary second; calls before
`initialize`; failure of a callee after the caller has written. `PROJECT.json` lists 40
such hazards, each at its line.

## 3. Modules

| Module | Models | State and how it corresponds to the code |
| --- | --- | --- |
| `PoolLedger` | the arithmetic of one pool | a record of the six accounting keys. `written` is the set of keys present in storage, since some reads default (`unwrap_or(0)`) and others fail (`ok_or(NotInitialized)`). For each entrypoint a guard `May...` and a result `After...` |
| `PoolManager` | one deployed pool | the ledger plus positions, lock times, exposures, configuration, queued actions and the clock; one action per entrypoint |
| `PoolRebalance` | several pools | a ledger per pool; `rebalance_reserves` as one action: the one-pass choice of needy pool (lowest coverage, first wins) and donor (highest reserve, first wins), cap, and two deltas |
| `InvoiceLifecycle` | *abstract specification* | a stage and a holder per invoice, and the invoices held back |
| `InvoiceRegistry` | the lifecycle half of the registry | `InvoiceKey` and `TermsKey` records, verifiers, admin, clock; refines `InvoiceLifecycle` by `Stage`, `Holder`, `Frozen` |
| `Verification`, `InvoiceToken`, `UpgradeQueue` | `multisig.rs`, `nft.rs`, the upgrade entrypoints | the two keys of each per id; the upgrade slot |
| `RegistryEvidence` | the other half of the registry | composes the three by `INSTANCE`, on one clock |
| `RegistryClock` | ids, tags and clock of the registry | declared once for `InvoiceRegistry` and `RegistryEvidence` |
| `RepaymentWaterfall` | the waterfall and its pool | its keys (`InitWaterfall`), and the pool as a `PoolLedger` record seeded by one deposit |
| `InvoiceLift` | one registry, one pool and one waterfall | extends `PoolManager` and instantiates the other two on its clock and its pool; an action is an action of one contract, or of caller and callee conjoined |
| `Commitments` | the arithmetic modulo 2^127 - 1, Pedersen commitments | no contract state: a behaviour splits a total or opens two commitments, then a submitter may replace parts |
| `EthnumArithmetic` | what ethnum computes with carries and digits: representation, comparison, `add.rs`, `sub.rs`, `mul.rs` and the heart of `divmod.rs` | a `U256` is a number below N, two words of two halves each, an `I256` the same pattern read as two's complement; the base `B` of a half word is a parameter |
| `EthnumWords` | words as bits: bitwise operators, shifts of one word, counts, bytes | the patterns of `EthnumArithmetic` with `B = 2^HALF`; powers of two and the tables of `&`, `\|`, `^` are recursive functions |
| `EthnumIntrinsics` | the rest of `intrinsics/native`, and `signed.rs` | shifts and rotations across the word boundary, the normalising shifts around a division, signed division, `imulc` |
| `EthnumUint`, `EthnumInt` | `uint/api.rs`, `int/api.rs`, conversions | the checked, wrapping, overflowing and saturating forms over the intrinsics; a method is named after the code's with `U` or `I` in front |
| `EthnumText` | `parse.rs`, `fmt.rs` and their callers | texts as sequences of digit values |
| `Ethnum` | two registers, `lhs` and `rhs` | the assigning operators of `macros/ops.rs` as actions; the properties compare every method with plain integers at the values reached |
| `EthnumRoundTrip` | texts of the registers | extends `Ethnum` by what parsing and printing promise (apart, because the texts are recursive operators) |
| `Governance` | the governance contract | its keys; proposal id `i` is `proposals[i + 1]` |
| `Sums`, `SumTheorems` | the sum of a function over a finite set | a recursive function, and the lemmas the proofs need of it |
| `PoolLedgerProofs`, `PoolRebalanceProofs`, `RegistryProofs`, `RepaymentWaterfallProofs` (with the commitments), `GovernanceProofs`, `EthnumProofs`, `InvoiceLiftProofs` (the pool alone, then the three contracts together) | | the theorems of section 6 |
| `MC...` | | constants for TLC |

`deposit` and `join_pool` do the same accounting under the same tag and are one action.
A caller that must be the stored admin is a guard where the admin is a tag the contract
compares (`RequireAdmin`), and left out where the host checks a signature of a stored
address (the call is then simply one the admin makes). Some variables are history that the
code does not keep and no guard reads: `rejected` in `Governance`; `received`, `fees`,
`charged` in `RepaymentWaterfall`, and for each of the last 24 hours' seconds `watched` (what
`record_default` was told while a threshold was set, since the last resume) and `in_force`
(the highest threshold of that second); `public_since` in `UpgradeQueue`; `shares` of
the last split in `Commitments` (what the parts were split by); `loans` (the loans
`finance_invoice` made through this registry), `elsewhere` (what it lent to each buyer and
SME through any other contract) and `paid_in` (cash deposited less cash withdrawn) in
`InvoiceLift`.

In `InvoiceLift` the clock stands still. Kept are the calls by which money or an invoice
reaches another contract. `finance_invoice` is two actions there, since it calls `assign` of
the contract its caller names: `FinanceAndAssign` when that is this registry, and
`FinanceElsewhere` when it is any other contract that answers, in which case the registry
does not move. Such a contract cannot re-enter the pool, and what else it may call, anybody
may call at any time. Whatever waits for a later ledger, `set_nav` and
`apply_reserve_delta` called from outside (they move capital without any money), freezing
and the circuit breaker stay with the modules of their components.

Definitions such as `ToPoolAndFee` beside `ToPool`, or `Submittable` beside
`FirstSubmission`, are plausible slips of the code and used by no action. Each property
is known to fail when one of them stands in for the definition it sits beside.

## 4. Runs

States are distinct states; every run finishes within three minutes with two workers.

| Run | Instance | States | Shows |
| --- | --- | --- | --- |
| `pool_accounting` | 2 lenders, NAV 1.0 = 4, 100% = 4, i128 up to 35 | 223,988 | supply is the sum of positions (`SharesConserved`); capital is the supply's value within rounding (`BackingWithinRounding`); all lenders together can never be owed more than the capital (`PositionsCovered`); a deposit books at most what was paid and a withdrawal writes off at least what is paid out (`BookedNeverExceedsPaid`); all paths but deposit end within the ceiling (`UtilisationSettled`) |
| `pool_timelock` | 2 lenders, clock to 4, 2 queued actions | 831,396 | fresh shares stay locked; the ceiling moves only by a matured, uncancelled, unused action; an action has one outcome |
| `pool_rebalance` | 3 pools, every peer list up to 2 with repetitions, under `FairSpec` | 5,728 | conservation; no transfer makes a pool needy that was not; transfers go from unblocked pools to needy ones; once deposits and financings cease, repeated calls come to an end (`RebalancingSettles`) |
| `registry_lifecycle` | 2 invoices, 3 tags in any role | 193,062 | refinement of `InvoiceLifecycle` (one way forward, one holder from the financing on, no settlement while frozen); the two records agree; terms fixed at birth |
| `registry_evidence` | 1 invoice, 2 signers (lists with repetition), 2 holders, clock to 3 | 156,760 | quorum, deadline and finality of a verdict; chain of ownership; upgrades public for the timelock |
| `waterfall` | 2 invoices, window of 2 s, clock to 4 | 1,523,190 | money conserved; default mark and charge go together, once, when due; while the breaker is untripped, the defaults recorded in 24 hours under a threshold, since the last resume, are at most twice (the highest threshold of those hours less one) (`SurgeIsBounded`) |
| `invoice_lift` | 1 lender, 2 buyers, 1 SME, 2 invoices, 2 tags in any role, i128 up to 11, limits of 50% and 100% that may differ for buyer and SME | 644,616 | through this registry no invoice is financed twice or leaves the pool, and the exposures are the sums of those loans and of what was lent on the word of other contracts (`LoanBook`); capital never exceeds the cash behind it (`CapitalBackedByCash`); exposure tables agree; a buyer's or an SME's exposure rises only with financing and within its own limit |
| `commitments` | `HALF` = 8: limbs of 4 bits (P = 127), all 256 totals, every two-way split of 100 | 190,742 | shares exact against plain integers (`PartsAreShares`); parts add up to what was split, commitments add as their openings do, and `verify` accepts the right openings only (`OpeningsAdd`); `verify_split` accepts exactly (`AcceptsExactly`) |
| `governance` | 2 voters, 2 proposals on one parameter, powers 0, 1, 3 | 526,089 | quorum denominator; every vote counted once at a power granted; majority and quorum of every change; final tallies |
| `ethnum` | 8-bit `U256` and `I256` (half words of 2 bits), all pairs | 65,536 | sums, differences, products, powers and their overflow flags (`ArithmeticExact`); four kinds of division (`DivisionExact`); shifts, rotations, counts, bytes and conversions (`BitsExact`); what is printed parses back, and what does not fit is refused (`TextRoundTrip`) |
| `doc_governance`, `doc_verify_split` | as above | - | the two findings of section 5 |

Why the bounds are enough:

* *Scales.* The arithmetic does not depend on 10^6 or 10^4 being those numbers. With 4
  for both, every share or capital value is a few units from a rounding boundary, and NAVs
  of 3 and 7 round in both directions; with the real scales a TLC instance would never round.
  The theorems of section 6 cover all scales.
* *Actors.* Two of each kind that compete (lenders, buyers, voters, signers) and
  one tag that may play every role; three pools, so that there is a bystander to a transfer.
  `invoice_lift` has one SME, whose exposure adds up over both buyers; the theorems cover any number.
* *Time.* One unit is "one timelock tick": timelocks and windows are 2, lock and grace
  periods 1 or 2, so boundary seconds, one before and one after are all reachable.
* *Width.* `Commitments` keeps the shape of the code (four limb products, a cross term
  folded at `HALF`, one bit below a limb) at 4-bit limbs; P = 127 is a Mersenne prime like
  2^127 - 1. The theorems of section 6 cover every `HALF`.
* *ethnum.* All 65,536 pairs of 8-bit values; with four half words of 2 bits every branch of
  the intrinsics (carry into the upper word, one-word and two-word divisors, the shift
  cases) is taken by some pair. Digits of radix `HEX = 4` pack evenly into a
  half word, as hexadecimal digits do, and those of `DEC = 3`, like decimal ones, do not.
  Derived forms (`wrapping_`, `checked_`, `pow`) are evaluated where `y` is one of the 11
  boundary values `Probes`, operations of one operand where `y = 0`. The run's constants
  agree (`B = 4`, `HALF = 2`: `WidthsAssumption`); exponents go to `U32_MAX` = 16, past the
  last power of 2 that fits; section 6 covers sums, products and quotients at every `B`.
* *`MaxPaidIn`, `MaxElsewhere`.* Each deposit and withdrawal may leave a fraction of a unit
  behind, so `paid_in` would grow without end while the capital comes back to the same value:
  a deposit is taken when lenders hold no more cash in the pool than they have taken out of
  it. That includes a deposit at a NAV of 1.5 beside shares left by a withdrawal of two out of
  three. Through other contracts a buyer and an SME are lent one loan (`MaxElsewhere`).
* *`pool_rebalance`* is small because deposits and financings happen from a fixed menu; what
  matters is every combination of three ledgers and of blocked donors with every list.
* Symmetry is used only over model values that nothing orders. In the runs with an
  `i128` parameter that parameter is the only bound on amounts. `MaxReceived`,
  `MaxVolume`, `MaxPaidIn`, `MaxElsewhere`, `MaxTransfers`, `MaxProposals`, `MaxActions`, `MaxPeers` and `MaxTime` are
  the named bounds in guards.

Deadlock checking is on in every run: all of these systems can always take another call
(`Commitments` may always submit another part, `Ethnum` swap its registers; elsewhere a
setter is always enabled). `FairSpec` uses no symmetry, as symmetry is unsound for liveness.

Fairness in `pool_rebalance`: `RebalancingSettles` supposes that from some point on nothing
but rebalancing happens (`<>[][Rebalancing]_vars`) and concludes that a state is reached in
which no call with any list would transfer. Without the weak fairness of `Rebalance` the
callers may stop early; without the premise a pool may be made needy again for ever.

## 5. Where the code departs from its documentation

Two are findings with a run of their own:

1. `doc_governance`. `execute_proposal` "finalizes" a proposal, whose outcome is "fully
   determined by the recorded tally and the current time" (`governance:264-268`). A failing
   tally marks nothing and quorum is measured against the total power *at the call*
   (367-382): a proposal reported as not passed passes later when the total has shrunk.
2. `doc_verify_split`. "Verify that the sum of the split parts equals the total
   commitment mod P" (`repayment-waterfall:273`). Parts are cast to `u128`, and 2^128 is
   2 modulo P, so each negative part counts 2 too many: `[-1]` verifies against 1.

Others were met while modelling and are recorded here only:

* `total_shares * NAV / NAV_SCALE == total_capital` (`docs/audit/scope.md`,
  `pool-manager/src/keys.rs`, `pool-manager:916-918`) holds to within rounding only, since
  `apply_reserve_delta` keeps capital and rounds NAV down. `BackingWithinRounding` states what is left of it.
* A deposit into a pool whose reserve deltas exceed the shares' value lowers capital (356),
  so `financed_amt` may end above the ceiling; every other path clamps.
* `min_deposit`, `max_deposit` and `create_pool`'s limits are stored and never enforced
  (`pool-manager:272-297`); `finance_invoice` reads those of `set_concentration_limits`.
* `freeze_invoice` is documented as "blocking all further state transitions"
  (`invoice-registry:125-127,527-528`). `verify_invoice` (380) and `assign_invoice` (447) make
  the transitions of `approve` and `assign` and do not read `frozen`, so a frozen invoice may
  still be approved by a verifier and taken by a pool. What is left of the promise is what
  `InvoiceLifecycle` asks of an invoice held back, that it is not settled; its `Approve` and
  `Finance` are allowed all the same.
* Exposures are never lowered: "capital currently at risk" (`pool-manager:653`) is
  capital ever financed. `LoanBook` states it as that.
* `finance_invoice` calls `assign` of whatever contract its caller, who is not authenticated,
  passes as `invoice_registry` (`pool-manager:699-700,755`). One that merely answers lets the
  same invoice id be financed again, or one the registry never saw. Exposures, ceiling and
  limits count such loans like any other; that an invoice is financed once holds of the loans
  made through the true registry, and `LoanBook` says so.
* The "rolling 24h window" (`repayment-waterfall:529-540`) starts with a default and does
  not roll; `SurgeIsBounded` states the bound a window of this kind gives. The breaker trips
  only inside `record_default`: a lowered threshold (578) is not compared with what was recorded
  already, so that the bound goes by the highest threshold of the 24 hours. Nothing bounds what
  is recorded before a threshold is first set, and `resume_processing` (589) starts the count anew
  in the middle of a surge; both are outside of the property.
* `finance_invoice` takes buyer, SME and amount from its caller; neither contract compares
  them with the terms of the invoice. Two pools deployed under the same admin tag are one
  owner to the registry.
* A default charged by the waterfall and `mark_repaid` in the registry do not know of each
  other: an invoice may end as both.
* ethnum: `const_from_str_prefixed` panics on some decimal literals in range
  (`parse.rs:161-162`, against `uint.rs:161-163`); `TryFrom<I256>` of the narrower signed types
  checks the upper bound only (`int/convert.rs:169-174`); `from_str_prefixed` of a text with a
  prefix reports an overflow as an invalid digit, as it goes on to try the next radix; the correction
  loops of the division run at most twice, and the add-back step cannot be reached with
  two-word operands. No contract of the repository depends on any of these.

## 6. What is proved

TLAPS checks these for every value of the constants, from the named assumptions of the
modules (`ScaleAssumption`, `InputAssumption`, `RebalanceAssumption`, `RegistryAssumption`,
`EvidenceAssumption`, `CommitmentAssumption`, `BaseAssumption`, `WaterfallAssumption`, `GovernanceAssumption`, `LiftAssumption`: positive
scales, finite sets of tags, inputs among the integers, absent values that are not values). TLC evaluates
each assumption in the runs. `PROJECT.json` lists the theorems with the property each states.

*Pool.* `PoolInvariant: Spec => []PoolInv`, with

    PoolInv == TypeOK /\ SharesConserved /\ BackingWithinRounding /\ ExposureTablesAgree

The conjuncts need each other. `withdraw` keeps the supply non-negative only because the
burned shares are part of a position that the sum of positions bounds
(`SharesConserved`, `SumBoundsEach`). `deposit` divides by a NAV that is positive once
written only because `initialize` writes all keys together and before any share exists
(`SoundLedger`, a part of `TypeOK`). `SharesConserved` is not inductive alone, as
`initialize` resets the supply to zero: `SoundLedger` says that no share exists before.
`BackingWithinRounding` is re-established by each of the two derivations separately
(`DerivedCapitalBacks`, `DeltaSound`). One lemma per ledger operation (`DepositSound`,
`WithdrawSound`, `FinanceSound`, `SetNavSound`, `DeltaSound`, `MaxUtilSound`) says that the
operation keeps a ledger sound and backed, and one step per action lifts it. `TypeCorrect`,
`SharesAreConserved`, `NavIsBacked` and `ExposuresAgree` follow. From the same invariant come the action properties `BooksNeverOutrunCash`,
`UtilisationIsSettled` and `ExposuresFollowFinancing`, each from what the ledger lemmas say of
one operation, and `PositionsAreCovered`: termwise, a position rounded down times the scale is
at most shares times NAV; `SumScaled` adds these up over any set of lenders, and
`CapitalCovers` bounds the value of the supply by the capital. The delays need a second
invariant, `DelayInv`: a lender with shares has a deposit time, an action matures one
timelock after it was queued and is never both executed and cancelled. From it follow
`LocksHold`, `CeilingIsTimelocked` and `ActionsHaveOneOutcome`. `RoundTripNeverProfits`
is the one-lender case of "rounding never favours a lender". The lemmas on division are
`FloorBounds` to `FloorSplit`; those on sums (`SumUpdate`, `SumBoundsEach`, `SumScaled`, `SumWithout`, `SumPlus`, `SumShifts`) are in
`SumTheorems`, proved from the recursive definition by well-founded minimality, as the
induction rules of the library are out of the provers' reach.

*Rebalancing.* The invariant of `LedgersStaySound` is only that every ledger is typed, sound and
backed; the work is in the step. `FirstOfIn` shows that the one-pass choice of needy pool and
donor returns members of the caller's list that satisfy the filter, for any list with
repetitions. `RebalancingConserves` then is one `SumUpdate` down and one up, since the needy pool
and the donor differ. `RebalancingCreatesNoNeed` is the delicate one: the amount moved is below
the donor's excess over its target, strictly, because a donor cap below 100% takes a share of
it, and this strict unit absorbs the truncation of the target, of the coverage and of the
clamp. It assumes `DONOR_CAP_BPS < BPS_SCALE` (5,000 of 10,000 in the code).
`RebalancingGoesToTheNeedy` says between whom reserve moves. `RebalancingRunsDown` gives the
measure behind `RebalancingSettles`: the set of pools financed beyond their ceiling never grows and,
while it stays the same, the capital in pools with an excess falls with every transfer. The donor's
capital falls by what is moved; a recipient within its ceiling has no excess before or after (it
ends within its target, and more capital does not lower its financing limit), so it does not
count. A recipient beyond its ceiling may be clamped and so end with an excess, but it then leaves
the set, which is why the set comes first.

*Registry.* `RegistryInvariant: Spec => []RegistryInv`, with

    RegistryInv == TypeOK /\ TermsAgree /\ InertBeforeInitialize

`TermsAgree` is kept by `create_invoice` because it refuses an id with either record, and
by `register` because terms without a record cannot exist. `StepHasShape` then says what
any step does to the records (one is raised, or one advances by at most one stage, or none
changes), and from this shape follow `TermsNeverChange` (an action
property) and `RegistryImplementsLifecycle`, the refinement of `InvoiceLifecycle`: an advance that
moves a stage leaves the freeze as it was, and one that settles finds none.

*Evidence.* Each part has an invariant of its own, kept by the steps of the others because they
leave its keys alone. `QuorumInv` says that what an invoice has collected names no key twice
(the cardinality of the set of signers is the length of the list), nobody outside the
configured list, and that the verdict is what the length says; `VerifiedIsSigned` needs all
of it. `VerdictsAreFinal` and `OwnershipIsTraced` follow from the guards and the types;
`UpgradesArePublic` from `UpgradeInv`, that a queued upgrade matures one timelock after it was
queued, which a replacement re-establishes by restarting both.

*Waterfall.* `WaterfallInv` is `TypeOK /\ PoolGetsWhatIsPaid /\ DefaultedIffCharged`. The middle
part is inductive only with the others: `declare_default` changes one entry of `charged`, from
zero because the invoice was unmarked (`DefaultedIffCharged`), and a sum over a finite set by
the loss; the types keep the pool's ledger sound, so that `DeltaSound` gives the capital moved.
`WaterfallAssumption` includes that the pool was seeded by a deposit that succeeded.
`PoolIsAccountedFor`, `MarksAreCharges` and `ChargedOnce` follow. `SurgesAreBounded` has an
invariant of its own, `Surge`. Its core, `Calm`, splits what was watched at the second the
record's window opened. Each part is `Bounded`: up to every second in which a default was
watched, what was watched in that part is below the highest threshold of that second. For the
younger part that is because the record's volume covers it, and the breaker compares the volume
with the threshold of the moment. The older part stayed below in its own time, and nothing of the
second that opens a new window was recorded in the old one (or it would count twice). A raised
threshold only weakens the claim, a lowered one stays in `in_force` until it is 24 hours old, a
resume empties both parts, and a tick moves everything one place on, which rests on a lemma that
a row of amounts shifted by one loses its last (`SumShifts`), proved by induction over the
naturals as a set. `YoungestDefault` then picks the default whose threshold bounds a part.

*Governance.* `GovernanceInv` adds to the types that `total_power` is the sum of the powers,
without which lowering a power might make it negative, and that a configured supermajority
exceeds one half, without which a critical proposal's threshold would not be a majority.
`TotalPowerIsTheSum`, `ChangesHaveMajority` and `TalliesAreFinal` follow. `TalliesAreOfVoters`
adds that a power held is an input and that each tally is a sum over its voters; a vote extends
it by one voter who was not among them (`SumWithout`), which is where `FirstVote` is needed.

*Deployment.* `LiftInvariant: LiftSpec => []LiftInv`, with

    LiftInv == PoolInv /\ CashOK /\ InvoicesOK /\ LoansOK /\ LoanBook /\ CapitalBackedByCash

where `CashOK`, `InvoicesOK` and `LoansOK` type the cash, the invoices, the (finite) set of
loans and what was lent elsewhere. Three lemmas take one step each for the pool (`LiftPool`), the book (`LiftBook`) and the
cash (`LiftCash`). The book rests on `Standing`: an invoice assigned or repaid under the pool's
tag. No call of the registry leads back from there to `Approved` (`RegistryCallKeepsStanding`),
and `finance_invoice` needs an approved one, so the loan it adds is of an invoice no loan was made
on (`FinanceKeepsBook`), and one more term in the sums of its buyer and its SME (`LentMore`). Through
another contract the amount goes to one entry of `elsewhere` instead (`ElsewhereKeepsBook`, by
`SumUpdate`), and the registry stands still. The
cash rests on the pool's rounding lemmas and on `RepayPoolMoves`: a call of the waterfall changes
the pool by one reserve delta, or not at all, and received, fees and losses by the same amount.
`initialize`, which resets the capital to zero, cannot raise it only because the ledger is sound
(capital non-negative), which is why `PoolInv` is a conjunct. `BooksAgree`, `CapitalIsPaidFor`, `DeployedExposuresAgree` and
`DeployedLendersAreCovered` are its consequences; `DeployedExposureFollowsFinancing` and
`DeployedUtilisationIsSettled` are the pool's action properties with the other contracts calling.
Last, two refinements: `RegistryKeepsItsSpec` (`LiftSpec => Registry!Spec`) and
`PoolKeepsItsSpec` (`LiftSpec => AnyPool!Spec`, a `PoolManager` that may be asked to finance, or to
move its reserve by, any integer): composed, each contract still takes only the steps its own module
specifies, so what is proved of those modules is about the deployment too.

*Commitments.* The width is a parameter: `HALF` is any number from 2, powers of two or not, and P
need not be prime. Everything is followed modulo P (`Cong`): a residue is the only one of its class
(`CongUnique`), so two computations that end in a reduction agree when they are congruent.
`ReduceIs` says that the fold of `reduce_u128` is a reduction on all of u128, because nothing there
is more than one multiple of P + 1 above it. `FoldsAre` follows `mod_mul` step by step, each value within
u128, using `BASE * HALF = P + 1` and `BASE * BASE = 2 * (P + 1)`: that is why the cross term
folds at `HALF` and the upper product doubles. `EuclidExists` shows that the loop of `mod_inverse`
terminates (a turn lowers `r`), `EuclidKeepsBezout` its invariant, from which the result is an
inverse (`ModInverseIs`), and `InverseFits` that the coefficients never leave i128: they have
opposite signs and balance the remainders. With `CommitInv` (parts not replaced are those of a
split that passed its checks) follow `SplitsAreExact`, `CommitmentsOpenToSums` and, by induction
over the running sum of `verify_split` (`PartSumIs`), `VerificationIsExact`.

*Ethnum arithmetic.* `EthnumArithmetic` keeps what ethnum computes with carries and digits apart from
what it does with bits, and `EthnumProofs` proves it for every even base `B` of a half word
(`BaseAssumption`; 2^64 in the code), all operands included. `SumsAreExact` and `OrdersAreExact`
come from following carries and borrows; `SignedSumsAreExact` reads the result of the same words
as two's complement and shows that comparing result and operand, as `iaddc` and `isubc` do, is
equivalent to leaving the range. `ProductsAreExact` shows that the middle products folded in turn
never overflow a word, and that the five conditions of `umulc` together mean `a * b >= N`.
The divisions rest on `EstimateIsClose`, Knuth's Theorem B for any base: with a normalized divisor the
estimate from the leading digits is at most two too large. `QuotientDigitIs` and `KnuthDigitIs`
add that the correction loop, which may leave early when its remainder overflows a digit, ends
with the true digit. `WordDivisionIsExact` is the division by one word,
`TwoWordDivisionIsExact` Knuth's division by two words; with two words D3 compares all of the
divisor, so that D4 never borrows and D6, "highly unlikely" in the code's comment, never happens.

*Ethnum division.* Those theorems speak of digits after a normalising shift. The rest of
`EthnumProofs` closes the distance to the methods a caller uses, at every width (`WidthsAssumption`):
`Pow2Is`, `TableIs` and the lemmas after them say what the recursive functions of
`EthnumWords` compute (a table of `&`, `|`, `^` is defined for all operands; `|` of a shifted word and bits
below the shift is their sum; `^` with all ones or none is complement or identity); `WordShifts`,
`ShiftRight` and their like make the shifts across words products and quotients by powers of two, so that
the code's normalisation is the `v = b * p` of Knuth's theorem. `UnsignedDivisionIsExact` and
`SignedDivisionIsExact` follow for all of `udivmod4` and `idivmod4`, the signs taken off and put back by
masks; `EuclideanDivisionIsExact` for the corrections of `div_euclid` and `rem_euclid`, which may wrap.
`RegistersHoldPatterns` is the type invariant of the register machine, that every operator of the
crate stays within its width; it needs all of the above. `DivisionIsExact`, the property of the run
as a theorem of the specification, is its consequence by `DivisionAgrees`.

*Ethnum arithmetic methods.* `ArithmeticIsExact` does the same for the property `ArithmeticExact`.
`SignedProductsAreExact` covers `imulc`, which finds out by a division whether the product fits:
the quotient it compares with is the largest absolute value allowed, and the operands without an
absolute value are its special cases. `UnsignedForms`, `SignedForms`, `UnsignedClamp` and
`SignedClamp` derive the checked, wrapping and saturating forms from an overflowing one that
returns the pattern and the right flag (`UnsignedExact`, `SignedExact`). Powers take a loop invariant: with
`acc` the product so far and `base` the square reached, a turn keeps `acc * base^e`, as an integer while
nothing overflowed (`TurnKeepsValue`) and modulo 2^256 always (`TurnKeepsPattern`). That the
flag is not raised in vain needs more, since the loop squares its base ahead of use:
`acc` is 1, or it and the base are both at most 1 in size, or both at least 2 (`Tame`, kept by
every turn), and then a square or product out of range while the exponent is 2 or more means
that the power is out of range too (`OverflowIsFinal`). `PowLoopIs` puts this together by strong induction
on the exponent, for any multiplication with an exact flag; `UnsignedPowerIs` and `SignedPowerIs`
are its two instances. The property compares with powers saturated just outside the range, so that TLC
can compute them: `PowerIsSaturated` and `PowerModIs` say that this reference is the power.

Only model-checked: two properties of the run `ethnum`. `BitsExact` covers shifts,
rotations, counts, byte orders and conversions, of which only the shifts that a division uses have
lemmas; `TextRoundTrip` reads and prints texts by RECURSIVE operators, which keep a module from TLAPS.
`RebalancingSettles` is a liveness property, which is out of the prover's reach with
ENABLED and fairness; `RebalancingRunsDown` proves the part of it that is not about fairness.

## 7. Not modelled

* Storage expiry, events, getters, `ping`, `version`; the Ed25519 check (a signature that
  fails traps, so only good ones reach the state). That a Pedersen commitment hides and binds
  its value is a cryptographic claim.
* Encoding of storage keys: keys are variables, so that they cannot collide is assumed.
* `u64` and `u32` overflow of timestamps and ids, except where it changes an outcome
  (`Delinquent`, `Unlocked`); those calls trap and revert.
* More than one pool or registry in `InvoiceLift`: what another registry knows is nothing to the pool
  but that it answered; other pools act on the registry as tags of their own;
  transfers between pools are in `PoolRebalance`. Governance shares no state with the others.
* Of ethnum: `serde.rs` (behind a feature nobody enables), conversions from and to floats,
  `Sum` and `Product` of iterators, the `llvm-intrinsics` variant (`intrinsics/llvm.rs`), which this
  build does not use. The crate is outside the authors' audit scope
  (`docs/audit/scope.md:16`).
* The deployment script and the tests.

## 8. What is left

Everything of the original plan is done: pool, rebalancing, governance, registry, waterfall,
commitments, the composition, ethnum, and the proofs of each contract's module and of the composition. What could
be added next:

* a second pool in `InvoiceLift`, with `rebalance_reserves` between the two;
* `BitsExact` of ethnum as a theorem.
