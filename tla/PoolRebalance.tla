---------------------------- MODULE PoolRebalance ----------------------------
(***************************************************************************)
(* Cross-pool reserve rebalancing: the ledgers of several PoolManager      *)
(* contracts and the call that moves reserve between two of them.  The     *)
(* calling pool reads itself and the peers it is given, in that order, and *)
(* applies one negative and one positive apply_reserve_delta; the host     *)
(* runs all of it as one invocation and reverts all of it on a failure.    *)
(*                                                                         *)
(* Lenders, locks and exposures do not matter here.  Of the calls on one   *)
(* pool, those that build up a reserve and use it are kept (deposit,       *)
(* finance); PoolManager has the others.                                   *)
(***************************************************************************)
EXTENDS PoolLedger, Sums, Sequences, FiniteSets

CONSTANTS
    Pool,
    RESERVE_FLOOR_BPS,          \* 500 in the code
    DONOR_CAP_BPS,              \* 5_000 in the code
    Deposits, Financings, MaxUtils,     \* inputs
    MaxPeers                    \* bound on the length of the peers argument

ASSUME RebalanceAssumption ==
    /\ IsFiniteSet(Pool)
    /\ RESERVE_FLOOR_BPS \in 1..BPS_SCALE
    /\ DONOR_CAP_BPS \in 1..BPS_SCALE
    /\ Deposits \subseteq Int /\ Financings \subseteq Int /\ MaxUtils \subseteq Int
    /\ MaxPeers \in Nat

VARIABLES
    ledgers,        \* the ledger of each pool
    donor_blocked   \* DONOR_BLK of each pool

vars == <<ledgers, donor_blocked>>

PeerList == UNION {[1..n -> Pool] : n \in 0..MaxPeers}

Init ==
    /\ ledgers = [p \in Pool |-> Undeployed]
    /\ donor_blocked = [p \in Pool |-> FALSE]

-----------------------------------------------------------------------------
(* One pool on its own *)

Becomes(p, ledger) ==
    /\ ledgers' = [ledgers EXCEPT ![p] = ledger]
    /\ UNCHANGED donor_blocked

Initialize(p, max_utilisation) ==
    /\ "ADMIN" \notin ledgers[p].written
    /\ Fits(max_utilisation)
    /\ Becomes(p, Initialized(max_utilisation))

Deposit(p, amount) ==
    /\ MayDeposit(ledgers[p], amount)
    /\ Becomes(p, AfterDeposit(ledgers[p], amount))

Finance(p, amount) ==
    /\ MayFinance(ledgers[p], amount)
    /\ Becomes(p, AfterFinance(ledgers[p], amount))

SetDonorBlocked(p, blocked) ==
    /\ donor_blocked' = [donor_blocked EXCEPT ![p] = blocked]
    /\ UNCHANGED ledgers

-----------------------------------------------------------------------------
(* rebalance_reserves *)

Coverage(ledger) == TruncDiv(Reserve(ledger) * BPS_SCALE, ledger.total_capital)

BelowFloor(ledger) == ledger.total_capital > 0 /\ Coverage(ledger) < RESERVE_FLOOR_BPS

Target(ledger) == (ledger.total_capital * RESERVE_FLOOR_BPS) \div BPS_SCALE

Shortfall(ledger) == Target(ledger) - Reserve(ledger)

ExcessOverNothing(ledger) == Reserve(ledger)
Excess(ledger) == Reserve(ledger) - Target(ledger)

DonorShareUncapped(ledger) == Excess(ledger)
DonorShare(ledger) == (Excess(ledger) * DONOR_CAP_BPS) \div BPS_SCALE

Considered(order) == {order[i] : i \in DOMAIN order}

Needy(order) == {p \in Considered(order) : BelowFloor(ledgers[p])}

DonorsBlockedToo(order) == Considered(order)
Donors(order) == {p \in Considered(order) : ~donor_blocked[p]}

\* One pass over the list, in which only a strictly better pool replaces the
\* choice: the first of the list on a tie.
FirstOf(order, S) ==
    order[CHOOSE i \in DOMAIN order :
            order[i] \in S /\ \A j \in 1..(i - 1) : order[j] \notin S]

Neediest(order) ==
    LET needy == Needy(order)
    IN FirstOf(order, {p \in needy :
         \A q \in needy : Coverage(ledgers[p]) <= Coverage(ledgers[q])})

Richest(order) ==
    LET donors == Donors(order)
    IN FirstOf(order, {p \in donors :
         \A q \in donors : Reserve(ledgers[p]) >= Reserve(ledgers[q])})

Transfer(needy, donor) ==
    IF Shortfall(ledgers[needy]) <= DonorShare(ledgers[donor])
    THEN Shortfall(ledgers[needy])
    ELSE DonorShare(ledgers[donor])

\* No arithmetic of the call traps.
Readable(order, needy, donor) ==
    /\ \A p \in Considered(order) :
         /\ Fits(Reserve(ledgers[p]))
         /\ ledgers[p].total_capital > 0 => Fits(Reserve(ledgers[p]) * BPS_SCALE)
    /\ \A p \in {needy, donor} : Fits(ledgers[p].total_capital * RESERVE_FLOOR_BPS)
    /\ Fits(Excess(ledgers[donor]) * DONOR_CAP_BPS)

MovedInFull(needy, donor, amount) ==
    [ledgers EXCEPT ![donor] = AfterReserveDelta(@, -amount),
                    ![needy] = AfterReserveDelta(@, Shortfall(@))]
Moved(needy, donor, amount) ==
    [ledgers EXCEPT ![donor] = AfterReserveDelta(@, -amount),
                    ![needy] = AfterReserveDelta(@, amount)]

\* What makes the call return true.  A pool that lists itself as a peer would
\* call itself, which the host refuses.
Transfers(self, peers) ==
    LET order  == <<self>> \o peers
        needy  == Neediest(order)
        donor  == Richest(order)
        amount == Transfer(needy, donor)
    IN /\ self \notin Considered(peers)
       /\ Needy(order) # {} /\ Donors(order) # {}
       /\ needy # donor
       /\ Readable(order, needy, donor)
       /\ Shortfall(ledgers[needy]) > 0
       /\ Excess(ledgers[donor]) > 0
       /\ amount > 0
       /\ MayApplyReserveDelta(ledgers[donor], -amount)
       /\ MayApplyReserveDelta(ledgers[needy], amount)

\* A call that returns false or fails changes nothing.
RebalanceReserves(self, peers) ==
    LET order == <<self>> \o peers
        needy == Neediest(order)
        donor == Richest(order)
    IN /\ UNCHANGED donor_blocked
       /\ Transfers(self, peers)
       /\ ledgers' = Moved(needy, donor, Transfer(needy, donor))

Rebalance == \E p \in Pool, peers \in PeerList : RebalanceReserves(p, peers)

Next ==
    \/ \E p \in Pool, mu \in MaxUtils : Initialize(p, mu)
    \/ \E p \in Pool, a \in Deposits : Deposit(p, a)
    \/ \E p \in Pool, a \in Financings : Finance(p, a)
    \/ \E p \in Pool, b \in BOOLEAN : SetDonorBlocked(p, b)
    \/ Rebalance

Spec == Init /\ [][Next]_vars

\* The contract leaves it to anybody to call rebalance_reserves; here somebody
\* does, as long as some call would transfer.
FairSpec == Spec /\ WF_vars(Rebalance)

-----------------------------------------------------------------------------
(* Properties *)

\* Every other operation changes one ledger at most.
Rebalancing ==
    \E p, q \in Pool : p # q /\ ledgers'[p] # ledgers[p] /\ ledgers'[q] # ledgers[q]

\* Every pool's ledger stays sound whatever the other pools do to it.
TypeOK ==
    /\ ledgers \in [Pool -> Ledger]
    /\ \A p \in Pool : SoundLedger(ledgers[p])
    /\ donor_blocked \in [Pool -> BOOLEAN]

\* rebalance_reserves moves capital and neither creates nor destroys it: what
\* one pool books as received another books as paid, and supply stays put.
CapitalConserved ==
    [][Rebalancing =>
        /\ SumOver([p \in Pool |-> ledgers'[p].total_capital], Pool)
             = SumOver([p \in Pool |-> ledgers[p].total_capital], Pool)
        /\ \A p \in Pool : ledgers'[p].total_shares = ledgers[p].total_shares]_vars

\* A rebalance never pushes a pool below the floor: whoever is below it after
\* the call was below it before, the donor included whatever the rounding and
\* the clamp of its financed_amt.
NeverCreatesNeed ==
    [][Rebalancing => \A p \in Pool : BelowFloor(ledgers'[p]) => BelowFloor(ledgers[p])]_vars

\* Capital leaves only a pool governance has not blocked, and reaches only a
\* pool below the floor, which it takes no higher than the floor it was short of.
FromFreeToNeedy ==
    [][Rebalancing => \A p \in Pool :
        /\ ledgers'[p].total_capital < ledgers[p].total_capital => ~donor_blocked[p]
        /\ ledgers'[p].total_capital > ledgers[p].total_capital =>
             /\ BelowFloor(ledgers[p])
             /\ ledgers'[p].total_capital - ledgers[p].financed_amt <= Target(ledgers[p])]_vars

\* Once nothing but rebalancing happens, it comes to an end: after finitely many
\* transfers every call, by any pool with any peers, returns false.  Reserve is
\* not passed round in a circle, though each transfer lowers the donor's
\* coverage and reprices both pools.
RebalancingSettles ==
    <>[][Rebalancing]_vars => <>[](\A p \in Pool, peers \in PeerList : ~Transfers(p, peers))
==============================================================================
