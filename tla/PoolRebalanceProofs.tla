------------------------- MODULE PoolRebalanceProofs -------------------------
(***************************************************************************)
(* A transfer between pools, for any number of pools and any parameters:   *)
(* both ledgers stay sound, the capital of all pools together stays what   *)
(* it was, and the donor does not fall below the floor.  That the two      *)
(* pools are among those listed takes that a finite list has a poorest and *)
(* a richest entry; that the donor stays above the floor takes only that   *)
(* the donor's share is strictly less than its excess.  Last, every        *)
(* transfer lowers a measure that cannot fall for ever.                    *)
(***************************************************************************)
EXTENDS PoolRebalance, PoolLedgerProofs, SumTheorems

RebalanceInv == TypeOK /\ \A p \in Pool : Backed(ledgers[p])

LEMMA RebalanceInit == Init => RebalanceInv
<1> SUFFICES ASSUME Init PROVE RebalanceInv
    OBVIOUS
<1>1. SoundLedger(Undeployed) /\ Backed(Undeployed) /\ Undeployed \in Ledger
    BY DEF Undeployed, SoundLedger, Backed, Ledger, LedgerKey
<1> QED
    BY <1>1 DEF Init, RebalanceInv, TypeOK

-----------------------------------------------------------------------------
(* The choice of the two pools *)

\* A function to the integers has a least value on a finite set.
LEMMA LeastExists ==
    ASSUME NEW S, IsFiniteSet(S), S # {}, NEW f \in [S -> Int]
    PROVE  \E m \in S : \A q \in S : f[m] <= f[q]
<1> DEFINE HasLeast(T) == T = {} \/ \E m \in T : \A q \in T : f[m] <= f[q]
           G == {T \in SUBSET S : HasLeast(T)}
<1>1. ASSUME NEW T \in SUBSET S, \A x \in T : T \ {x} \in G PROVE T \in G
    <2>1. CASE T = {}
        BY <2>1
    <2>2. CASE T # {}
        <3>1. PICK x \in T : TRUE
            BY <2>2
        <3>2. HasLeast(T \ {x})
            BY <1>1, <3>1
        <3>3. CASE T \ {x} = {}
            BY <3>1, <3>3
        <3>4. CASE \E m \in T \ {x} : \A q \in T \ {x} : f[m] <= f[q]
            <4>1. PICK m \in T \ {x} : \A q \in T \ {x} : f[m] <= f[q]
                BY <3>4
            <4>2. f[m] \in Int /\ f[x] \in Int /\ \A q \in T : f[q] \in Int
                BY <3>1, <4>1
            <4>3. CASE f[m] <= f[x]
                BY <4>1, <4>3
            <4>4. CASE f[x] < f[m]
                <5>1. \A q \in T : f[x] <= f[q]
                    BY <4>1, <4>2, <4>4
                <5> QED
                    BY <5>1
            <4> QED
                BY <4>2, <4>3, <4>4
        <3> QED
            BY <3>2, <3>3, <3>4
    <2> QED
        BY <2>1, <2>2
<1>2. \A T \in SUBSET S : (\A x \in T : T \ {x} \in G) => T \in G
    BY <1>1
<1>3. SUBSET S \subseteq G
    <2> HIDE DEF G
    <2> QED
        BY <1>2, SubsetClosure
<1> QED
    BY <1>3

\* The first of a list that is in S is in S, when S has some entry of the list.
LEMMA FirstOfIn ==
    ASSUME NEW n \in Nat, NEW order \in [1..n -> Pool], NEW S, S # {},
           S \subseteq Considered(order)
    PROVE  FirstOf(order, S) \in S
<1> DEFINE At == {i \in 1..n : order[i] \in S}
<1>1. At # {} /\ At \subseteq Nat
    BY DEF Considered
<1>2. PICK i \in At : \A j \in At : ~(<<j, i>> \in OpToRel(<, Nat))
    BY <1>1, WFMin, NatLessThanWellFounded
<1>3. ASSUME NEW j \in 1..(i - 1), order[j] \in S PROVE FALSE
    <2>1. j \in At /\ j \in Nat /\ i \in Nat /\ j < i
        BY <1>3
    <2>2. <<j, i>> \in OpToRel(<, Nat)
        BY <2>1 DEF OpToRel
    <2> QED
        BY <1>2, <2>1, <2>2
<1>4. \E k \in DOMAIN order : order[k] \in S /\ \A j \in 1..(k - 1) : order[j] \notin S
    BY <1>2, <1>3
<1> QED
    BY <1>4 DEF FirstOf

LEMMA LedgerInts ==
    ASSUME NEW l, SoundLedger(l)
    PROVE  /\ Reserve(l) \in Int /\ Target(l) \in Nat
           /\ Shortfall(l) \in Int /\ Excess(l) \in Int /\ DonorShare(l) \in Int
           /\ l.total_capital > 0 => Coverage(l) \in Int
<1>1. l.total_capital \in Nat /\ l.financed_amt \in Int
    BY SoundFields
<1>2. RESERVE_FLOOR_BPS \in Nat \ {0} /\ DONOR_CAP_BPS \in Nat \ {0} /\ BPS_SCALE \in Nat \ {0}
    BY ScaleAssumption, RebalanceAssumption
<1>3. Reserve(l) \in Int
    BY <1>1 DEF Reserve
<1>4. Target(l) \in Nat
    <2>1. l.total_capital * RESERVE_FLOOR_BPS \in Nat
        BY <1>1, <1>2
    <2> QED
        BY <2>1, <1>2, FloorNat DEF Target
<1>5. Shortfall(l) \in Int /\ Excess(l) \in Int
    BY <1>3, <1>4 DEF Shortfall, Excess
<1>6. DonorShare(l) \in Int
    <2>1. Excess(l) * DONOR_CAP_BPS \in Int
        BY <1>2, <1>5
    <2> QED
        BY <2>1, <1>2, FloorBounds DEF DonorShare
<1>7. l.total_capital > 0 => Coverage(l) \in Int
    <2>1. Reserve(l) * BPS_SCALE \in Int /\ (-(Reserve(l) * BPS_SCALE)) \in Int
        BY <1>2, <1>3
    <2> SUFFICES ASSUME l.total_capital \in Nat \ {0} PROVE Coverage(l) \in Int
        BY <1>1
    <2> QED
        BY <2>1, FloorBounds DEF Coverage, TruncDiv
<1> QED
    BY <1>3, <1>4, <1>5, <1>6, <1>7

\* Both pools are of the list; the needy one is below the floor, the donor not
\* blocked.
LEMMA ChoicesAreOfTheList ==
    ASSUME TypeOK, NEW n \in Nat, NEW order \in [1..n -> Pool],
           Needy(order) # {}, Donors(order) # {}
    PROVE  Neediest(order) \in Needy(order) /\ Richest(order) \in Donors(order)
<1>1. Considered(order) \subseteq Pool /\ IsFiniteSet(Pool)
    BY RebalanceAssumption DEF Considered
<1>2. \A p \in Pool : SoundLedger(ledgers[p])
    BY DEF TypeOK
<1>3. Needy(order) \subseteq Considered(order) /\ Donors(order) \subseteq Considered(order)
    BY DEF Needy, Donors
<1>4. IsFiniteSet(Needy(order)) /\ IsFiniteSet(Donors(order))
    BY <1>1, <1>3, FS_Subset
<1>5. Neediest(order) \in Needy(order)
    <2> DEFINE f == [p \in Needy(order) |-> Coverage(ledgers[p])]
               S == {p \in Needy(order) :
                       \A q \in Needy(order) : Coverage(ledgers[p]) <= Coverage(ledgers[q])}
    <2>1. \A p \in Needy(order) : Coverage(ledgers[p]) \in Int
        BY <1>1, <1>2, <1>3, LedgerInts DEF Needy, BelowFloor
    <2>2. \E m \in Needy(order) : \A q \in Needy(order) : f[m] <= f[q]
        <3>1. f \in [Needy(order) -> Int]
            BY <2>1
        <3> HIDE DEF f
        <3> QED
            BY <3>1, <1>4, LeastExists
    <2>3. S # {} /\ S \subseteq Considered(order) /\ S \subseteq Needy(order)
        BY <2>2, <1>3
    <2>4. Neediest(order) = FirstOf(order, S)
        BY DEF Neediest
    <2> HIDE DEF S
    <2> QED
        BY <2>3, <2>4, FirstOfIn
<1>6. Richest(order) \in Donors(order)
    <2> DEFINE f == [p \in Donors(order) |-> -Reserve(ledgers[p])]
               S == {p \in Donors(order) :
                       \A q \in Donors(order) : Reserve(ledgers[p]) >= Reserve(ledgers[q])}
    <2>1. \A p \in Donors(order) : Reserve(ledgers[p]) \in Int
        BY <1>1, <1>2, <1>3, LedgerInts
    <2>2. PICK m \in Donors(order) : \A q \in Donors(order) : f[m] <= f[q]
        <3>1. f \in [Donors(order) -> Int]
            BY <2>1
        <3> HIDE DEF f
        <3> QED
            BY <3>1, <1>4, LeastExists
    <2>3. \A q \in Donors(order) : Reserve(ledgers[m]) >= Reserve(ledgers[q])
        BY <2>1, <2>2
    <2>4. S # {} /\ S \subseteq Considered(order) /\ S \subseteq Donors(order)
        BY <2>3, <1>3
    <2>5. Richest(order) = FirstOf(order, S)
        BY DEF Richest
    <2> HIDE DEF S
    <2> QED
        BY <2>4, <2>5, FirstOfIn
<1> QED
    BY <1>5, <1>6

-----------------------------------------------------------------------------
(* The transfer *)

\* What a call that transfers has established: two different pools of the list,
\* the needy one below the floor, the donor free, and the amount within what
\* either side allows.
LEMMA TransferFacts ==
    ASSUME TypeOK, NEW self \in Pool, NEW peers \in PeerList, RebalanceReserves(self, peers)
    PROVE  \E needy \in Pool, donor \in Pool, amount \in Int :
             /\ needy # donor
             /\ BelowFloor(ledgers[needy]) /\ ~donor_blocked[donor]
             /\ amount > 0
             /\ amount <= Shortfall(ledgers[needy]) /\ amount <= DonorShare(ledgers[donor])
             /\ Excess(ledgers[donor]) > 0
             /\ MayApplyReserveDelta(ledgers[donor], -amount)
             /\ MayApplyReserveDelta(ledgers[needy], amount)
             /\ ledgers' = Moved(needy, donor, amount)
             /\ UNCHANGED donor_blocked
<1> DEFINE order == <<self>> \o peers
<1>1. PICK n \in Nat : order \in [1..n -> Pool]
    <2>1. PICK k \in 0..MaxPeers : peers \in [1..k -> Pool]
        BY DEF PeerList
    <2>2. k \in Nat /\ peers \in Seq(Pool) /\ Len(peers) = k
        BY <2>1, RebalanceAssumption
    <2>3. order \in Seq(Pool) /\ Len(order) = k + 1
        BY <2>2
    <2>4. order \in [1..Len(order) -> Pool] /\ Len(order) \in Nat
        <3> HIDE DEF order
        <3> QED
            BY <2>3
    <2> QED
        BY <2>4
<1> DEFINE needy  == Neediest(order)
           donor  == Richest(order)
           amount == Transfer(needy, donor)
<1>2. /\ Needy(order) # {} /\ Donors(order) # {}
      /\ needy # donor
      /\ Excess(ledgers[donor]) > 0 /\ amount > 0
      /\ MayApplyReserveDelta(ledgers[donor], -amount)
      /\ MayApplyReserveDelta(ledgers[needy], amount)
      /\ ledgers' = Moved(needy, donor, amount)
      /\ UNCHANGED donor_blocked
    BY DEF RebalanceReserves, Transfers
<1> HIDE DEF order
<1>3. needy \in Needy(order) /\ donor \in Donors(order)
    BY <1>1, <1>2, ChoicesAreOfTheList
<1>4. needy \in Pool /\ donor \in Pool
    BY <1>1, <1>3 DEF Needy, Donors, Considered
<1>5. BelowFloor(ledgers[needy]) /\ ~donor_blocked[donor]
    BY <1>3 DEF Needy, Donors
<1>6. Shortfall(ledgers[needy]) \in Int /\ DonorShare(ledgers[donor]) \in Int
    BY <1>4, LedgerInts DEF TypeOK
<1>7. amount \in Int /\ amount <= Shortfall(ledgers[needy]) /\ amount <= DonorShare(ledgers[donor])
    BY <1>6 DEF Transfer
<1> HIDE DEF needy, donor, amount
<1> QED
    BY <1>2, <1>4, <1>5, <1>7

\* A donor gives less than its excess.
LEMMA ShareBelowExcess ==
    ASSUME NEW e \in Int, e > 0, DONOR_CAP_BPS < BPS_SCALE
    PROVE  (e * DONOR_CAP_BPS) \div BPS_SCALE < e
<1>1. DONOR_CAP_BPS \in Nat /\ BPS_SCALE \in Nat \ {0} /\ e \in Nat \ {0}
    BY ScaleAssumption, RebalanceAssumption
<1> DEFINE q == (e * DONOR_CAP_BPS) \div BPS_SCALE
<1>2. q \in Int /\ BPS_SCALE * q <= e * DONOR_CAP_BPS
    <2>1. e * DONOR_CAP_BPS \in Int
        BY <1>1
    <2> QED
        BY <1>1, <2>1, FloorBounds
<1>3. e * DONOR_CAP_BPS < BPS_SCALE * e
    <2>1. e * DONOR_CAP_BPS <= e * (BPS_SCALE - 1)
        BY <1>1, MulMono
    <2>2. e * (BPS_SCALE - 1) = BPS_SCALE * e - e
        BY <1>1
    <2>3. e * DONOR_CAP_BPS \in Int /\ BPS_SCALE * e \in Int
        BY <1>1
    <2> QED
        BY <1>1, <2>1, <2>2, <2>3
<1> HIDE DEF q
<1>4. ASSUME e <= q PROVE FALSE
    <2>1. BPS_SCALE * e <= BPS_SCALE * q
        BY <1>1, <1>2, <1>4, MulMono
    <2>2. BPS_SCALE * e \in Int /\ BPS_SCALE * q \in Int /\ e * DONOR_CAP_BPS \in Int
        BY <1>1, <1>2
    <2> QED
        BY <1>2, <1>3, <2>1, <2>2
<1>5. q < e
    BY <1>2, <1>4
<1> QED
    BY <1>5 DEF q

\* Reserve left over the target, less one unit of rounding, is a coverage of
\* at least the floor.
LEMMA AboveTargetIsAboveFloor ==
    ASSUME NEW cap \in Nat, NEW rest \in Int, NEW given \in Nat,
           NEW target, target = ((cap + given) * RESERVE_FLOOR_BPS) \div BPS_SCALE,
           rest >= target + 1, cap > 0
    PROVE  TruncDiv(rest * BPS_SCALE, cap) >= RESERVE_FLOOR_BPS
<1>1. RESERVE_FLOOR_BPS \in Nat \ {0} /\ BPS_SCALE \in Nat \ {0}
    BY ScaleAssumption, RebalanceAssumption
<1> DEFINE F == RESERVE_FLOOR_BPS
           S == BPS_SCALE
<1>2. (cap + given) * F \in Nat /\ cap * F \in Nat /\ given * F \in Nat
    BY <1>1
<1>3. target \in Nat /\ (cap + given) * F < S * target + S
    BY <1>1, <1>2, FloorBounds, FloorNat
<1>4. (cap + given) * F = cap * F + given * F
    BY <1>1
<1>5. S * (target + 1) = S * target + S /\ S * (target + 1) <= S * rest
    BY <1>1, <1>3, MulMono
<1>6. S * target \in Nat /\ S * rest \in Int /\ rest * S = S * rest /\ cap * F = F * cap
    BY <1>1, <1>3
<1>7. cap * F <= rest * S
    BY <1>1, <1>2, <1>3, <1>4, <1>5, <1>6
<1>8. rest * S \in Nat
    BY <1>2, <1>6, <1>7
<1>9. F <= (rest * S) \div cap
    BY <1>1, <1>6, <1>7, <1>8, FloorAbove
<1>10. TruncDiv(rest * S, cap) = (rest * S) \div cap
    BY <1>8 DEF TruncDiv
<1>11. (rest * S) \div cap \in Int
    BY <1>8, FloorBounds
<1> QED
    BY <1>1, <1>9, <1>10, <1>11

\* The donor's ledger after giving: capital falls by the amount, reserve by no
\* more, so it is above the floor.
LEMMA DonorStaysAbove ==
    ASSUME NEW l, SoundLedger(l), NEW a \in Int, a > 0, a <= DonorShare(l), Excess(l) > 0,
           MayApplyReserveDelta(l, -a), DONOR_CAP_BPS < BPS_SCALE,
           NEW q, q = AfterReserveDelta(l, -a)
    PROVE  ~BelowFloor(q)
<1>1. SUFFICES ASSUME q.total_capital > 0 PROVE Coverage(q) >= RESERVE_FLOOR_BPS
    <2>1. SoundLedger(q)
        BY DeltaSound
    <2>2. q.total_capital > 0 => Coverage(q) \in Int
        BY <2>1, LedgerInts
    <2> QED
        BY <2>2, RebalanceAssumption DEF BelowFloor
<1>2. /\ q.total_capital = l.total_capital - a /\ q.total_capital \in Nat
      /\ q.financed_amt \in Int /\ l.total_capital \in Nat /\ l.financed_amt \in Int
    <2>1. SoundLedger(q) /\ q.total_capital = l.total_capital + (-a)
        BY DeltaSound
    <2> QED
        BY <2>1, SoundFields
<1>3. q.financed_amt <= l.financed_amt
    <2>1. l.max_util \in Int /\ l \in Ledger
        BY SoundFields
    <2>2. UtilLimit(l.total_capital + (-a), l.max_util) \in Int
        <3>1. l.total_capital + (-a) \in Int
            BY <1>2
        <3> QED
            BY <2>1, <3>1, UtilLimitInt
    <2>3. q.financed_amt = IF l.financed_amt > UtilLimit(l.total_capital + (-a), l.max_util)
                           THEN UtilLimit(l.total_capital + (-a), l.max_util)
                           ELSE l.financed_amt
        BY <2>1 DEF AfterReserveDelta, ClampedTo, Ledger
    <2> QED
        BY <1>2, <2>2, <2>3
<1>4. Excess(l) \in Int /\ Target(l) \in Nat /\ Reserve(l) \in Int /\ DonorShare(l) \in Int
    BY LedgerInts
<1>5. a < Excess(l)
    <2>1. DonorShare(l) < Excess(l)
        BY <1>4, ShareBelowExcess DEF DonorShare
    <2> QED
        BY <1>4, <2>1
<1>6. Reserve(q) \in Int /\ Reserve(q) >= Target(l) + 1
    <2>1. Reserve(q) = q.total_capital - q.financed_amt
        BY DEF Reserve
    <2>2. Excess(l) = (l.total_capital - l.financed_amt) - Target(l)
        BY DEF Excess, Reserve
    <2> QED
        BY <1>2, <1>3, <1>4, <1>5, <2>1, <2>2
<1>7. Target(l) = ((q.total_capital + a) * RESERVE_FLOOR_BPS) \div BPS_SCALE
    <2>1. q.total_capital + a = l.total_capital
        BY <1>2
    <2> QED
        BY <2>1 DEF Target
<1>8. TruncDiv(Reserve(q) * BPS_SCALE, q.total_capital) >= RESERVE_FLOOR_BPS
    BY <1>1, <1>2, <1>6, <1>7, AboveTargetIsAboveFloor
<1> QED
    BY <1>8 DEF Coverage

-----------------------------------------------------------------------------
(* Steps *)

\* An operation on one pool is not a transfer.
LEMMA OnePoolKeepsInv ==
    ASSUME RebalanceInv, NEW p \in Pool, NEW ledger, SoundLedger(ledger), Backed(ledger),
           Becomes(p, ledger)
    PROVE  RebalanceInv' /\ ~Rebalancing
<1>1. /\ ledgers \in [Pool -> Ledger] /\ donor_blocked \in [Pool -> BOOLEAN]
      /\ \A r \in Pool : SoundLedger(ledgers[r]) /\ Backed(ledgers[r])
      /\ ledger \in Ledger
    BY DEF RebalanceInv, TypeOK, SoundLedger
<1>2. /\ ledgers' = [ledgers EXCEPT ![p] = ledger] /\ donor_blocked' = donor_blocked
    BY DEF Becomes
<1>3. /\ ledgers' \in [Pool -> Ledger]
      /\ ledgers'[p] = ledger /\ \A r \in Pool : r # p => ledgers'[r] = ledgers[r]
    BY <1>1, <1>2
<1>4. \A r \in Pool : SoundLedger(ledgers'[r]) /\ Backed(ledgers'[r])
    BY <1>1, <1>3
<1>5. RebalanceInv'
    BY <1>1, <1>2, <1>3, <1>4 DEF RebalanceInv, TypeOK
<1>6. ~Rebalancing
    BY <1>3 DEF Rebalancing
<1> QED
    BY <1>5, <1>6

\* What a transfer does to every pool.
TransferStep ==
    /\ SumOver([p \in Pool |-> ledgers'[p].total_capital], Pool)
         = SumOver([p \in Pool |-> ledgers[p].total_capital], Pool)
    /\ \A p \in Pool :
         /\ ledgers'[p].total_shares = ledgers[p].total_shares
         /\ DONOR_CAP_BPS < BPS_SCALE /\ BelowFloor(ledgers'[p]) => BelowFloor(ledgers[p])
         /\ ledgers'[p].total_capital < ledgers[p].total_capital => ~donor_blocked[p]
         /\ ledgers'[p].total_capital > ledgers[p].total_capital =>
              /\ BelowFloor(ledgers[p])
              /\ ledgers'[p].total_capital - ledgers[p].financed_amt <= Target(ledgers[p])

LEMMA TransferKeepsInv ==
    ASSUME RebalanceInv, NEW self \in Pool, NEW peers \in PeerList, RebalanceReserves(self, peers)
    PROVE  RebalanceInv' /\ TransferStep
<1>1. /\ ledgers \in [Pool -> Ledger] /\ donor_blocked \in [Pool -> BOOLEAN] /\ TypeOK
      /\ \A r \in Pool : SoundLedger(ledgers[r]) /\ Backed(ledgers[r])
    BY DEF RebalanceInv, TypeOK
<1>2. PICK needy \in Pool, donor \in Pool, amount \in Int :
             /\ needy # donor
             /\ BelowFloor(ledgers[needy]) /\ ~donor_blocked[donor]
             /\ amount > 0
             /\ amount <= Shortfall(ledgers[needy]) /\ amount <= DonorShare(ledgers[donor])
             /\ Excess(ledgers[donor]) > 0
             /\ MayApplyReserveDelta(ledgers[donor], -amount)
             /\ MayApplyReserveDelta(ledgers[needy], amount)
             /\ ledgers' = Moved(needy, donor, amount)
             /\ UNCHANGED donor_blocked
    BY <1>1, TransferFacts
<1> DEFINE dq == AfterReserveDelta(ledgers[donor], -amount)
           nq == AfterReserveDelta(ledgers[needy], amount)
<1>3. /\ SoundLedger(dq) /\ Backed(dq)
      /\ dq.total_shares = ledgers[donor].total_shares
      /\ dq.total_capital = ledgers[donor].total_capital - amount
    <2>1. -amount \in Int /\ ledgers[donor].total_capital \in Int
        BY <1>1, SoundFields
    <2>2. dq.total_capital = ledgers[donor].total_capital + (-amount)
        BY <1>1, <1>2, <2>1, DeltaSound
    <2> QED
        BY <1>1, <1>2, <2>1, <2>2, DeltaSound
<1>4. /\ SoundLedger(nq) /\ Backed(nq)
      /\ nq.total_shares = ledgers[needy].total_shares
      /\ nq.total_capital = ledgers[needy].total_capital + amount
    BY <1>1, <1>2, DeltaSound
<1>5. DONOR_CAP_BPS < BPS_SCALE => ~BelowFloor(dq)
    BY <1>1, <1>2, DonorStaysAbove
<1>6. dq \in Ledger /\ nq \in Ledger
    BY <1>3, <1>4 DEF SoundLedger
<1>7. /\ ledgers' = [ledgers EXCEPT ![donor] = dq, ![needy] = nq]
    BY <1>1, <1>2 DEF Moved
<1> HIDE DEF dq, nq
<1>8. /\ ledgers' \in [Pool -> Ledger]
      /\ ledgers'[donor] = dq /\ ledgers'[needy] = nq
      /\ \A r \in Pool : r # donor /\ r # needy => ledgers'[r] = ledgers[r]
    BY <1>1, <1>2, <1>6, <1>7
<1>9. \A r \in Pool : SoundLedger(ledgers'[r]) /\ Backed(ledgers'[r])
    BY <1>1, <1>3, <1>4, <1>8
<1>10. RebalanceInv'
    BY <1>1, <1>2, <1>8, <1>9 DEF RebalanceInv, TypeOK
<1>11. /\ \A r \in Pool : ledgers[r].total_capital \in Int /\ ledgers[r].financed_amt \in Int
       /\ \A r \in Pool : Target(ledgers[r]) \in Int /\ Reserve(ledgers[r]) \in Int
    BY <1>1, SoundFields, LedgerInts
<1>12. SumOver([p \in Pool |-> ledgers'[p].total_capital], Pool)
         = SumOver([p \in Pool |-> ledgers[p].total_capital], Pool)
    <2> DEFINE f == [p \in Pool |-> ledgers[p].total_capital]
               e == [p \in Pool |-> ledgers'[p].total_capital]
               g == [f EXCEPT ![donor] = f[donor] - amount]
    <2>1. /\ f \in [Pool -> Int] /\ g \in [Pool -> Int] /\ e \in [Pool -> Int]
        BY <1>2, <1>3, <1>4, <1>8, <1>11
    <2>2. /\ g[donor] = f[donor] - amount /\ \A x \in Pool : x # donor => g[x] = f[x]
          /\ e[needy] = g[needy] + amount
          /\ \A x \in Pool : x # needy => e[x] = g[x]
        BY <1>2, <1>3, <1>4, <1>8, <1>11
    <2> HIDE DEF e, f, g
    <2>3. SumOver(g, Pool) = SumOver(f, Pool) - f[donor] + g[donor]
        BY <2>1, <2>2, SumUpdate, RebalanceAssumption
    <2>4. SumOver(e, Pool) = SumOver(g, Pool) - g[needy] + e[needy]
        BY <2>1, <2>2, SumUpdate, RebalanceAssumption
    <2>5. SumOver(f, Pool) \in Int /\ SumOver(g, Pool) \in Int
        BY <2>1, SumInt, RebalanceAssumption
    <2>6. f[donor] \in Int /\ g[needy] \in Int
        BY <2>1
    <2>7. SumOver(e, Pool) = SumOver(f, Pool)
        BY <2>2, <2>3, <2>4, <2>5, <2>6
    <2> QED
        BY <2>7 DEF e, f
<1>13. ASSUME NEW p \in Pool
       PROVE  /\ ledgers'[p].total_shares = ledgers[p].total_shares
              /\ DONOR_CAP_BPS < BPS_SCALE /\ BelowFloor(ledgers'[p]) => BelowFloor(ledgers[p])
              /\ ledgers'[p].total_capital < ledgers[p].total_capital => ~donor_blocked[p]
              /\ ledgers'[p].total_capital > ledgers[p].total_capital =>
                   /\ BelowFloor(ledgers[p])
                   /\ ledgers'[p].total_capital - ledgers[p].financed_amt <= Target(ledgers[p])
    <2>1. CASE p = donor
        BY <1>2, <1>3, <1>5, <1>8, <1>11, <2>1
    <2>2. CASE p = needy
        <3>1. Shortfall(ledgers[needy])
                = Target(ledgers[needy]) - (ledgers[needy].total_capital - ledgers[needy].financed_amt)
            BY DEF Shortfall, Reserve
        <3>2. (ledgers[needy].total_capital + amount) - ledgers[needy].financed_amt <= Target(ledgers[needy])
            BY <1>2, <1>11, <3>1
        <3> QED
            BY <1>2, <1>4, <1>8, <1>11, <2>2, <3>2
    <2>3. CASE p # donor /\ p # needy
        BY <1>8, <1>11, <2>3
    <2> QED
        BY <2>1, <2>2, <2>3
<1> QED
    BY <1>10, <1>12, <1>13 DEF TransferStep

LEMMA RebalanceStep ==
    ASSUME RebalanceInv, [Next]_vars
    PROVE  RebalanceInv' /\ (Rebalancing => TransferStep)
<1>1. /\ \A p \in Pool : SoundLedger(ledgers[p]) /\ Backed(ledgers[p])
    BY DEF RebalanceInv, TypeOK
<1>2. CASE \E p \in Pool, mu \in MaxUtils : Initialize(p, mu)
    <2>1. PICK p \in Pool, mu \in MaxUtils : Initialize(p, mu)
        BY <1>2
    <2>2. SoundLedger(Initialized(mu)) /\ Backed(Initialized(mu))
        BY InitializedSound, RebalanceAssumption
    <2> QED
        BY <2>1, <2>2, OnePoolKeepsInv DEF Initialize
<1>3. CASE \E p \in Pool, a \in Deposits : Deposit(p, a)
    <2>1. PICK p \in Pool, a \in Deposits : Deposit(p, a)
        BY <1>3
    <2>2. SoundLedger(AfterDeposit(ledgers[p], a)) /\ Backed(AfterDeposit(ledgers[p], a))
        BY <1>1, <2>1, DepositSound, RebalanceAssumption DEF Deposit
    <2> QED
        BY <2>1, <2>2, OnePoolKeepsInv DEF Deposit
<1>4. CASE \E p \in Pool, a \in Financings : Finance(p, a)
    <2>1. PICK p \in Pool, a \in Financings : Finance(p, a)
        BY <1>4
    <2>2. SoundLedger(AfterFinance(ledgers[p], a)) /\ Backed(AfterFinance(ledgers[p], a))
        BY <1>1, <2>1, FinanceSound, RebalanceAssumption DEF Finance
    <2> QED
        BY <2>1, <2>2, OnePoolKeepsInv DEF Finance
<1>5. CASE \E p \in Pool, b \in BOOLEAN : SetDonorBlocked(p, b)
    BY <1>5 DEF SetDonorBlocked, RebalanceInv, TypeOK, Rebalancing
<1>6. CASE Rebalance
    BY <1>6, TransferKeepsInv DEF Rebalance
<1>7. CASE UNCHANGED vars
    BY <1>7 DEF vars, RebalanceInv, TypeOK, Rebalancing
<1> QED
    BY <1>2, <1>3, <1>4, <1>5, <1>6, <1>7 DEF Next

-----------------------------------------------------------------------------
(* Why rebalancing comes to an end *)

Unsettled == {p \in Pool : ~WithinUtilisation(ledgers[p])}

DonorCapitalOf(ledger) == IF Excess(ledger) > 0 THEN ledger.total_capital ELSE 0

DonorCapital == SumOver([p \in Pool |-> DonorCapitalOf(ledgers[p])], Pool)

RunsDownStep ==
    \/ Unsettled' \subseteq Unsettled /\ Unsettled' # Unsettled
    \/ /\ Unsettled' = Unsettled
       /\ DonorCapital' \in Nat /\ DonorCapital \in Nat
       /\ DonorCapital' < DonorCapital

\* A transfer leaves fewer pools financed beyond their ceiling or, with those as
\* they were, less capital in pools that have an excess to give.  Neither can go
\* on for ever, so neither can rebalancing.
TransfersRunDown == [][Rebalancing => RunsDownStep]_vars

\* More capital does not lower the limit of a ceiling that is not negative.
LEMMA UtilLimitMono ==
    ASSUME NEW c \in Nat, NEW d \in Nat, c <= d, NEW mu \in Nat
    PROVE  UtilLimit(c, mu) <= UtilLimit(d, mu)
<1>1. BPS_SCALE \in Nat \ {0}
    BY ScaleAssumption
<1>2. c * mu \in Nat /\ d * mu \in Nat /\ c * mu <= d * mu
    <2>1. mu * c <= mu * d
        BY MulMono
    <2> QED
        BY <2>1
<1>3. /\ (c * mu) \div BPS_SCALE \in Int
      /\ BPS_SCALE * ((c * mu) \div BPS_SCALE) <= c * mu
    BY <1>1, <1>2, FloorBounds
<1>4. (c * mu) \div BPS_SCALE <= (d * mu) \div BPS_SCALE
    <2>1. BPS_SCALE * ((c * mu) \div BPS_SCALE) <= d * mu
        BY <1>1, <1>2, <1>3
    <2> QED
        BY <1>1, <1>2, <1>3, <2>1, FloorAbove
<1> QED
    BY <1>2, <1>4 DEF UtilLimit, TruncDiv

\* Under a negative ceiling nothing may be financed.
LEMMA UtilLimitNegative ==
    ASSUME NEW c \in Nat, NEW mu \in Int, mu < 0
    PROVE  UtilLimit(c, mu) <= 0
<1>1. BPS_SCALE \in Nat \ {0} /\ c * mu \in Int /\ c * mu <= 0
    <2>1. c * mu <= c * 0
        BY MulMono
    <2> QED
        BY <2>1, ScaleAssumption
<1>2. PICK v : v = c * mu
    OBVIOUS
<1>3. CASE v >= 0
    <2>1. v = 0 /\ 0 \div BPS_SCALE = 0
        BY <1>1, <1>2, <1>3
    <2> QED
        BY <1>2, <2>1 DEF UtilLimit, TruncDiv
<1>4. CASE v < 0
    <2>1. -v \in Nat
        BY <1>1, <1>2, <1>4
    <2>2. (-v) \div BPS_SCALE \in Nat
        BY <1>1, <2>1, FloorNat
    <2>3. TruncDiv(v, BPS_SCALE) = -((-v) \div BPS_SCALE)
        BY <1>1, <1>2, <1>4 DEF TruncDiv
    <2> QED
        BY <1>2, <2>2, <2>3 DEF UtilLimit
<1> QED
    BY <1>1, <1>2, <1>3, <1>4

\* The target of a pool does not fall when its capital grows.
LEMMA TargetMono ==
    ASSUME NEW l, NEW q, l.total_capital \in Nat, q.total_capital \in Nat,
           l.total_capital <= q.total_capital
    PROVE  Target(l) \in Nat /\ Target(q) \in Nat /\ Target(l) <= Target(q)
<1>1. BPS_SCALE \in Nat \ {0} /\ RESERVE_FLOOR_BPS \in Nat
    BY ScaleAssumption, RebalanceAssumption
<1>2. PICK c \in Nat, d \in Nat : c = l.total_capital * RESERVE_FLOOR_BPS
                                  /\ d = q.total_capital * RESERVE_FLOOR_BPS
    <2>1. l.total_capital * RESERVE_FLOOR_BPS \in Nat /\ q.total_capital * RESERVE_FLOOR_BPS \in Nat
        BY <1>1
    <2> QED
        BY <2>1
<1>3. c <= d
    <2>1. RESERVE_FLOOR_BPS * l.total_capital <= RESERVE_FLOOR_BPS * q.total_capital
        BY <1>1, MulMono
    <2> QED
        BY <1>1, <1>2, <2>1
<1>4. c \div BPS_SCALE \in Nat /\ d \div BPS_SCALE \in Nat /\ BPS_SCALE * (c \div BPS_SCALE) <= c
    <2>1. c \div BPS_SCALE \in Nat /\ d \div BPS_SCALE \in Nat
        BY <1>1, FloorNat
    <2>2. BPS_SCALE * (c \div BPS_SCALE) <= c
        BY <1>1, FloorBounds
    <2> QED
        BY <2>1, <2>2
<1>5. BPS_SCALE * (c \div BPS_SCALE) <= d /\ c \div BPS_SCALE \in Int
    BY <1>1, <1>3, <1>4
<1>6. c \div BPS_SCALE <= d \div BPS_SCALE
    BY <1>1, <1>5, FloorAbove
<1> QED
    BY <1>2, <1>4, <1>6 DEF Target

\* A pool short of its target that is financed within its ceiling, given no more
\* than its shortfall, has no excess before or after.
LEMMA RecipientHasNoExcess ==
    ASSUME NEW l, SoundLedger(l), WithinUtilisation(l),
           NEW a \in Int, a > 0, a <= Shortfall(l), MayApplyReserveDelta(l, a),
           NEW q, q = AfterReserveDelta(l, a)
    PROVE  Excess(l) <= 0 /\ Excess(q) <= 0
<1>1. /\ SoundLedger(q) /\ q.total_capital = l.total_capital + a /\ q.max_util = l.max_util
    BY DeltaSound
<1>2. /\ l.total_capital \in Nat /\ q.total_capital \in Nat
      /\ l.financed_amt \in Int /\ q.financed_amt \in Int /\ l.max_util \in Int /\ l \in Ledger
    BY <1>1, SoundFields
<1>3. Target(l) \in Nat /\ Target(q) \in Nat /\ Target(l) <= Target(q)
    <2>1. l.total_capital <= q.total_capital
        BY <1>1, <1>2
    <2> QED
        BY <1>2, <2>1, TargetMono
<1>4. Shortfall(l) = Target(l) - (l.total_capital - l.financed_amt)
    BY DEF Shortfall, Reserve
<1>5. Excess(l) = (l.total_capital - l.financed_amt) - Target(l)
      /\ Excess(q) = (q.total_capital - q.financed_amt) - Target(q)
    BY DEF Excess, Reserve
<1>6. Target(l) <= l.total_capital
    <2>1. BPS_SCALE \in Nat \ {0} /\ RESERVE_FLOOR_BPS \in Nat /\ RESERVE_FLOOR_BPS <= BPS_SCALE
        BY ScaleAssumption, RebalanceAssumption
    <2>2. l.total_capital * RESERVE_FLOOR_BPS <= l.total_capital * BPS_SCALE
        BY <1>2, <2>1, MulMono
    <2>3. PICK c \in Nat : c = l.total_capital * RESERVE_FLOOR_BPS
        BY <1>2, <2>1
    <2>4. BPS_SCALE * (c \div BPS_SCALE) <= c /\ c \div BPS_SCALE \in Nat
        BY <2>1, FloorBounds, FloorNat
    <2>5. PICK t \in Nat : t = c \div BPS_SCALE
        BY <2>4
    <2>6. BPS_SCALE * t <= BPS_SCALE * l.total_capital
        BY <1>2, <2>1, <2>2, <2>3, <2>4, <2>5
    <2>7. t <= l.total_capital
        BY <1>2, <2>1, <2>5, <2>6
    <2> QED
        BY <2>3, <2>5, <2>7 DEF Target
<1>7. l.max_util >= 0
    <2> SUFFICES ASSUME l.max_util < 0 PROVE FALSE
        BY <1>2
    <2>1. UtilLimit(l.total_capital, l.max_util) <= 0
        BY <1>2, UtilLimitNegative
    <2>2. UtilLimit(l.total_capital, l.max_util) \in Int
        <3>1. l.total_capital \in Int
            BY <1>2
        <3> QED
            BY <1>2, <3>1, UtilLimitInt
    <2>3. l.financed_amt <= 0
        BY <1>2, <2>1, <2>2 DEF WithinUtilisation
    <2> QED
        BY <1>2, <1>3, <1>4, <1>6, <2>3
<1>8. q.financed_amt = l.financed_amt
    <2>1. UtilLimit(l.total_capital, l.max_util) <= UtilLimit(l.total_capital + a, l.max_util)
        <3>1. l.max_util \in Nat /\ l.total_capital + a \in Nat /\ l.total_capital <= l.total_capital + a
            BY <1>2, <1>7
        <3> QED
            BY <1>2, <3>1, UtilLimitMono
    <2>2. UtilLimit(l.total_capital, l.max_util) \in Int
          /\ UtilLimit(l.total_capital + a, l.max_util) \in Int
        <3>1. l.total_capital \in Int /\ l.total_capital + a \in Int
            BY <1>2
        <3> QED
            BY <1>2, <3>1, UtilLimitInt
    <2>3. l.financed_amt <= UtilLimit(l.total_capital + a, l.max_util)
        BY <1>2, <2>1, <2>2 DEF WithinUtilisation
    <2>4. q.financed_amt = IF l.financed_amt > UtilLimit(l.total_capital + a, l.max_util)
                           THEN UtilLimit(l.total_capital + a, l.max_util)
                           ELSE l.financed_amt
        BY <1>2 DEF AfterReserveDelta, ClampedTo, Ledger
    <2> QED
        BY <1>2, <2>2, <2>3, <2>4
<1> QED
    BY <1>1, <1>2, <1>3, <1>4, <1>5, <1>8

LEMMA DonorCapitalOfNat ==
    ASSUME NEW l, SoundLedger(l)
    PROVE  DonorCapitalOf(l) \in Nat
BY SoundFields DEF DonorCapitalOf

LEMMA TransferRunsDown ==
    ASSUME RebalanceInv, NEW self \in Pool, NEW peers \in PeerList, RebalanceReserves(self, peers)
    PROVE  RunsDownStep
<1>1. /\ ledgers \in [Pool -> Ledger] /\ TypeOK
      /\ \A r \in Pool : SoundLedger(ledgers[r])
    BY DEF RebalanceInv, TypeOK
<1>2. PICK needy \in Pool, donor \in Pool, amount \in Int :
             /\ needy # donor
             /\ amount > 0
             /\ amount <= Shortfall(ledgers[needy])
             /\ Excess(ledgers[donor]) > 0
             /\ MayApplyReserveDelta(ledgers[donor], -amount)
             /\ MayApplyReserveDelta(ledgers[needy], amount)
             /\ ledgers' = Moved(needy, donor, amount)
    BY <1>1, TransferFacts
<1> DEFINE dq == AfterReserveDelta(ledgers[donor], -amount)
           nq == AfterReserveDelta(ledgers[needy], amount)
<1>3. /\ SoundLedger(dq) /\ WithinUtilisation(dq)
      /\ dq.total_capital = ledgers[donor].total_capital - amount
    <2>1. -amount \in Int /\ ledgers[donor].total_capital \in Int
        BY <1>1, SoundFields
    <2>2. SoundLedger(dq) /\ WithinUtilisation(dq)
          /\ dq.total_capital = ledgers[donor].total_capital + (-amount)
        BY <1>1, <1>2, <2>1, DeltaSound
    <2> QED
        BY <2>1, <2>2
<1>4. SoundLedger(nq) /\ WithinUtilisation(nq)
    BY <1>1, <1>2, DeltaSound
<1>5. WithinUtilisation(ledgers[needy]) => Excess(ledgers[needy]) <= 0 /\ Excess(nq) <= 0
    BY <1>1, <1>2, RecipientHasNoExcess
<1>6. ledgers' = [ledgers EXCEPT ![donor] = dq, ![needy] = nq]
    BY <1>1, <1>2 DEF Moved
<1>7. dq \in Ledger /\ nq \in Ledger
    BY <1>3, <1>4 DEF SoundLedger
<1> HIDE DEF dq, nq
<1>8. /\ ledgers' \in [Pool -> Ledger]
      /\ ledgers'[donor] = dq /\ ledgers'[needy] = nq
      /\ \A r \in Pool : r # donor /\ r # needy => ledgers'[r] = ledgers[r]
    BY <1>1, <1>2, <1>6, <1>7
<1>9. Unsettled' = Unsettled \ {donor, needy}
    BY <1>3, <1>4, <1>8 DEF Unsettled
<1>10. CASE donor \in Unsettled \/ needy \in Unsettled
    BY <1>9, <1>10 DEF RunsDownStep
<1>11. CASE donor \notin Unsettled /\ needy \notin Unsettled
    <2>1. Unsettled' = Unsettled
        BY <1>9, <1>11
    <2>2. Excess(ledgers[needy]) <= 0 /\ Excess(nq) <= 0
        BY <1>2, <1>5, <1>11 DEF Unsettled
    <2>3. DonorCapitalOf(ledgers[needy]) = 0 /\ DonorCapitalOf(nq) = 0
        <3>1. Excess(ledgers[needy]) \in Int /\ Excess(nq) \in Int
            BY <1>1, <1>4, LedgerInts
        <3> QED
            BY <2>2, <3>1 DEF DonorCapitalOf
    <2>4. DonorCapitalOf(dq) < DonorCapitalOf(ledgers[donor])
        <3>1. DonorCapitalOf(ledgers[donor]) = ledgers[donor].total_capital
            BY <1>2 DEF DonorCapitalOf
        <3>2. DonorCapitalOf(dq) = dq.total_capital \/ DonorCapitalOf(dq) = 0
            BY DEF DonorCapitalOf
        <3>3. dq.total_capital \in Nat /\ ledgers[donor].total_capital \in Nat
            BY <1>1, <1>3, SoundFields
        <3> QED
            BY <1>2, <1>3, <3>1, <3>2, <3>3
    <2> DEFINE f == [p \in Pool |-> DonorCapitalOf(ledgers[p])]
               e == [p \in Pool |-> DonorCapitalOf(ledgers'[p])]
    <2>5. /\ f \in [Pool -> Nat] /\ e \in [Pool -> Nat]
        <3>1. \A p \in Pool : SoundLedger(ledgers'[p])
            BY <1>1, <1>3, <1>4, <1>8
        <3> QED
            BY <1>1, <3>1, DonorCapitalOfNat
    <2>6. e[donor] < f[donor] /\ \A x \in Pool : x # donor => e[x] = f[x]
        <3>1. \A x \in Pool : x # donor => DonorCapitalOf(ledgers'[x]) = DonorCapitalOf(ledgers[x])
            BY <1>8, <2>3
        <3> QED
            BY <1>8, <2>4, <3>1
    <2>7. DonorCapital = SumOver(f, Pool) /\ DonorCapital' = SumOver(e, Pool)
        BY DEF DonorCapital, DonorCapitalOf, Excess, Reserve, Target
    <2> HIDE DEF e, f
    <2>8. f \in [Pool -> Int] /\ e \in [Pool -> Int] /\ f[donor] \in Int /\ e[donor] \in Int
        BY <2>5
    <2>9. SumOver(e, Pool) = SumOver(f, Pool) - f[donor] + e[donor]
        BY <2>6, <2>8, SumUpdate, RebalanceAssumption
    <2>10. SumOver(e, Pool) \in Nat /\ SumOver(f, Pool) \in Nat
        BY <2>5, SumNat, RebalanceAssumption
    <2>11. SumOver(e, Pool) < SumOver(f, Pool)
        BY <2>6, <2>8, <2>9, <2>10
    <2> QED
        BY <2>1, <2>7, <2>10, <2>11 DEF RunsDownStep
<1> QED
    BY <1>10, <1>11

\* Only a transfer changes two ledgers.
LEMMA OnlyTransfersRebalance ==
    ASSUME RebalanceInv, [Next]_vars, Rebalancing
    PROVE  Rebalance
<1>1. ledgers \in [Pool -> Ledger]
    BY DEF RebalanceInv, TypeOK
<1>2. ASSUME NEW p \in Pool, NEW ledger, Becomes(p, ledger) PROVE FALSE
    <2>1. \A r \in Pool : r # p => ledgers'[r] = ledgers[r]
        BY <1>1, <1>2 DEF Becomes
    <2> QED
        BY <2>1 DEF Rebalancing
<1>3. CASE \E p \in Pool, mu \in MaxUtils : Initialize(p, mu)
    BY <1>2, <1>3 DEF Initialize
<1>4. CASE \E p \in Pool, a \in Deposits : Deposit(p, a)
    BY <1>2, <1>4 DEF Deposit
<1>5. CASE \E p \in Pool, a \in Financings : Finance(p, a)
    BY <1>2, <1>5 DEF Finance
<1>6. CASE \E p \in Pool, b \in BOOLEAN : SetDonorBlocked(p, b)
    BY <1>6 DEF SetDonorBlocked, Rebalancing
<1>7. CASE UNCHANGED vars
    BY <1>7 DEF vars, Rebalancing
<1> QED
    BY <1>3, <1>4, <1>5, <1>6, <1>7 DEF Next

-----------------------------------------------------------------------------
(* Theorems *)

\* Every pool's ledger stays sound and its NAV backed, whoever rebalances with
\* whom.
THEOREM LedgersStaySound == Spec => []RebalanceInv
<1>1. RebalanceInv /\ [Next]_vars => RebalanceInv'
    BY RebalanceStep
<1> QED
    BY <1>1, RebalanceInit, PTL DEF Spec

\* rebalance_reserves neither creates nor destroys capital.
THEOREM RebalancingConserves == Spec => CapitalConserved
<1>1. RebalanceInv /\ [Next]_vars =>
        [Rebalancing =>
          /\ SumOver([p \in Pool |-> ledgers'[p].total_capital], Pool)
               = SumOver([p \in Pool |-> ledgers[p].total_capital], Pool)
          /\ \A p \in Pool : ledgers'[p].total_shares = ledgers[p].total_shares]_vars
    BY RebalanceStep DEF TransferStep
<1> QED
    BY <1>1, LedgersStaySound, PTL DEF Spec, CapitalConserved

\* A donor that gives strictly less than its excess is not pushed below the
\* floor by the rounding of its target, nor by the clamp of its financed_amt.
THEOREM RebalancingCreatesNoNeed ==
    ASSUME DONOR_CAP_BPS < BPS_SCALE
    PROVE  Spec => NeverCreatesNeed
<1>1. RebalanceInv /\ [Next]_vars =>
        [Rebalancing => \A p \in Pool : BelowFloor(ledgers'[p]) => BelowFloor(ledgers[p])]_vars
    BY RebalanceStep DEF TransferStep
<1> QED
    BY <1>1, LedgersStaySound, PTL DEF Spec, NeverCreatesNeed

\* Capital moves from a pool that is not blocked to one below the floor.
THEOREM RebalancingGoesToTheNeedy == Spec => FromFreeToNeedy
<1>1. RebalanceInv /\ [Next]_vars =>
        [Rebalancing => \A p \in Pool :
          /\ ledgers'[p].total_capital < ledgers[p].total_capital => ~donor_blocked[p]
          /\ ledgers'[p].total_capital > ledgers[p].total_capital =>
               /\ BelowFloor(ledgers[p])
               /\ ledgers'[p].total_capital - ledgers[p].financed_amt <= Target(ledgers[p])]_vars
    BY RebalanceStep DEF TransferStep
<1> QED
    BY <1>1, LedgersStaySound, PTL DEF Spec, FromFreeToNeedy

\* The measure behind RebalancingSettles: reserve is not passed round in a
\* circle, for any number of pools and any parameters.
THEOREM RebalancingRunsDown == Spec => TransfersRunDown
<1>1. RebalanceInv /\ [Next]_vars => [Rebalancing => RunsDownStep]_vars
    BY OnlyTransfersRebalance, TransferRunsDown DEF Rebalance
<1> QED
    BY <1>1, LedgersStaySound, PTL DEF Spec, TransfersRunDown
=============================================================================
