------------------------------ MODULE Commitments ------------------------------
(***************************************************************************)
(* Confidential splitting of an invoice amount: the arithmetic modulo      *)
(* P = 2^127 - 1 that RepaymentWaterfall and pedersen.rs share, the        *)
(* Pedersen commitments of the second, and the calls split_commitment and  *)
(* verify_split of the first.  The width is a parameter: mod_mul cuts its  *)
(* operands into limbs below BASE = 2 * HALF, and u128 and i128 are the    *)
(* integers that two limbs hold, P the largest of the signed ones.         *)
(***************************************************************************)
EXTENDS Integers, Sequences, FiniteSets, Sums

CONSTANTS
    HALF,               \* 2^63 in the code
    SHARE_SCALE,        \* 10_000 in the code
    Shares,             \* inputs: lists of the shares of the tiers
    Totals, Forgeries,  \* inputs: commitments and parts submitted
    Openings            \* inputs: values and blindings committed to

BASE  == 2 * HALF           \* one more than the mask of a limb
U_MAX == BASE * BASE - 1    \* u128::MAX
P     == BASE * HALF - 1    \* i128::MAX
I128  == (-P - 1)..P

ASSUME CommitmentAssumption ==
    /\ HALF \in Nat \ {0, 1} /\ SHARE_SCALE \in Nat \ {0}
    /\ Shares \subseteq Seq(I128)
    /\ Totals \subseteq I128 /\ Forgeries \subseteq I128
    /\ Openings \subseteq I128

VARIABLES
    total,      \* the commitment to be split
    shares,     \* the shares it was last split by, <<>> if it was not
    parts       \* the parts submitted for verification

commit_vars == <<total, shares, parts>>

-----------------------------------------------------------------------------
(* Arithmetic *)

ReduceKeepingP(x) == (x % (P + 1)) + (x \div (P + 1))
Reduce(x) ==
    LET folded == (x % (P + 1)) + (x \div (P + 1))
    IN IF folded >= P THEN folded - P ELSE folded

\* x & (unit - 1) and the shift right that goes with it.
LowPart(x, unit) == x % unit
HighPart(x, unit) == x \div unit

CrossTermOneBitHigh(r1) == LowPart(r1, BASE) * BASE + HighPart(r1, BASE)
CrossTerm(r1) == LowPart(r1, HALF) * BASE + HighPart(r1, HALF)

\* The arguments mod_mul gives to reduce_u128, by the name of the result.
Products(a, b) ==
    [r0   |-> LowPart(a, BASE) * LowPart(b, BASE),
     r1_1 |-> LowPart(a, BASE) * HighPart(b, BASE),
     r1_2 |-> HighPart(a, BASE) * LowPart(b, BASE),
     r2   |-> HighPart(a, BASE) * HighPart(b, BASE)]

Folds(a, b) ==
    LET p         == Products(a, b)
        r1        == Reduce(p.r1_1) + Reduce(p.r1_2)
        r1_scaled == CrossTerm(Reduce(r1))
        r2_scaled == 2 * Reduce(p.r2)
        sum1      == Reduce(p.r0) + Reduce(r1_scaled)
    IN [r1 |-> r1, r1_scaled |-> r1_scaled, r2_scaled |-> r2_scaled, sum1 |-> sum1,
        total |-> Reduce(sum1) + Reduce(r2_scaled)]

FitU128(values) == \A f \in DOMAIN values : values[f] \in 0..U_MAX

\* rem_euclid, for a positive modulus.
Residue(a) == a % P

ModMul(a, b) == Reduce(Folds(Residue(a), Residue(b)).total)

\* The variables of the loop of mod_inverse, one turn of it, and where it ends.
LoopState == [old_r : 0..P, r : 0..P, old_s : Int, s : Int]

Turn(e) ==
    LET q == e.old_r \div e.r
    IN [old_r |-> e.r, r |-> e.old_r - q * e.r, old_s |-> e.s, s |-> e.old_s - q * e.s]

Euclid[e \in LoopState] == IF e.r = 0 THEN e ELSE Euclid[Turn(e)]

EuclidOf(a) == Euclid[[old_r |-> Residue(a), r |-> P, old_s |-> 1, s |-> 0]]

Invertible(a) == EuclidOf(a).old_r = 1
ModInverse(a) == Residue(EuclidOf(a).old_s)

ScaleCommitment(c, share) == ModMul(ModMul(c, share), ModInverse(SHARE_SCALE))

-----------------------------------------------------------------------------
(* Pedersen commitments *)

G == 5
H == 7

AddCommitmentsUnreduced(c1, c2) == c1 + c2
AddCommitments(c1, c2) == Reduce(c1 + c2)

Commit(value, blinding) == AddCommitments(ModMul(value, G), ModMul(blinding, H))

Verify(commitment, value, blinding) == Commit(value, blinding) = commitment

-----------------------------------------------------------------------------
(* Entrypoints *)

AsU128(x) == IF x < 0 THEN x + U_MAX + 1 ELSE x

\* The sum verify_split carries from part to part, or Trapped once one has
\* left u128.
Trapped == -1
PartSum(ps) ==
    LET sum[k \in 0..Len(ps)] ==
            IF k = 0 THEN 0
            ELSE IF sum[k - 1] = Trapped \/ sum[k - 1] + AsU128(ps[k]) > U_MAX THEN Trapped
            ELSE Reduce(sum[k - 1] + AsU128(ps[k]))
    IN sum[Len(ps)]

VerifySplit(ps, c) == PartSum(ps) = Residue(c)

CommitInit ==
    /\ total \in Totals
    /\ shares = <<>>
    /\ parts = <<>>

ValidShares(s) ==
    /\ \A k \in DOMAIN s : s[k] > 0
    /\ SumOver(s, DOMAIN s) = SHARE_SCALE

\* The entrypoints keep no state: a behaviour is one split and what is then
\* submitted as its parts.
SplitCommitment(s) ==
    /\ parts = <<>>
    /\ ValidShares(s)
    /\ Invertible(SHARE_SCALE)
    /\ shares' = s
    /\ parts' = [k \in DOMAIN s |-> ScaleCommitment(total, s[k])]
    /\ UNCHANGED total

\* Whoever submits the parts for verification may submit others.
Replace(k, part) ==
    /\ parts' = [parts EXCEPT ![k] = part]
    /\ shares' = <<>>
    /\ UNCHANGED total

CommitNext ==
    \/ \E s \in Shares : SplitCommitment(s)
    \/ \E k \in DOMAIN parts, part \in Forgeries : Replace(k, part)

CommitSpec == CommitInit /\ [][CommitNext]_commit_vars

-----------------------------------------------------------------------------
(* Properties *)

\* A split is exact: each part is the one residue that, times the scale, is the
\* total times the share, as computed by plain integer arithmetic.  And it does
\* not trap, overflow checks being on: no intermediate value leaves u128.
PartsAreShares ==
    \A k \in DOMAIN shares :
        /\ parts[k] \in 0..(P - 1)
        /\ (parts[k] * SHARE_SCALE - total * shares[k]) % P = 0
        /\ FitU128(Products(Residue(total), Residue(shares[k])))
        /\ FitU128(Folds(Residue(total), Residue(shares[k])))

\* Commitments add as their openings do: the parts of a split verify against
\* what was split, whatever the total, zero, negative and i128::MIN among them; two
\* commitments, to the commitment to the sums of values and blindings; and
\* verify accepts the openings of the same residue v * G + r * H and no others.
OpeningsAdd ==
    /\ shares # <<>> => VerifySplit(parts, total)
    /\ parts = <<>> => \A r1, v2, r2 \in Openings :
         /\ total + v2 \in I128 /\ r1 + r2 \in I128 =>
              AddCommitments(Commit(total, r1), Commit(v2, r2)) = Commit(total + v2, r1 + r2)
         /\ Verify(Commit(total, r1), v2, r2)
              <=> ((total - v2) * G + (r1 - r2) * H) % P = 0

\* Of parts that are residues, verify_split accepts those that sum to the total
\* modulo P, and no others.
AcceptsExactly ==
    (\A k \in DOMAIN parts : parts[k] \in 0..(P - 1)) =>
        (VerifySplit(parts, total)
            <=> (SumOver(parts, DOMAIN parts) - total) % P = 0)

-----------------------------------------------------------------------------
(* What the documentation says and the code does not do. *)

\* The comment of verify_split: it verifies that the sum of the parts equals the
\* total commitment mod P, here of parts of either sign, as its type allows.
VerifiedSumsToTotal ==
    VerifySplit(parts, total) =>
        (SumOver(parts, DOMAIN parts) - total) % P = 0
================================================================================
