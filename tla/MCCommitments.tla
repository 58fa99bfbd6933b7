----------------------------- MODULE MCCommitments -----------------------------
(* Constant values for the TLC runs of Commitments. *)
EXTENDS Commitments

\* Every share of a scale of 100, a split in three, and lists that are refused.
SomeShares ==
    {<<s, 100 - s>> : s \in -1..101} \cup {<<50, 45, 5>>, <<50, 49>>, <<60, 60, -20>>}

OneSplit == {<<60, 40>>}

EveryTotal == I128

\* Residues modulo P = 127 whose sums fall below, on and above P.
Residues == {1, 64, 126}

\* The ends of i128 and small numbers of either sign.
SomeOpenings == {-P - 1, -1, 1, P}
Signed == SomeOpenings \cup {-P, 0}
================================================================================
