---------------------------- MODULE MCGovernance ----------------------------
(* Constant values for the TLC runs of Governance. *)
EXTENDS Governance, TLC

\* A negative power is refused; a vote of 3 outweighs one of 1.
SomePowers == {-1, 0, 1, 3}

VoterSymmetry == Permutations(Voter)
=============================================================================
