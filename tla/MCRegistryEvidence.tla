-------------------------- MODULE MCRegistryEvidence --------------------------
(* Constant values for the TLC run of RegistryEvidence. *)
EXTENDS RegistryEvidence, TLC

EvidenceSymmetry == Permutations(Signer) \cup Permutations(Party)
===============================================================================
