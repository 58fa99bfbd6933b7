---------------------------- MODULE MCInvoiceLift ----------------------------
(* Constant values for the TLC runs of InvoiceLift. *)
EXTENDS InvoiceLift, TLC

LiftSymmetry == Permutations(Id) \cup Permutations(Buyer)
==============================================================================
