------------------------- MODULE MCRepaymentWaterfall -------------------------
(* Constant values for the TLC runs of RepaymentWaterfall. *)
EXTENDS RepaymentWaterfall, TLC

InvoiceSymmetry == Permutations(Invoice)
===============================================================================
