-------------------------- MODULE MCInvoiceRegistry --------------------------
(* Constant values for the TLC runs of InvoiceRegistry. *)
EXTENDS InvoiceRegistry, TLC

RegistrySymmetry == Permutations(Id) \cup Permutations(Party)
==============================================================================
