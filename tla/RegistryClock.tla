---------------------------- MODULE RegistryClock ----------------------------
(* What the parts of the InvoiceRegistry contract share: the ids and tags its *)
(* keys are made of, and the ledger clock.                                    *)
EXTENDS Integers

CONSTANTS
    Id, Party,      \* invoice ids; tags of admin, SMEs, buyers, pools, verifiers
    MaxTime         \* bound on the clock

VARIABLE now        \* ledger timestamp
=============================================================================
