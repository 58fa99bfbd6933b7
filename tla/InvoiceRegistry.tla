--------------------------- MODULE InvoiceRegistry ---------------------------
(***************************************************************************)
(* The invoice lifecycle of the InvoiceRegistry contract: registration     *)
(* with and without terms, approval by the admin or by a verifier, the two *)
(* ways to assign an invoice to a pool, repayment, fraud flag and freeze.  *)
(*                                                                         *)
(* A caller is the tag it claims; the tag of the admin is checked against  *)
(* the stored one.  The addresses that sign create_invoice and             *)
(* assign_invoice may be any address and are left out.  A commitment is a  *)
(* number that nothing here computes with.                                 *)
(***************************************************************************)
EXTENDS RegistryClock

CONSTANTS
    Commitment,             \* commitments submitted, 0 among them
    DueDate,                \* due dates submitted
    NoAdmin, NoInvoice, NoTerms, Unowned    \* absent keys

VARIABLES
    admin,          \* ADMIN
    invoices,       \* InvoiceKey(id)
    terms,          \* TermsKey(TERMS_TAG, id)
    verifiers       \* who has VerifierKey(VERIFIER_TAG, p) set to true

vars == <<admin, invoices, terms, verifiers, now>>

Status == {"Pending", "Approved", "Assigned", "Repaid"}

CommittedInvoice ==
    [commitment : Commitment, status : Status, owner : Party,
     fraud_flagged : BOOLEAN, frozen : BOOLEAN]

InvoiceTerms ==
    [buyer : Party, commitment : Commitment, due_date : DueDate, created_at : Nat]

ASSUME RegistryAssumption ==
    /\ Commitment \subseteq Int /\ DueDate \subseteq Nat
    /\ NoAdmin \notin Party
    /\ NoInvoice \notin CommittedInvoice /\ NoTerms \notin InvoiceTerms
    /\ MaxTime \in Nat

Init ==
    /\ admin = NoAdmin
    /\ invoices = [i \in Id |-> NoInvoice]
    /\ terms = [i \in Id |-> NoTerms]
    /\ verifiers = {}
    /\ now = 0

Initialize(p) ==
    /\ admin = NoAdmin
    /\ admin' = p
    /\ UNCHANGED <<invoices, terms, verifiers, now>>

RequireAdmin(caller) == admin # NoAdmin /\ caller = admin

-----------------------------------------------------------------------------
(* Registration *)

NewInvoice(commitment, owner) ==
    [commitment |-> commitment, status |-> "Pending", owner |-> owner,
     fraud_flagged |-> FALSE, frozen |-> FALSE]

UnregisteredOrPending(i) == invoices[i] # NoInvoice => invoices[i].status = "Pending"
Unregistered(i) == invoices[i] = NoInvoice

Register(i, commitment, owner) ==
    /\ Unregistered(i)
    /\ invoices' = [invoices EXCEPT ![i] = NewInvoice(commitment, owner)]
    /\ UNCHANGED <<admin, terms, verifiers, now>>

TermsUnknown(i) == terms[i] = NoTerms
Unknown(i) == invoices[i] = NoInvoice /\ terms[i] = NoTerms

CreateInvoice(i, sme_tag, buyer, commitment, due_date) ==
    /\ Unknown(i)
    /\ commitment # 0
    /\ due_date > now
    /\ buyer # sme_tag
    /\ invoices' = [invoices EXCEPT ![i] = NewInvoice(commitment, sme_tag)]
    /\ terms' = [terms EXCEPT ![i] = [buyer |-> buyer, commitment |-> commitment,
                                      due_date |-> due_date, created_at |-> now]]
    /\ UNCHANGED <<admin, verifiers, now>>

-----------------------------------------------------------------------------
(* Transitions *)

Becomes(i, invoice) ==
    /\ invoices' = [invoices EXCEPT ![i] = invoice]
    /\ UNCHANGED <<admin, terms, verifiers, now>>

HasStatus(i, status) == invoices[i] # NoInvoice /\ invoices[i].status = status

Thawed(i) == ~invoices[i].frozen

Approve(caller, i) ==
    /\ RequireAdmin(caller)
    /\ HasStatus(i, "Pending") /\ Thawed(i)
    /\ Becomes(i, [invoices[i] EXCEPT !.status = "Approved"])

SetVerifier(caller, p, is_verifier) ==
    /\ RequireAdmin(caller)
    /\ verifiers' = IF is_verifier THEN verifiers \cup {p} ELSE verifiers \ {p}
    /\ UNCHANGED <<admin, invoices, terms, now>>

\* A frozen invoice is verified all the same.
VerifyInvoice(caller, i) ==
    /\ caller \in verifiers
    /\ HasStatus(i, "Pending")
    /\ Becomes(i, [invoices[i] EXCEPT !.status = "Approved"])

AssignedTo(invoice, pool) == [invoice EXCEPT !.status = "Assigned", !.owner = pool]

Assign(caller, i, new_owner) ==
    /\ RequireAdmin(caller)
    /\ HasStatus(i, "Approved") /\ Thawed(i)
    /\ Becomes(i, AssignedTo(invoices[i], new_owner))

AssignableAgain(i) == HasStatus(i, "Approved") \/ HasStatus(i, "Assigned")
Assignable(i) == HasStatus(i, "Approved")

\* Called by a PoolManager: no admin, and a frozen invoice is assigned all the same.
AssignInvoice(i, pool) ==
    /\ Assignable(i)
    /\ Becomes(i, AssignedTo(invoices[i], pool))

MarkRepaid(caller, i) ==
    /\ RequireAdmin(caller)
    /\ HasStatus(i, "Assigned") /\ Thawed(i)
    /\ Becomes(i, [invoices[i] EXCEPT !.status = "Repaid"])

FlagInvoice(caller, i) ==
    /\ RequireAdmin(caller)
    /\ invoices[i] # NoInvoice
    /\ Becomes(i, [invoices[i] EXCEPT !.fraud_flagged = TRUE])

FreezeInvoice(caller, i) ==
    /\ RequireAdmin(caller)
    /\ invoices[i] # NoInvoice
    /\ Becomes(i, [invoices[i] EXCEPT !.frozen = TRUE])

UnfreezeInvoice(caller, i) ==
    /\ RequireAdmin(caller)
    /\ invoices[i] # NoInvoice
    /\ Becomes(i, [invoices[i] EXCEPT !.frozen = FALSE])

Tick ==
    /\ now < MaxTime
    /\ now' = now + 1
    /\ UNCHANGED <<admin, invoices, terms, verifiers>>

Next ==
    \/ Tick
    \/ \E p \in Party : Initialize(p)
    \/ \E caller, p \in Party, b \in BOOLEAN : SetVerifier(caller, p, b)
    \/ \E i \in Id :
        \/ \E c \in Commitment, p \in Party : Register(i, c, p)
        \/ \E p, buyer \in Party, c \in Commitment, d \in DueDate :
             CreateInvoice(i, p, buyer, c, d)
        \/ \E p \in Party : AssignInvoice(i, p)
        \/ \E caller \in Party :
             \/ Approve(caller, i)
             \/ VerifyInvoice(caller, i)
             \/ \E p \in Party : Assign(caller, i, p)
             \/ MarkRepaid(caller, i)
             \/ FlagInvoice(caller, i)
             \/ FreezeInvoice(caller, i)
             \/ UnfreezeInvoice(caller, i)

Spec == Init /\ [][Next]_vars

-----------------------------------------------------------------------------
(* Properties *)

\* Every key holds a value of its type, or is absent.
TypeOK ==
    /\ admin \in Party \cup {NoAdmin}
    /\ invoices \in [Id -> CommittedInvoice \cup {NoInvoice}]
    /\ terms \in [Id -> InvoiceTerms \cup {NoTerms}]
    /\ verifiers \subseteq Party
    /\ now \in Nat

Stage == [i \in Id |-> IF invoices[i] = NoInvoice THEN "None" ELSE invoices[i].status]
Holder == [i \in Id |-> IF invoices[i] = NoInvoice THEN Unowned ELSE invoices[i].owner]

Frozen == {i \in Id : invoices[i] # NoInvoice /\ invoices[i].frozen}

Lifecycle == INSTANCE InvoiceLifecycle WITH stage <- Stage, holder <- Holder, held <- Frozen

\* The registry implements the lifecycle of InvoiceLifecycle: whichever of the
\* entrypoints are called, by whom and in what order, an invoice is raised,
\* approved, financed and settled once each, changes hands only when it is
\* financed, and is not settled while frozen; no call moves and thaws it at once.
\* Approved and financed a frozen invoice can be: verify_invoice and
\* assign_invoice do not look at the flag.
ImplementsLifecycle == Lifecycle!Spec

\* The two records of one invoice agree for good: terms exist only beside a
\* lifecycle record with the same nonzero commitment, and until the invoice is
\* assigned its owner is not the buyer that owes it.
TermsAgree ==
    \A i \in Id : terms[i] # NoTerms =>
        /\ invoices[i] # NoInvoice
        /\ invoices[i].commitment = terms[i].commitment /\ terms[i].commitment # 0
        /\ terms[i].created_at < terms[i].due_date /\ terms[i].created_at <= now
        /\ invoices[i].status \in {"Pending", "Approved"} =>
             invoices[i].owner # terms[i].buyer

\* Terms are written with the invoice or never: no later call attaches terms to
\* a registered invoice, or changes the terms or the commitment of one.
TermsFixedAtBirth ==
    [][\A i \in Id : invoices[i] # NoInvoice =>
        /\ terms'[i] = terms[i]
        /\ invoices'[i].commitment = invoices[i].commitment]_vars

\* Before initialize nothing moves, though verify_invoice and assign_invoice
\* never look at the admin: no verifier, no freeze, no invoice past Pending.
InertBeforeInitialize ==
    admin = NoAdmin =>
        /\ verifiers = {}
        /\ \A i \in Id : invoices[i] # NoInvoice =>
             /\ invoices[i].status = "Pending"
             /\ ~invoices[i].frozen /\ ~invoices[i].fraud_flagged
==============================================================================
