\* Two invoices, three tags, each usable as admin, verifier, SME, buyer and pool.
SPECIFICATION Spec
CONSTANTS
    Id = {i1, i2}
    Party = {p, q, r}
    Commitment = {0, 1}
    DueDate = {1}
    NoAdmin = NoAdmin
    NoInvoice = NoInvoice
    NoTerms = NoTerms
    Unowned = Unowned
    MaxTime = 1
SYMMETRY RegistrySymmetry
INVARIANTS TermsAgree
PROPERTIES ImplementsLifecycle TermsFixedAtBirth
