\* One invoice, two signers (lists of up to two, with repetition), two holders.
SPECIFICATION EvidenceSpec
CONSTANTS
    Id = {i1}
    Party = {p, q}
    Signer = {a, b}
    Hash = {h0, h1}
    FirstHash = h0
    DEFAULT_TIMEOUT_SECS = 1
    UPGRADE_TIMELOCK_SECS = 2
    MAX_ROYALTY_BPS = 2
    Required = {0, 1, 2}
    Royalties = {2, 3}
    NotConfigured = NotConfigured
    NotMinted = NotMinted
    NothingQueued = NothingQueued
    MaxSigners = 2
    MaxTransfers = 2
    MaxTime = 3
SYMMETRY EvidenceSymmetry
INVARIANTS QuorumIsSigned
PROPERTIES VerdictFinal OwnershipTraced UpgradeWasPublic
