\* One lender, two buyers, one SME, two invoices; the pool's tag and one other,
\* either of which may be the registry's admin, an SME or a pool.
SPECIFICATION LiftSpec
CONSTANTS
    NAV_SCALE = 2
    BPS_SCALE = 2
    I128_MAX = 11
    Lender = {l1}
    Buyer = {b1, b2}
    Sme = {s1}
    TIMELOCK_SECS = 2
    NoTime = NoTime
    NoConfig = NoConfig
    Amounts = {3}
    ShareCounts = {2}
    Navs = {}
    Deltas = {}
    MaxUtils = {2}
    LockPeriods = {}
    WithdrawThresholds = {}
    ConcentrationLimits = {1, 2}
    PoolConfigs = {}
    MaxTime = 0
    MaxActions = 0
    Id = {i1, i2}
    Party = {pt, other}
    Commitment = {1}
    DueDate = {}
    NoAdmin = NoAdmin
    NoInvoice = NoInvoice
    NoTerms = NoTerms
    Unowned = Unowned
    CIRCUIT_BREAKER_WINDOW_SECS = 2
    U64_MAX = 4
    Dues = {1}
    Losses = {1}
    Volumes = {}
    Thresholds = {}
    GracePeriods = {}
    DueDates = {0}
    NotMarked = NotMarked
    NoRecord = NoRecord
    MaxReceived = 3
    MaxVolume = 0
    PoolTag = pt
    Loans = {1}
    Payments = {3}
    MaxPaidIn = 3
    MaxElsewhere = 1
SYMMETRY LiftSymmetry
INVARIANTS LoanBook CapitalBackedByCash ExposureTablesAgree
PROPERTIES ExposureRisesWithFinancing
