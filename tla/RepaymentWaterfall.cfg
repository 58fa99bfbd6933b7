\* Payments of 1 and 3 against dues of 0 and 1, two invoices, a window of 2 seconds.
SPECIFICATION Spec
CONSTANTS
    NAV_SCALE = 2
    BPS_SCALE = 2
    I128_MAX = 20
    Invoice = {i1, i2}
    CIRCUIT_BREAKER_WINDOW_SECS = 2
    U64_MAX = 4
    MaxUtil = 1
    Seed = 2
    Amounts = {1, 3}
    Dues = {0, 1}
    Losses = {1, 2}
    Volumes = {1, 2}
    Thresholds = {2, 3}
    GracePeriods = {1}
    DueDates = {1, 4}
    NotMarked = NotMarked
    NoRecord = NoRecord
    MaxReceived = 4
    MaxVolume = 4
    MaxTime = 4
SYMMETRY InvoiceSymmetry
INVARIANTS PoolGetsWhatIsPaid DefaultedIffCharged SurgeIsBounded
PROPERTIES ChargedOnceWhenDelinquent
