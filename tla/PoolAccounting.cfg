\* Share and capital accounting under every order of deposits, withdrawals,
\* financing, NAV changes and reserve deltas, with the withdrawal threshold
\* at 100% or at half; no time.
SPECIFICATION Spec
CONSTANTS
    NAV_SCALE = 4
    BPS_SCALE = 4
    I128_MAX = 35
    Lender = {l1, l2}
    Buyer = {}
    Sme = {}
    TIMELOCK_SECS = 2
    NoTime = NoTime
    NoConfig = NoConfig
    Amounts = {1, 3}
    ShareCounts = {1, 2}
    Navs = {3, 7}
    Deltas <- MCDeltas
    MaxUtils <- MCNegativeToo
    LockPeriods = {}
    WithdrawThresholds = {2}
    ConcentrationLimits = {}
    PoolConfigs <- MCConfigs
    MaxTime = 0
    MaxActions = 0
SYMMETRY LenderSymmetry
INVARIANTS TypeOK SharesConserved BackingWithinRounding PositionsCovered
PROPERTIES BookedNeverExceedsPaid UtilisationSettled
