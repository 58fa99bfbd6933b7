\* The clock, the withdrawal locks and the timelocked changes of the ceiling: two
\* lenders, up to two queued actions, a negative ceiling among the values.
SPECIFICATION Spec
CONSTANTS
    NAV_SCALE = 4
    BPS_SCALE = 4
    I128_MAX = 8
    Lender = {l1, l2}
    Buyer = {}
    Sme = {}
    TIMELOCK_SECS = 2
    NoTime = NoTime
    NoConfig = NoConfig
    Amounts = {1}
    ShareCounts = {1}
    Navs = {}
    Deltas = {}
    MaxUtils <- MCNegativeToo
    LockPeriods = {2}
    WithdrawThresholds = {}
    ConcentrationLimits = {}
    PoolConfigs = {}
    MaxTime = 4
    MaxActions = 2
SYMMETRY LenderSymmetry
PROPERTIES FreshSharesStayLocked CeilingChangeWasTimelocked ActionsResolveOnce
