\* Three pools, every list of up to two peers, at a floor of 1/4 and a donor cap
\* of 1/2.
SPECIFICATION FairSpec
CONSTANTS
    NAV_SCALE = 4
    BPS_SCALE = 4
    I128_MAX = 55
    Pool = {p1, p2, p3}
    RESERVE_FLOOR_BPS = 1
    DONOR_CAP_BPS = 2
    Deposits = {8}
    Financings = {4, 8}
    MaxUtils = {4}
    MaxPeers = 2
PROPERTIES CapitalConserved NeverCreatesNeed FromFreeToNeedy RebalancingSettles
