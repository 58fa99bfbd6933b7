\* Whether a proposal reported as rejected stays rejected.
SPECIFICATION Spec
CONSTANTS
    Voter = {v1, v2}
    Param = {max_util}
    Value = {1, 2}
    BPS_SCALE = 10
    STANDARD_THRESHOLD_BPS = 5
    I128_MAX = 50
    NoConfig = NoConfig
    NoValue = NoValue
    Powers <- SomePowers
    Periods = {1}
    QuorumBps = {4}
    SupermajorityBps = {8}
    MaxProposals = 2
    MaxTime = 2
SYMMETRY VoterSymmetry
INVARIANTS RejectedStaysRejected
