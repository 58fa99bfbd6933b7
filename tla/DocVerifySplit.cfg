\* A few totals, one split in two, and forged parts of either sign.
SPECIFICATION CommitSpec
CONSTANTS
    HALF = 8
    SHARE_SCALE = 100
    Shares <- OneSplit
    Totals <- Signed
    Forgeries <- Signed
    Openings = {}
INVARIANTS VerifiedSumsToTotal
