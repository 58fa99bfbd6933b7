\* All 256 totals of an 8-bit i128 (P = 127), every two-way split of a scale of 100.
SPECIFICATION CommitSpec
CONSTANTS
    HALF = 8
    SHARE_SCALE = 100
    Shares <- SomeShares
    Totals <- EveryTotal
    Forgeries <- Residues
    Openings <- SomeOpenings
INVARIANTS PartsAreShares OpeningsAdd AcceptsExactly
