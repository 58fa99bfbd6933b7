---------------------------- MODULE MCPoolManager ----------------------------
(* Constant values for the TLC runs of PoolManager. *)
EXTENDS PoolManager, TLC

\* Scaled run: NAV 1.0 is 4 and 100% is 4, so a ceiling of 3 is 75%.
MCDeltas == {-3, 2}
MCNegativeToo == {-1, 3}

MCConfigs ==
    {[buyer_limit_bps |-> 2, sme_limit_bps |-> 2, min_deposit |-> 1,
      max_deposit |-> 2, reserve_ratio_bps |-> 1]}

LenderSymmetry == Permutations(Lender)
==============================================================================
