--------------------------- MODULE GovernanceProofs ---------------------------
(***************************************************************************)
(* Governance for any voters, powers and thresholds.  The total power is   *)
(* the sum of the powers, which is what keeps it from going negative when  *)
(* a power is lowered; the supermajority stored by initialize is above     *)
(* one half, which is what makes a critical proposal's threshold a         *)
(* majority.  That a key <<id, voter>> is written once is what makes a     *)
(* tally the sum of one power for each of its voters.                      *)
(***************************************************************************)
EXTENDS Governance, SumTheorems

GovernanceInv ==
    /\ TypeOK
    /\ TotalIsSumOfPowers
    /\ config # NoConfig => config.supermajority_bps > STANDARD_THRESHOLD_BPS

Config == [period : Nat, quorum_bps : 1..BPS_SCALE, supermajority_bps : 1..BPS_SCALE]

LEMMA GovernanceInit == Init => GovernanceInv
<1> SUFFICES ASSUME Init PROVE GovernanceInv
    OBVIOUS
<1>1. proposals \in Seq(Proposal) /\ DOMAIN proposals = {}
    BY DEF Init
<1>2. TotalIsSumOfPowers
    BY SumZero, GovernanceAssumption DEF Init, TotalIsSumOfPowers
<1> QED
    BY <1>1, <1>2 DEF Init, GovernanceInv, TypeOK

-----------------------------------------------------------------------------
(* Voting power *)

LEMMA PowerKeepsInv ==
    ASSUME GovernanceInv, NEW v \in Voter, NEW n \in Powers, SetVotingPower(v, n)
    PROVE  GovernanceInv'
<1>1. /\ n \in Nat /\ power \in [Voter -> Nat] /\ power[v] \in Nat /\ total_power \in Nat
      /\ total_power = SumOver(power, Voter) /\ IsFiniteSet(Voter)
    BY GovernanceAssumption
       DEF SetVotingPower, ValidPower, GovernanceInv, TypeOK, TotalIsSumOfPowers
<1>2. /\ power' = [power EXCEPT ![v] = n] /\ total_power' = total_power - power[v] + n
      /\ config # NoConfig
    BY DEF SetVotingPower, TotalAfter
<1>3. /\ power' \in [Voter -> Nat] /\ power'[v] = n
      /\ \A u \in Voter : u # v => power'[u] = power[u]
    BY <1>1, <1>2
<1>4. power \in [Voter -> Int] /\ power' \in [Voter -> Int]
    BY <1>1, <1>3
<1>5. total_power' = SumOver(power', Voter)
    <2>1. SumOver(power', Voter) = SumOver(power, Voter) - power[v] + power'[v]
        BY <1>1, <1>3, <1>4, SumUpdate
    <2> QED
        BY <1>1, <1>2, <1>3, <2>1
<1>6. power[v] <= total_power
    BY <1>1, SumBoundsEach
<1>7. total_power' \in Nat
    BY <1>1, <1>2, <1>6
<1>8. TypeOK'
    BY <1>2, <1>3, <1>7 DEF SetVotingPower, GovernanceInv, TypeOK
<1>9. config' = config
    BY DEF SetVotingPower
<1> QED
    BY <1>5, <1>8, <1>9 DEF GovernanceInv, TotalIsSumOfPowers

-----------------------------------------------------------------------------
(* Proposals *)

\* A proposal with other votes, or another verdict, is still a proposal.
LEMMA VotedProposal ==
    ASSUME NEW p \in Proposal, NEW w \in Nat, NEW b \in BOOLEAN, NEW q, q = WithVote(p, w, b)
    PROVE  /\ q \in Proposal
           /\ q.param = p.param /\ q.new_value = p.new_value /\ q.kind = p.kind
           /\ q.executed = p.executed
BY DEF WithVote, Proposal

LEMMA SettledProposal ==
    ASSUME NEW p \in Proposal, NEW b \in BOOLEAN, NEW q, q = [p EXCEPT !.executed = b]
    PROVE  /\ q \in Proposal
           /\ q.param = p.param /\ q.new_value = p.new_value /\ q.kind = p.kind
           /\ q.votes_for = p.votes_for /\ q.votes_against = p.votes_against
           /\ q.executed = b
BY DEF Proposal

LEMMA CreateKeepsInv ==
    ASSUME GovernanceInv, NEW v \in Voter, NEW k \in Kind, NEW x \in Param, NEW n \in Value,
           CreateProposal(v, k, x, n)
    PROVE  GovernanceInv'
<1>1. config \in Config /\ now \in Nat /\ proposals \in Seq(Proposal)
    BY DEF CreateProposal, GovernanceInv, TypeOK, Config
<1> DEFINE p == [kind |-> k, param |-> x, new_value |-> n, created_at |-> now,
                 voting_end |-> now + config.period, votes_for |-> 0, votes_against |-> 0,
                 executed |-> FALSE]
<1>2. p \in Proposal /\ proposals' = Append(proposals, p)
    BY <1>1 DEF CreateProposal, Proposal, Config
<1> HIDE DEF p
<1>3. proposals' \in Seq(Proposal) /\ DOMAIN proposals \subseteq DOMAIN proposals'
    BY <1>1, <1>2
<1>4. /\ voted \subseteq (DOMAIN proposals) \X Voter /\ rejected \subseteq DOMAIN proposals
    BY DEF GovernanceInv, TypeOK
<1>5. voted' \subseteq (DOMAIN proposals') \X Voter /\ rejected' \subseteq DOMAIN proposals'
    BY <1>3, <1>4 DEF CreateProposal
<1> QED
    BY <1>3, <1>5 DEF CreateProposal, GovernanceInv, TypeOK, TotalIsSumOfPowers

\* What Settle writes, for the tally p it settles.
LEMMA Settled ==
    ASSUME GovernanceInv, NEW i \in DOMAIN proposals, NEW p \in Proposal, Settle(i, p)
    PROVE  /\ proposals' \in Seq(Proposal) /\ DOMAIN proposals' = DOMAIN proposals
           /\ proposals'[i] = [p EXCEPT !.executed = Passes(p)]
           /\ \A j \in DOMAIN proposals : j # i => proposals'[j] = proposals[j]
           /\ parameter' \in [Param -> Value \cup {NoValue}]
           /\ \A x \in Param : parameter'[x] # parameter[x] =>
                Passes(p) /\ p.param = x /\ p.new_value = parameter'[x]
<1>1. proposals \in Seq(Proposal) /\ parameter \in [Param -> Value \cup {NoValue}]
    BY DEF GovernanceInv, TypeOK
<1>2. Passes(p) \in BOOLEAN
    BY DEF Passes
<1> DEFINE q == [p EXCEPT !.executed = Passes(p)]
<1>3. q \in Proposal
    BY <1>2, SettledProposal
<1>4. proposals' = [proposals EXCEPT ![i] = q]
    BY DEF Settle
<1>5. parameter' = IF Passes(p) THEN [parameter EXCEPT ![p.param] = p.new_value] ELSE parameter
    BY DEF Settle
<1>6. p.param \in Param /\ p.new_value \in Value
    BY DEF Proposal
<1>7. q = [p EXCEPT !.executed = Passes(p)]
    OBVIOUS
<1> HIDE DEF q
<1>8. /\ proposals' \in Seq(Proposal) /\ DOMAIN proposals' = DOMAIN proposals
      /\ proposals'[i] = q
      /\ \A j \in DOMAIN proposals : j # i => proposals'[j] = proposals[j]
    BY <1>1, <1>3, <1>4
<1>9. /\ parameter' \in [Param -> Value \cup {NoValue}]
      /\ \A x \in Param : parameter'[x] # parameter[x] =>
           Passes(p) /\ p.param = x /\ p.new_value = parameter'[x]
    BY <1>1, <1>5, <1>6
<1> QED
    BY <1>7, <1>8, <1>9

LEMMA VoteSettles ==
    ASSUME GovernanceInv, NEW i \in DOMAIN proposals, NEW v \in Voter, NEW b \in BOOLEAN,
           Vote(i, v, b)
    PROVE  LET p == WithVote(proposals[i], power[v], b)
           IN Settle(i, p) /\ p \in Proposal /\ p.executed = FALSE
<1>1. proposals[i] \in Proposal /\ power[v] \in Nat
    BY DEF GovernanceInv, TypeOK
<1>2. ~proposals[i].executed /\ proposals[i].executed \in BOOLEAN
    BY <1>1 DEF Vote, Open, Proposal
<1>3. Settle(i, WithVote(proposals[i], power[v], b))
    BY DEF Vote
<1> QED
    BY <1>1, <1>2, <1>3, VotedProposal

LEMMA VoteKeepsInv ==
    ASSUME GovernanceInv, NEW i \in DOMAIN proposals, NEW v \in Voter, NEW b \in BOOLEAN,
           Vote(i, v, b)
    PROVE  GovernanceInv'
<1>1. PICK p \in Proposal : Settle(i, p)
    BY VoteSettles
<1>2. /\ proposals' \in Seq(Proposal) /\ DOMAIN proposals' = DOMAIN proposals
      /\ parameter' \in [Param -> Value \cup {NoValue}]
    BY <1>1, Settled
<1>3. voted' = voted \cup {<<i, v>>} /\ UNCHANGED <<config, power, total_power, rejected, now>>
    BY DEF Vote
<1>4. voted' \subseteq (DOMAIN proposals') \X Voter /\ rejected' \subseteq DOMAIN proposals'
    BY <1>2, <1>3 DEF GovernanceInv, TypeOK
<1>5. config # NoConfig
    BY DEF GovernanceInv, TypeOK
<1> QED
    BY <1>2, <1>3, <1>4, <1>5 DEF GovernanceInv, TypeOK, TotalIsSumOfPowers

LEMMA ExecuteKeepsInv ==
    ASSUME GovernanceInv, NEW i \in DOMAIN proposals, ExecuteProposal(i)
    PROVE  GovernanceInv'
<1>1. proposals[i] \in Proposal /\ Settle(i, proposals[i])
    BY DEF GovernanceInv, TypeOK, ExecuteProposal
<1>2. /\ proposals' \in Seq(Proposal) /\ DOMAIN proposals' = DOMAIN proposals
      /\ parameter' \in [Param -> Value \cup {NoValue}]
    BY <1>1, Settled
<1>3. rejected' \subseteq rejected \cup {i} /\ UNCHANGED <<config, power, total_power, voted, now>>
    BY DEF ExecuteProposal
<1>4. voted' \subseteq (DOMAIN proposals') \X Voter /\ rejected' \subseteq DOMAIN proposals'
    BY <1>2, <1>3 DEF GovernanceInv, TypeOK
<1>5. config # NoConfig
    BY DEF GovernanceInv, TypeOK
<1> QED
    BY <1>2, <1>3, <1>4, <1>5 DEF GovernanceInv, TypeOK, TotalIsSumOfPowers

LEMMA GovernanceStep == GovernanceInv /\ [Next]_vars => GovernanceInv'
<1> SUFFICES ASSUME GovernanceInv, [Next]_vars PROVE GovernanceInv'
    OBVIOUS
<1>1. CASE \E t \in Periods, q \in QuorumBps, s \in SupermajorityBps : Initialize(t, q, s)
    <2>1. PICK t \in Periods, q \in QuorumBps, s \in SupermajorityBps : Initialize(t, q, s)
        BY <1>1
    <2>2. t \in Nat /\ q \in 1..BPS_SCALE /\ s \in 1..BPS_SCALE /\ s > STANDARD_THRESHOLD_BPS
        BY <2>1, GovernanceAssumption DEF Initialize
    <2>3. config' \in Config /\ config'.supermajority_bps > STANDARD_THRESHOLD_BPS
        BY <2>1, <2>2 DEF Initialize, Config
    <2>4. config = NoConfig /\ proposals = <<>> /\ total_power = 0
        BY <2>1 DEF Initialize, GovernanceInv, TypeOK
    <2> QED
        BY <2>1, <2>3, <2>4 DEF Initialize, Config, GovernanceInv, TypeOK, TotalIsSumOfPowers
<1>2. CASE \E v \in Voter, n \in Powers : SetVotingPower(v, n)
    BY <1>2, PowerKeepsInv
<1>3. CASE \E v \in Voter, k \in Kind, x \in Param, n \in Value : CreateProposal(v, k, x, n)
    BY <1>3, CreateKeepsInv
<1>4. CASE \E i \in DOMAIN proposals, v \in Voter, b \in BOOLEAN : Vote(i, v, b)
    BY <1>4, VoteKeepsInv
<1>5. CASE \E i \in DOMAIN proposals : ExecuteProposal(i)
    BY <1>5, ExecuteKeepsInv
<1>6. CASE Tick
    BY <1>6 DEF Tick, GovernanceInv, TypeOK, TotalIsSumOfPowers
<1>7. CASE UNCHANGED vars
    BY <1>7 DEF vars, GovernanceInv, TypeOK, TotalIsSumOfPowers
<1> QED
    BY <1>1, <1>2, <1>3, <1>4, <1>5, <1>6, <1>7 DEF Next

-----------------------------------------------------------------------------
(* What passing means *)

\* A quota of more than half of the scale is a majority.
LEMMA QuotaIsMajority ==
    ASSUME NEW for \in Nat, NEW against \in Nat, for + against # 0,
           NEW quota \in Nat, quota > STANDARD_THRESHOLD_BPS,
           for * BPS_SCALE >= quota * (for + against)
    PROVE  for > against
<1> DEFINE S == BPS_SCALE
           cast == for + against
<1>1. /\ S \in Nat /\ STANDARD_THRESHOLD_BPS \in Nat /\ cast \in Nat \ {0}
      /\ 2 * quota >= S + 1
    BY GovernanceAssumption
<1>2. cast * (S + 1) <= cast * (2 * quota)
    <2>1. \A k \in Nat, m \in Int, n \in Int : m <= n => k * m <= k * n
        OBVIOUS
    <2> QED
        BY <1>1, <2>1
<1>3. /\ cast * (S + 1) = cast * S + cast
      /\ cast * (2 * quota) = 2 * (quota * cast)
      /\ cast * S = for * S + against * S
    BY <1>1
<1>4. quota * cast <= for * S
    OBVIOUS
<1>5. for * S \in Nat /\ against * S \in Nat /\ quota * cast \in Nat /\ cast * S \in Nat
    BY <1>1
<1>6. against * S < for * S
    BY <1>1, <1>2, <1>3, <1>4, <1>5
<1>7. ASSUME for <= against PROVE FALSE
    <2>1. \A k \in Nat, m \in Int, n \in Int : m <= n => k * m <= k * n
        OBVIOUS
    <2>2. S * for <= S * against /\ S * for = for * S /\ S * against = against * S
        BY <1>1, <1>7, <2>1
    <2> QED
        BY <1>5, <1>6, <2>2
<1> QED
    BY <1>7

LEMMA PassingIsMajorityAndQuorum ==
    ASSUME GovernanceInv, NEW p \in Proposal, Passes(p), config # NoConfig
    PROVE  /\ p.votes_for > p.votes_against
           /\ Cast(p) * BPS_SCALE >= config.quorum_bps * total_power
           /\ p.kind = "Critical" => p.votes_for * BPS_SCALE >= config.supermajority_bps * Cast(p)
<1>1. /\ p.votes_for \in Nat /\ p.votes_against \in Nat /\ p.kind \in {"Standard", "Critical"}
    BY DEF Proposal, Kind
<1>2. Cast(p) = p.votes_for + p.votes_against /\ Cast(p) # 0
    BY DEF Passes, Cast
<1>3. RequiredBps(p.kind) \in Nat /\ RequiredBps(p.kind) > STANDARD_THRESHOLD_BPS
    BY <1>1, GovernanceAssumption DEF RequiredBps, GovernanceInv, TypeOK
<1>4. p.votes_for * BPS_SCALE >= RequiredBps(p.kind) * (p.votes_for + p.votes_against)
    BY <1>2 DEF Passes
<1>5. p.votes_for > p.votes_against
    BY <1>1, <1>2, <1>3, <1>4, QuotaIsMajority
<1> QED
    BY <1>5 DEF Passes, RequiredBps

-----------------------------------------------------------------------------
(* Theorems *)

LEMMA GovernanceInvariant == Spec => []GovernanceInv
BY GovernanceInit, GovernanceStep, PTL DEF Spec

\* Every key holds a value of its type; no vote or rejection is of a proposal
\* that does not exist.
THEOREM GovernanceTypeCorrect == Spec => []TypeOK
<1>1. GovernanceInv => TypeOK
    BY DEF GovernanceInv
<1> QED
    BY <1>1, GovernanceInvariant, PTL

\* The denominator of quorum is the sum of the powers held.
THEOREM TotalPowerIsTheSum == Spec => []TotalIsSumOfPowers
<1>1. GovernanceInv => TotalIsSumOfPowers
    BY DEF GovernanceInv
<1> QED
    BY <1>1, GovernanceInvariant, PTL

\* A parameter changes only with a majority of the votes cast and with quorum,
\* and for a critical proposal with the supermajority.
THEOREM ChangesHaveMajority == Spec => ChangeHadMajorityAndQuorum
<1> DEFINE P == \A x \in Param : parameter'[x] # parameter[x] =>
        \E i \in DOMAIN proposals :
            /\ ~proposals[i].executed /\ proposals'[i].executed
            /\ proposals'[i].param = x /\ proposals'[i].new_value = parameter'[x]
            /\ proposals'[i].votes_for > proposals'[i].votes_against
            /\ Cast(proposals'[i]) * BPS_SCALE >= config.quorum_bps * total_power
            /\ proposals'[i].kind = "Critical" =>
                 proposals'[i].votes_for * BPS_SCALE
                   >= config.supermajority_bps * Cast(proposals'[i])
<1>1. GovernanceInv /\ [Next]_vars => [P]_vars
    <2> SUFFICES ASSUME GovernanceInv, Next, NEW x \in Param, parameter'[x] # parameter[x]
                 PROVE  \E i \in DOMAIN proposals :
                          /\ ~proposals[i].executed /\ proposals'[i].executed
                          /\ proposals'[i].param = x /\ proposals'[i].new_value = parameter'[x]
                          /\ proposals'[i].votes_for > proposals'[i].votes_against
                          /\ Cast(proposals'[i]) * BPS_SCALE >= config.quorum_bps * total_power
                          /\ proposals'[i].kind = "Critical" =>
                               proposals'[i].votes_for * BPS_SCALE
                                 >= config.supermajority_bps * Cast(proposals'[i])
        OBVIOUS
    <2>1. PICK i \in DOMAIN proposals, p \in Proposal :
            Settle(i, p) /\ ~proposals[i].executed
        <3>1. CASE \E i \in DOMAIN proposals, v \in Voter, b \in BOOLEAN : Vote(i, v, b)
            BY <3>1, VoteSettles DEF Vote, Open
        <3>2. CASE \E i \in DOMAIN proposals : ExecuteProposal(i)
            BY <3>2 DEF ExecuteProposal, GovernanceInv, TypeOK
        <3> QED
            BY <3>1, <3>2 DEF Next, Initialize, SetVotingPower, CreateProposal, Tick
    <2>2. /\ proposals'[i] = [p EXCEPT !.executed = Passes(p)]
          /\ Passes(p) /\ p.param = x /\ p.new_value = parameter'[x]
        BY <2>1, Settled
    <2>3. config # NoConfig
        BY DEF GovernanceInv, TypeOK
    <2>4. /\ p.votes_for > p.votes_against
          /\ Cast(p) * BPS_SCALE >= config.quorum_bps * total_power
          /\ p.kind = "Critical" => p.votes_for * BPS_SCALE >= config.supermajority_bps * Cast(p)
        BY <2>2, <2>3, PassingIsMajorityAndQuorum
    <2>5. /\ proposals'[i].param = p.param /\ proposals'[i].new_value = p.new_value
          /\ proposals'[i].kind = p.kind /\ proposals'[i].votes_for = p.votes_for
          /\ proposals'[i].votes_against = p.votes_against
          /\ proposals'[i].executed = TRUE
        BY <2>2, SettledProposal
    <2>6. Cast(proposals'[i]) = Cast(p)
        BY <2>5 DEF Cast
    <2> WITNESS i \in DOMAIN proposals
    <2> QED
        BY <2>1, <2>2, <2>4, <2>5, <2>6
<1> HIDE DEF P
<1>2. Spec => [][P]_vars
    BY <1>1, GovernanceInvariant, PTL DEF Spec
<1> QED
    BY <1>2 DEF P, ChangeHadMajorityAndQuorum

\* A closed window and an executed proposal are final.
THEOREM TalliesAreFinal == Spec => TallyFinal
<1> DEFINE P == \A i \in DOMAIN proposals :
        /\ i \in DOMAIN proposals'
        /\ (now >= proposals[i].voting_end \/ proposals[i].executed) =>
             /\ proposals'[i].votes_for = proposals[i].votes_for
             /\ proposals'[i].votes_against = proposals[i].votes_against
        /\ proposals[i].executed => proposals'[i].executed
<1>1. GovernanceInv /\ [Next]_vars => [P]_vars
    <2> SUFFICES ASSUME GovernanceInv, Next, NEW i \in DOMAIN proposals
                 PROVE  /\ i \in DOMAIN proposals'
                        /\ (now >= proposals[i].voting_end \/ proposals[i].executed) =>
                             /\ proposals'[i].votes_for = proposals[i].votes_for
                             /\ proposals'[i].votes_against = proposals[i].votes_against
                        /\ proposals[i].executed => proposals'[i].executed
        OBVIOUS
    <2>1. proposals \in Seq(Proposal) /\ now \in Nat /\ proposals[i] \in Proposal
        BY DEF GovernanceInv, TypeOK
    <2>2. CASE \E v \in Voter, k \in Kind, x \in Param, n \in Value : CreateProposal(v, k, x, n)
        <3>1. PICK q : proposals' = Append(proposals, q)
            BY <2>2 DEF CreateProposal
        <3>2. i \in DOMAIN proposals' /\ proposals'[i] = proposals[i]
            BY <2>1, <3>1
        <3> QED
            BY <3>2
    <2>3. CASE \E j \in DOMAIN proposals, v \in Voter, b \in BOOLEAN : Vote(j, v, b)
        <3>1. PICK j \in DOMAIN proposals, v \in Voter, b \in BOOLEAN : Vote(j, v, b)
            BY <2>3
        <3>2. PICK p \in Proposal : Settle(j, p)
            BY <3>1, VoteSettles
        <3>3. DOMAIN proposals' = DOMAIN proposals /\ (i # j => proposals'[i] = proposals[i])
            BY <3>2, Settled
        <3>4. ~proposals[j].executed /\ now < proposals[j].voting_end
            BY <3>1 DEF Vote, Open
        <3>5. proposals[i].voting_end \in Nat
            BY <2>1 DEF Proposal
        <3> QED
            BY <2>1, <3>3, <3>4, <3>5
    <2>4. CASE \E j \in DOMAIN proposals : ExecuteProposal(j)
        <3>1. PICK j \in DOMAIN proposals : ExecuteProposal(j)
            BY <2>4
        <3>2. proposals[j] \in Proposal /\ Settle(j, proposals[j]) /\ ~proposals[j].executed
            BY <3>1 DEF ExecuteProposal, GovernanceInv, TypeOK
        <3>3. /\ DOMAIN proposals' = DOMAIN proposals /\ (i # j => proposals'[i] = proposals[i])
              /\ proposals'[j] = [proposals[j] EXCEPT !.executed = Passes(proposals[j])]
            BY <3>2, Settled
        <3>4. Passes(proposals[j]) \in BOOLEAN
            BY DEF Passes
        <3>5. /\ proposals'[j].votes_for = proposals[j].votes_for
              /\ proposals'[j].votes_against = proposals[j].votes_against
            BY <3>2, <3>3, <3>4, SettledProposal
        <3> QED
            BY <3>2, <3>3, <3>5
    <2> QED
        BY <2>2, <2>3, <2>4 DEF Next, Initialize, SetVotingPower, Tick
<1> HIDE DEF P
<1>2. Spec => [][P]_vars
    BY <1>1, GovernanceInvariant, PTL DEF Spec
<1> QED
    BY <1>2 DEF P, TallyFinal

-----------------------------------------------------------------------------
(* Tallies *)

VotersOf(i) == {v \in Voter : <<i, v>> \in voted}

PowersHeld == {n \in Powers : n > 0}

\* c is the sum of one positive power for each of the voters V.
TallyOf(V, c) == \E w \in [V -> PowersHeld] : SumOver(w, V) = c

TallyInv ==
    /\ GovernanceInv
    /\ \A v \in Voter : power[v] # 0 => power[v] \in PowersHeld
    /\ \A i \in DOMAIN proposals : TallyOf(VotersOf(i), Cast(proposals[i]))

LEMMA NoVotes == TallyOf({}, 0)
<1> DEFINE w == [x \in {} |-> 0]
<1>1. w \in [{} -> PowersHeld] /\ w \in [{} -> Int] /\ \A x \in {} : w[x] = 0
    OBVIOUS
<1>2. w = [x \in {} |-> 0]
    OBVIOUS
<1> HIDE DEF w
<1>3. SumOver(w, {}) = 0
    BY <1>2, FS_EmptySet, SumZero
<1> QED
    BY <1>1, <1>3 DEF TallyOf

\* A first vote of power n adds n to the sum.
LEMMA OneMoreVote ==
    ASSUME NEW V, IsFiniteSet(V), NEW c, TallyOf(V, c), NEW v, v \notin V, NEW n \in PowersHeld
    PROVE  TallyOf(V \cup {v}, c + n)
<1>1. PICK w \in [V -> PowersHeld] : SumOver(w, V) = c
    BY DEF TallyOf
<1> DEFINE T == V \cup {v}
           f == [u \in T |-> IF u = v THEN n ELSE w[u]]
<1>2. PowersHeld \subseteq Int
    BY GovernanceAssumption DEF PowersHeld
<1>3. /\ IsFiniteSet(T) /\ f \in [T -> Int] /\ v \in T /\ V = T \ {v}
      /\ w \in [V -> Int] /\ \A u \in V : w[u] = f[u]
    BY <1>2, FS_AddElement
<1>4. f \in [T -> PowersHeld] /\ f[v] = n
    OBVIOUS
<1> HIDE DEF T, f
<1>5. SumOver(f, T) = SumOver(w, V) + f[v]
    BY <1>3, SumWithout
<1>6. TallyOf(T, c + n)
    BY <1>1, <1>4, <1>5 DEF TallyOf
<1> QED
    BY <1>6 DEF T

LEMMA CreateKeepsTally ==
    ASSUME TallyInv, NEW v \in Voter, NEW k \in Kind, NEW x \in Param, NEW n \in Value,
           CreateProposal(v, k, x, n)
    PROVE  \A i \in DOMAIN proposals' : TallyOf(VotersOf(i)', Cast(proposals'[i]))
<1>1. proposals \in Seq(Proposal) /\ voted \subseteq (DOMAIN proposals) \X Voter
    BY DEF TallyInv, GovernanceInv, TypeOK
<1>2. PICK p : proposals' = Append(proposals, p) /\ p.votes_for = 0 /\ p.votes_against = 0
    BY DEF CreateProposal
<1>3. voted' = voted
    BY DEF CreateProposal
<1>4. ASSUME NEW i \in DOMAIN proposals'
      PROVE  \/ i \in DOMAIN proposals /\ proposals'[i] = proposals[i]
             \/ i \notin DOMAIN proposals /\ proposals'[i] = p
    BY <1>1, <1>2
<1>5. ASSUME NEW i \in DOMAIN proposals' PROVE TallyOf(VotersOf(i)', Cast(proposals'[i]))
    <2>1. VotersOf(i)' = VotersOf(i)
        BY <1>3 DEF VotersOf
    <2>2. CASE i \in DOMAIN proposals
        BY <1>4, <2>1, <2>2 DEF TallyInv
    <2>3. CASE i \notin DOMAIN proposals
        <3>1. VotersOf(i) = {}
            BY <1>1, <2>3 DEF VotersOf
        <3>2. Cast(proposals'[i]) = 0
            BY <1>2, <1>4, <2>3 DEF Cast
        <3> QED
            BY <2>1, <3>1, <3>2, NoVotes
    <2> QED
        BY <2>2, <2>3
<1> QED
    BY <1>5

LEMMA VoteKeepsTally ==
    ASSUME TallyInv, NEW j \in DOMAIN proposals, NEW v \in Voter, NEW b \in BOOLEAN,
           Vote(j, v, b)
    PROVE  \A i \in DOMAIN proposals' : TallyOf(VotersOf(i)', Cast(proposals'[i]))
<1> DEFINE p == WithVote(proposals[j], power[v], b)
<1>1. GovernanceInv /\ proposals[j] \in Proposal /\ power[v] \in PowersHeld
    BY DEF TallyInv, GovernanceInv, TypeOK, Vote
<1>2. power[v] \in Nat
    BY <1>1 DEF GovernanceInv, TypeOK
<1>3. Settle(j, p) /\ p \in Proposal
    BY <1>1, VoteSettles
<1>4. Cast(p) = Cast(proposals[j]) + power[v]
    BY <1>1, <1>2 DEF WithVote, Cast, Proposal
<1> HIDE DEF p
<1>5. /\ DOMAIN proposals' = DOMAIN proposals
      /\ proposals'[j] = [p EXCEPT !.executed = Passes(p)]
      /\ \A i \in DOMAIN proposals : i # j => proposals'[i] = proposals[i]
    BY <1>1, <1>3, Settled
<1>6. Cast(proposals'[j]) = Cast(p)
    <2>1. Passes(p) \in BOOLEAN
        BY DEF Passes
    <2> QED
        BY <1>3, <1>5, <2>1, SettledProposal DEF Cast
<1>7. voted' = voted \cup {<<j, v>>} /\ v \notin VotersOf(j)
    BY DEF Vote, FirstVote, VotersOf
<1>8. ASSUME NEW i \in DOMAIN proposals' PROVE TallyOf(VotersOf(i)', Cast(proposals'[i]))
    <2>1. i \in DOMAIN proposals /\ TallyOf(VotersOf(i), Cast(proposals[i]))
        BY <1>5 DEF TallyInv
    <2>2. CASE i # j
        <3>1. VotersOf(i)' = VotersOf(i)
            BY <1>7, <2>2 DEF VotersOf
        <3> QED
            BY <1>5, <2>1, <2>2, <3>1
    <2>3. CASE i = j
        <3>1. VotersOf(j)' = VotersOf(j) \cup {v}
            BY <1>7 DEF VotersOf
        <3>2. IsFiniteSet(VotersOf(j))
            BY GovernanceAssumption, FS_Subset DEF VotersOf
        <3>3. TallyOf(VotersOf(j), Cast(proposals[j]))
            BY <2>1, <2>3
        <3>4. TallyOf(VotersOf(j) \cup {v}, Cast(proposals[j]) + power[v])
            BY <1>1, <1>7, <3>2, <3>3, OneMoreVote
        <3> QED
            BY <1>4, <1>6, <2>3, <3>1, <3>4
    <2> QED
        BY <2>2, <2>3
<1> QED
    BY <1>8

LEMMA ExecuteKeepsTally ==
    ASSUME TallyInv, NEW j \in DOMAIN proposals, ExecuteProposal(j)
    PROVE  \A i \in DOMAIN proposals' : TallyOf(VotersOf(i)', Cast(proposals'[i]))
<1>1. GovernanceInv /\ proposals[j] \in Proposal /\ Settle(j, proposals[j]) /\ voted' = voted
    BY DEF TallyInv, GovernanceInv, TypeOK, ExecuteProposal
<1>2. /\ DOMAIN proposals' = DOMAIN proposals
      /\ proposals'[j] = [proposals[j] EXCEPT !.executed = Passes(proposals[j])]
      /\ \A i \in DOMAIN proposals : i # j => proposals'[i] = proposals[i]
    BY <1>1, Settled
<1>3. Cast(proposals'[j]) = Cast(proposals[j])
    <2>1. Passes(proposals[j]) \in BOOLEAN
        BY DEF Passes
    <2> QED
        BY <1>1, <1>2, <2>1, SettledProposal DEF Cast
<1>4. ASSUME NEW i \in DOMAIN proposals' PROVE TallyOf(VotersOf(i)', Cast(proposals'[i]))
    <2>1. i \in DOMAIN proposals /\ TallyOf(VotersOf(i), Cast(proposals[i]))
        BY <1>2 DEF TallyInv
    <2>2. VotersOf(i)' = VotersOf(i)
        BY <1>1 DEF VotersOf
    <2>3. Cast(proposals'[i]) = Cast(proposals[i])
        BY <1>2, <1>3, <2>1
    <2> QED
        BY <2>1, <2>2, <2>3
<1> QED
    BY <1>4

LEMMA PowersStayHeld ==
    ASSUME TallyInv, [Next]_vars
    PROVE  \A v \in Voter : power'[v] # 0 => power'[v] \in PowersHeld
<1>1. power \in [Voter -> Nat] /\ \A v \in Voter : power[v] # 0 => power[v] \in PowersHeld
    BY DEF TallyInv, GovernanceInv, TypeOK
<1>2. CASE \E u \in Voter, n \in Powers : SetVotingPower(u, n)
    <2>1. PICK u \in Voter, n \in Powers : ValidPower(n) /\ power' = [power EXCEPT ![u] = n]
        BY <1>2 DEF SetVotingPower
    <2>2. n \in Nat /\ (n # 0 => n \in PowersHeld)
        BY <2>1, GovernanceAssumption DEF ValidPower, PowersHeld
    <2> QED
        BY <1>1, <2>1, <2>2
<1>3. CASE power' = power
    BY <1>1, <1>3
<1> QED
    BY <1>2, <1>3
       DEF Next, vars, Initialize, CreateProposal, Vote, ExecuteProposal, Tick

LEMMA TallyStep == TallyInv /\ [Next]_vars => TallyInv'
<1> SUFFICES ASSUME TallyInv, [Next]_vars PROVE TallyInv'
    OBVIOUS
<1>1. GovernanceInv'
    BY GovernanceStep DEF TallyInv
<1>2. \A v \in Voter : power'[v] # 0 => power'[v] \in PowersHeld
    BY PowersStayHeld
<1>3. \A i \in DOMAIN proposals' : TallyOf(VotersOf(i)', Cast(proposals'[i]))
    <2>1. CASE \E v \in Voter, k \in Kind, x \in Param, n \in Value : CreateProposal(v, k, x, n)
        BY <2>1, CreateKeepsTally
    <2>2. CASE \E i \in DOMAIN proposals, v \in Voter, b \in BOOLEAN : Vote(i, v, b)
        BY <2>2, VoteKeepsTally
    <2>3. CASE \E i \in DOMAIN proposals : ExecuteProposal(i)
        BY <2>3, ExecuteKeepsTally
    <2>4. CASE UNCHANGED <<proposals, voted>>
        <3>1. ASSUME NEW i \in DOMAIN proposals' PROVE TallyOf(VotersOf(i)', Cast(proposals'[i]))
            <4>1. i \in DOMAIN proposals /\ TallyOf(VotersOf(i), Cast(proposals[i]))
                BY <2>4 DEF TallyInv
            <4>2. VotersOf(i)' = VotersOf(i) /\ Cast(proposals'[i]) = Cast(proposals[i])
                BY <2>4 DEF VotersOf
            <4> QED
                BY <4>1, <4>2
        <3> QED
            BY <3>1
    <2> QED
        BY <2>1, <2>2, <2>3, <2>4 DEF Next, vars, Initialize, SetVotingPower, Tick
<1> QED
    BY <1>1, <1>2, <1>3 DEF TallyInv, Cast

LEMMA TallyInvariant == Spec => []TallyInv
<1>1. Init => TallyInv
    <2> SUFFICES ASSUME Init PROVE TallyInv
        OBVIOUS
    <2>1. DOMAIN proposals = {} /\ \A v \in Voter : power[v] = 0
        BY DEF Init
    <2> QED
        BY <2>1, GovernanceInit DEF TallyInv
<1> QED
    BY <1>1, TallyStep, PTL DEF Spec

\* The votes counted on a proposal are one positive power for each of the
\* voters whose Voted key was written, and nobody else's: no vote is counted
\* twice, and none is lost when the tally is settled or finalized.
THEOREM TalliesAreOfVoters == Spec => []TallyIsOfVoters
<1>1. TallyInv => TallyIsOfVoters
    <2> SUFFICES ASSUME TallyInv, NEW i \in DOMAIN proposals
                 PROVE  \E w \in [{v \in Voter : <<i, v>> \in voted} -> {n \in Powers : n > 0}] :
                          SumOver(w, DOMAIN w) = Cast(proposals[i])
        BY DEF TallyIsOfVoters
    <2>1. PICK w \in [VotersOf(i) -> PowersHeld] : SumOver(w, VotersOf(i)) = Cast(proposals[i])
        BY DEF TallyInv, TallyOf
    <2>2. DOMAIN w = VotersOf(i)
        OBVIOUS
    <2> QED
        BY <2>1, <2>2 DEF VotersOf, PowersHeld
<1> QED
    BY <1>1, TallyInvariant, PTL
=============================================================================
