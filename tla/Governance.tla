----------------------------- MODULE Governance -----------------------------
(***************************************************************************)
(* The Governance contract: a registry of voting power kept by the admin,  *)
(* and proposals that set a named parameter the moment their tally clears  *)
(* quorum and majority, or when somebody finalizes them after the voting   *)
(* window.  Nothing else in the workspace reads the parameters it sets.    *)
(***************************************************************************)
EXTENDS Integers, Sequences, FiniteSets, Sums

CONSTANTS
    Voter, Param, Value,
    BPS_SCALE,                  \* 10_000 in the code
    STANDARD_THRESHOLD_BPS,     \* 5_000 in the code
    I128_MAX,                   \* largest i128 value
    NoConfig, NoValue,          \* before initialize, parameter never set
    Powers, Periods, QuorumBps, SupermajorityBps,   \* inputs
    MaxProposals, MaxTime       \* bounds

ASSUME GovernanceAssumption ==
    /\ IsFiniteSet(Voter)
    /\ STANDARD_THRESHOLD_BPS \in Nat /\ BPS_SCALE \in Nat
    /\ STANDARD_THRESHOLD_BPS < BPS_SCALE /\ BPS_SCALE <= 2 * STANDARD_THRESHOLD_BPS
    /\ I128_MAX \in Nat
    /\ Powers \subseteq Int /\ Periods \subseteq Nat
    /\ QuorumBps \subseteq Nat /\ SupermajorityBps \subseteq Nat
    /\ NoValue \notin Value
    /\ MaxProposals \in Nat /\ MaxTime \in Nat

VARIABLES
    config,         \* what initialize stored, or NoConfig
    power,          \* VoterPower by voter
    total_power,    \* TotalPower
    proposals,      \* proposal id i is proposals[i + 1]
    voted,          \* the Voted(id, voter) keys present
    parameter,      \* Parameter by name
    rejected,       \* history: ids whose execute_proposal returned Ok(false)
    now             \* ledger timestamp

vars == <<config, power, total_power, proposals, voted, parameter, rejected, now>>

Kind == {"Standard", "Critical"}

Proposal ==
    [kind : Kind, param : Param, new_value : Value, created_at : Nat, voting_end : Nat,
     votes_for : Nat, votes_against : Nat, executed : BOOLEAN]

Init ==
    /\ config = NoConfig
    /\ power = [v \in Voter |-> 0]
    /\ total_power = 0
    /\ proposals = <<>>
    /\ voted = {}
    /\ parameter = [x \in Param |-> NoValue]
    /\ rejected = {}
    /\ now = 0

Fits(x) == -I128_MAX - 1 <= x /\ x <= I128_MAX

Initialize(period, quorum_bps, supermajority_bps) ==
    /\ config = NoConfig
    /\ quorum_bps \in 1..BPS_SCALE
    /\ supermajority_bps > STANDARD_THRESHOLD_BPS /\ supermajority_bps <= BPS_SCALE
    /\ config' = [period |-> period, quorum_bps |-> quorum_bps,
                  supermajority_bps |-> supermajority_bps]
    /\ UNCHANGED <<power, total_power, proposals, voted, parameter, rejected, now>>

TotalAddingOnly(previous, new_power) == total_power + new_power
TotalAfter(previous, new_power) == total_power - previous + new_power

ValidPower(n) == n >= 0

\* Authorized by the admin.
SetVotingPower(v, new_power) ==
    /\ ValidPower(new_power)
    /\ config # NoConfig
    /\ Fits(TotalAfter(power[v], new_power))
    /\ power' = [power EXCEPT ![v] = new_power]
    /\ total_power' = TotalAfter(power[v], new_power)
    /\ UNCHANGED <<config, proposals, voted, parameter, rejected, now>>

CreateProposal(v, kind, param, new_value) ==
    /\ config # NoConfig
    /\ power[v] # 0
    /\ Len(proposals) < MaxProposals
    /\ proposals' = Append(proposals,
         [kind |-> kind, param |-> param, new_value |-> new_value, created_at |-> now,
          voting_end |-> now + config.period, votes_for |-> 0, votes_against |-> 0,
          executed |-> FALSE])
    /\ UNCHANGED <<config, power, total_power, voted, parameter, rejected, now>>

-----------------------------------------------------------------------------
(* try_execute *)

Cast(p) == p.votes_for + p.votes_against

RequiredBps(kind) ==
    IF kind = "Standard" THEN STANDARD_THRESHOLD_BPS + 1 ELSE config.supermajority_bps

PassesWithoutQuorum(p) ==
    /\ Cast(p) # 0
    /\ p.votes_for * BPS_SCALE >= RequiredBps(p.kind) * Cast(p)
Passes(p) ==
    /\ total_power # 0 /\ Cast(p) # 0
    /\ Cast(p) * BPS_SCALE >= config.quorum_bps * total_power
    /\ p.votes_for * BPS_SCALE >= RequiredBps(p.kind) * Cast(p)

TallyFits(p) ==
    /\ Fits(Cast(p) * BPS_SCALE)
    /\ Fits(config.quorum_bps * total_power)

\* Writes the proposal back, with its change applied if it passes.
Settle(i, p) ==
    /\ proposals' = [proposals EXCEPT ![i] = [p EXCEPT !.executed = Passes(p)]]
    /\ parameter' = IF Passes(p) THEN [parameter EXCEPT ![p.param] = p.new_value]
                                 ELSE parameter

-----------------------------------------------------------------------------

OpenOneLate(p) == ~p.executed /\ now <= p.voting_end
Open(p) == ~p.executed /\ now < p.voting_end

WithVote(p, weight, support) ==
    IF support THEN [p EXCEPT !.votes_for = @ + weight]
               ELSE [p EXCEPT !.votes_against = @ + weight]

VotesAgain(i, v) == TRUE
FirstVote(i, v) == <<i, v>> \notin voted

Vote(i, v, support) ==
    /\ power[v] # 0
    /\ i \in DOMAIN proposals
    /\ Open(proposals[i])
    /\ FirstVote(i, v)
    /\ LET p == WithVote(proposals[i], power[v], support)
       IN TallyFits(p) /\ Settle(i, p)
    /\ voted' = voted \cup {<<i, v>>}
    /\ UNCHANGED <<config, power, total_power, rejected, now>>

\* Already executed: Ok(true) and no effect.
ExecuteProposal(i) ==
    /\ i \in DOMAIN proposals
    /\ ~proposals[i].executed
    /\ now >= proposals[i].voting_end
    /\ TallyFits(proposals[i])
    /\ Settle(i, proposals[i])
    /\ rejected' = IF Passes(proposals[i]) THEN rejected ELSE rejected \cup {i}
    /\ UNCHANGED <<config, power, total_power, voted, now>>

Tick ==
    /\ now < MaxTime
    /\ now' = now + 1
    /\ UNCHANGED <<config, power, total_power, proposals, voted, parameter, rejected>>

Next ==
    \/ \E t \in Periods, q \in QuorumBps, s \in SupermajorityBps : Initialize(t, q, s)
    \/ \E v \in Voter, n \in Powers : SetVotingPower(v, n)
    \/ \E v \in Voter, k \in Kind, x \in Param, n \in Value : CreateProposal(v, k, x, n)
    \/ \E i \in DOMAIN proposals, v \in Voter, b \in BOOLEAN : Vote(i, v, b)
    \/ \E i \in DOMAIN proposals : ExecuteProposal(i)
    \/ Tick

Spec == Init /\ [][Next]_vars

-----------------------------------------------------------------------------
(* Properties *)

\* Every value stored has its type; nothing is voted on or proposed before
\* initialize, and no vote counts for a proposal that does not exist.
TypeOK ==
    /\ config \in [period : Nat, quorum_bps : 1..BPS_SCALE,
                   supermajority_bps : 1..BPS_SCALE] \cup {NoConfig}
    /\ power \in [Voter -> Nat] /\ total_power \in Nat
    /\ proposals \in Seq(Proposal)
    /\ voted \subseteq (DOMAIN proposals) \X Voter
    /\ parameter \in [Param -> Value \cup {NoValue}]
    /\ rejected \subseteq DOMAIN proposals
    /\ now \in Nat
    /\ config = NoConfig => proposals = <<>> /\ total_power = 0

\* The denominator of quorum is the sum of the powers held, through any order of
\* grants, replacements and revocations.
TotalIsSumOfPowers == total_power = SumOver(power, Voter)

\* Whatever changes a parameter had strictly more votes for than against, and
\* enough votes for quorum against the power then outstanding.
ChangeHadMajorityAndQuorum ==
    [][\A x \in Param : parameter'[x] # parameter[x] =>
        \E i \in DOMAIN proposals :
            /\ ~proposals[i].executed /\ proposals'[i].executed
            /\ proposals'[i].param = x /\ proposals'[i].new_value = parameter'[x]
            /\ proposals'[i].votes_for > proposals'[i].votes_against
            /\ Cast(proposals'[i]) * BPS_SCALE >= config.quorum_bps * total_power
            /\ proposals'[i].kind = "Critical" =>
                 proposals'[i].votes_for * BPS_SCALE
                   >= config.supermajority_bps * Cast(proposals'[i])]_vars

\* Once a window has closed or the proposal is executed its tally is final, and
\* an executed proposal is never reopened or applied again.
TallyFinal ==
    [][\A i \in DOMAIN proposals :
        /\ i \in DOMAIN proposals'
        /\ (now >= proposals[i].voting_end \/ proposals[i].executed) =>
             /\ proposals'[i].votes_for = proposals[i].votes_for
             /\ proposals'[i].votes_against = proposals[i].votes_against
        /\ proposals[i].executed => proposals'[i].executed]_vars

\* A proposal's tally never counts more voters than voted on it, each at most
\* once and at a power the admin granted.
TallyIsOfVoters ==
    \A i \in DOMAIN proposals :
        \E w \in [{v \in Voter : <<i, v>> \in voted} -> {n \in Powers : n > 0}] :
            SumOver(w, DOMAIN w) = Cast(proposals[i])

-----------------------------------------------------------------------------
(* What the documentation says and the code does not do. *)

\* execute_proposal's comment: it finalizes the proposal, rejected if it did not
\* pass, and the outcome is fully determined by the tally and the time; here a
\* proposal it has reported as not passed is not executed afterwards.
RejectedStaysRejected == \A i \in rejected : ~proposals[i].executed
=============================================================================
