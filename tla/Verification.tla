----------------------------- MODULE Verification -----------------------------
(***************************************************************************)
(* multisig.rs of the InvoiceRegistry: an invoice is verified when         *)
(* `required` of its configured signers have each submitted a signature    *)
(* before the deadline.  A signature that does not verify traps and leaves *)
(* no trace, so a submission here is one whose signature is good.          *)
(***************************************************************************)
EXTENDS Integers, Sequences, FiniteSets

CONSTANTS
    Id, Signer,
    DEFAULT_TIMEOUT_SECS,       \* 7 * 86_400 in the code
    Required, MaxSigners,       \* inputs: quorums asked for, length of the list
    NotConfigured,              \* absent key
    MaxTime                     \* bound on the clock

VARIABLES
    config,     \* (CONFIG_TAG, id): the policy, or NotConfigured
    state,      \* (STATE_TAG, id): the progress, or NotConfigured
    now         \* ledger timestamp

vars == <<config, state, now>>

\* The list may name one key twice: configure does not look.
SignerList == UNION {[1..n -> Signer] : n \in 0..MaxSigners}

VerificationConfig == [required : Nat, signers : Seq(Signer)]
VerificationState == [collected : Seq(Signer), deadline : Nat, verified : BOOLEAN]

Elements(s) == {s[k] : k \in DOMAIN s}

InitVerification ==
    /\ config = [i \in Id |-> NotConfigured]
    /\ state = [i \in Id |-> NotConfigured]

Init == InitVerification /\ now = 0

\* Guarded by the admin, which InvoiceRegistry models.
Configure(i, required, signers) ==
    /\ required > 0 /\ required <= Len(signers)
    /\ config' = [config EXCEPT ![i] = [required |-> required, signers |-> signers]]
    /\ state' = [state EXCEPT ![i] =
         [collected |-> <<>>, deadline |-> now + DEFAULT_TIMEOUT_SECS, verified |-> FALSE]]
    /\ UNCHANGED now

Configured(i) == state[i] # NotConfigured

InWindowOneLate(i) == now <= state[i].deadline + 1
InWindow(i) == now <= state[i].deadline

Submittable(i, signer) == signer \in Elements(config[i].signers)
FirstSubmission(i, signer) ==
    /\ signer \in Elements(config[i].signers)
    /\ signer \notin Elements(state[i].collected)

SubmitSignature(i, signer) ==
    /\ Configured(i)
    /\ ~state[i].verified
    /\ InWindow(i)
    /\ FirstSubmission(i, signer)
    /\ LET collected == Append(state[i].collected, signer)
       IN state' = [state EXCEPT ![i].collected = collected,
                                 ![i].verified = Len(collected) >= config[i].required]
    /\ UNCHANGED <<config, now>>

IsExpired(i) == Configured(i) /\ ~state[i].verified /\ now > state[i].deadline

Tick ==
    /\ now < MaxTime
    /\ now' = now + 1
    /\ UNCHANGED <<config, state>>

VerificationStep ==
    \E i \in Id :
        \/ \E n \in Required, s \in SignerList : Configure(i, n, s)
        \/ \E s \in Signer : SubmitSignature(i, s)

Next == VerificationStep \/ Tick

Spec == Init /\ [][Next]_vars

-----------------------------------------------------------------------------
(* Properties *)

\* Policy and progress are stored together, each of its type, and the quorum is
\* positive and no longer than the list.
TypeOK ==
    /\ config \in [Id -> VerificationConfig \cup {NotConfigured}]
    /\ state \in [Id -> VerificationState \cup {NotConfigured}]
    /\ now \in Nat
    /\ \A i \in Id :
         /\ config[i] = NotConfigured <=> state[i] = NotConfigured
         /\ config[i] # NotConfigured => config[i].required \in 1..Len(config[i].signers)

\* An invoice counts as verified exactly when as many different configured
\* signers as its policy requires have signed it.
QuorumIsSigned ==
    \A i \in Id : Configured(i) =>
        LET signed == Elements(state[i].collected)
        IN /\ signed \subseteq Elements(config[i].signers)
           /\ state[i].verified <=> Cardinality(signed) >= config[i].required

\* Once reached or expired, a verdict is changed by nothing but a new
\* configuration, which starts from no signature and a whole window: a signature
\* arriving after the deadline cannot complete a quorum.
VerdictFinal ==
    [][\A i \in Id : Configured(i) /\ (state[i].verified \/ IsExpired(i)) =>
        \/ state'[i] = state[i] /\ config'[i] = config[i]
        \/ state'[i] = [collected |-> <<>>, verified |-> FALSE,
                        deadline |-> now + DEFAULT_TIMEOUT_SECS]]_vars
===============================================================================
