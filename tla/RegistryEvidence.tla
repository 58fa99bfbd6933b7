--------------------------- MODULE RegistryEvidence ---------------------------
(***************************************************************************)
(* The parts of the InvoiceRegistry beside the lifecycle, on one clock:    *)
(* multi-party verification, the invoice token and the upgrade queue.      *)
(* Each call acts on one of them only.                                     *)
(***************************************************************************)
EXTENDS RegistryClock

CONSTANTS
    Signer, Hash, FirstHash,
    DEFAULT_TIMEOUT_SECS, UPGRADE_TIMELOCK_SECS, MAX_ROYALTY_BPS,
    Required, Royalties,
    NotConfigured, NotMinted, NothingQueued,
    MaxSigners, MaxTransfers

ASSUME EvidenceAssumption ==
    /\ NotMinted \notin Party
    /\ DEFAULT_TIMEOUT_SECS \in Nat /\ Required \subseteq Nat
    /\ UPGRADE_TIMELOCK_SECS \in Nat /\ FirstHash \in Hash
    /\ MAX_ROYALTY_BPS \in Nat /\ Royalties \subseteq Nat
    /\ MaxSigners \in Nat /\ MaxTransfers \in Nat /\ MaxTime \in Nat

VARIABLES
    config, state,
    token_owner, history,
    queued_upgrade, upgrade_paused, wasm, public_since

Multisig == INSTANCE Verification
Token    == INSTANCE InvoiceToken
Upgrade  == INSTANCE UpgradeQueue

verification == <<config, state>>
token == <<token_owner, history>>
upgrade == <<queued_upgrade, upgrade_paused, wasm, public_since>>
evidenceVars == <<verification, token, upgrade, now>>

EvidenceInit ==
    /\ Multisig!InitVerification
    /\ Token!InitToken
    /\ Upgrade!InitUpgrade
    /\ now = 0

EvidenceTick == Multisig!Tick /\ UNCHANGED <<token, upgrade>>

EvidenceNext ==
    \/ Multisig!VerificationStep /\ UNCHANGED <<token, upgrade>>
    \/ Token!TokenStep /\ UNCHANGED <<verification, upgrade>>
    \/ Upgrade!UpgradeStep /\ UNCHANGED <<verification, token>>
    \/ EvidenceTick

EvidenceSpec == EvidenceInit /\ [][EvidenceNext]_evidenceVars

-----------------------------------------------------------------------------
(* Properties: those of the parts *)

\* Every key of the three parts holds a value of its type.
EvidenceTypeOK == Multisig!TypeOK /\ Token!TypeOK /\ Upgrade!TypeOK

\* Verified means signed by as many different configured signers as required.
QuorumIsSigned == Multisig!QuorumIsSigned

\* A verdict, reached or expired, is final until the next configuration.
VerdictFinal == Multisig!VerdictFinal

\* A token changes hands only by a transfer its history keeps.
OwnershipTraced == Token!OwnershipTraced

\* The contract's code becomes only what was public for the whole timelock.
UpgradeWasPublic == Upgrade!UpgradeWasPublic
===============================================================================
