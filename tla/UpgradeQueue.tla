----------------------------- MODULE UpgradeQueue -----------------------------
(***************************************************************************)
(* The timelocked Wasm upgrade that InvoiceRegistry, PoolManager and       *)
(* RepaymentWaterfall each carry, with the same code: one slot for the     *)
(* queued upgrade, a 48 hour timelock, cancellation and an emergency       *)
(* pause.  The new code is taken to keep this part as it is.               *)
(***************************************************************************)
EXTENDS Integers

CONSTANTS
    Hash, FirstHash, NothingQueued,
    UPGRADE_TIMELOCK_SECS,      \* 48 * 60 * 60 in the code
    MaxTime                     \* bound on the clock

VARIABLES
    queued_upgrade,     \* QUEUED_UPGRADE
    upgrade_paused,     \* UPGRADE_PAUSED
    wasm,               \* the code the contract runs
    public_since,       \* history: when the queued upgrade was queued
    now                 \* ledger timestamp

vars == <<queued_upgrade, upgrade_paused, wasm, public_since, now>>

QueuedUpgrade == [new_wasm_hash : Hash, execute_after : Nat]

InitUpgrade ==
    /\ queued_upgrade = NothingQueued
    /\ upgrade_paused = FALSE
    /\ wasm = FirstHash
    /\ public_since = 0

Init == InitUpgrade /\ now = 0

Queued == queued_upgrade # NothingQueued

ExecuteAfterTheFirst ==
    IF Queued THEN queued_upgrade.execute_after ELSE now + UPGRADE_TIMELOCK_SECS
ExecuteAfter == now + UPGRADE_TIMELOCK_SECS

\* Guarded by the admin; replaces whatever is queued.
QueueUpgrade(hash) ==
    /\ queued_upgrade' = [new_wasm_hash |-> hash, execute_after |-> ExecuteAfter]
    /\ public_since' = now
    /\ UNCHANGED <<upgrade_paused, wasm, now>>

\* Anyone may call it.
ExecuteUpgrade ==
    /\ ~upgrade_paused
    /\ Queued
    /\ now >= queued_upgrade.execute_after
    /\ queued_upgrade' = NothingQueued
    /\ wasm' = queued_upgrade.new_wasm_hash
    /\ UNCHANGED <<upgrade_paused, public_since, now>>

\* Guarded by the admin.
CancelUpgrade ==
    /\ Queued
    /\ queued_upgrade' = NothingQueued
    /\ UNCHANGED <<upgrade_paused, wasm, public_since, now>>

\* Guarded by the admin.
SetUpgradePaused(paused) ==
    /\ upgrade_paused' = paused
    /\ UNCHANGED <<queued_upgrade, wasm, public_since, now>>

Tick ==
    /\ now < MaxTime
    /\ now' = now + 1
    /\ UNCHANGED <<queued_upgrade, upgrade_paused, wasm, public_since>>

UpgradeStep ==
    \/ \E h \in Hash : QueueUpgrade(h)
    \/ ExecuteUpgrade
    \/ CancelUpgrade
    \/ \E b \in BOOLEAN : SetUpgradePaused(b)

Next == UpgradeStep \/ Tick

Spec == Init /\ [][Next]_vars

-----------------------------------------------------------------------------
(* Properties *)

\* The slot holds an upgrade or nothing, and what is queued was queued by now.
TypeOK ==
    /\ queued_upgrade \in QueuedUpgrade \cup {NothingQueued}
    /\ upgrade_paused \in BOOLEAN
    /\ wasm \in Hash
    /\ public_since \in Nat /\ now \in Nat /\ public_since <= now

\* The code only ever becomes what has been queued, unreplaced and uncancelled,
\* for the whole timelock while everyone could see it, and not during a pause:
\* replacing a queued upgrade at the last moment buys no earlier execution.
UpgradeWasPublic ==
    [][wasm' # wasm =>
        /\ Queued /\ wasm' = queued_upgrade.new_wasm_hash
        /\ now - public_since >= UPGRADE_TIMELOCK_SECS
        /\ ~upgrade_paused
        /\ queued_upgrade' = NothingQueued]_vars
===============================================================================
