----------------------------- MODULE InvoiceToken -----------------------------
(***************************************************************************)
(* nft.rs of the InvoiceRegistry: one transferable token per invoice id,   *)
(* with the history of its transfers.  The token and the lifecycle record  *)
(* of the same id are separate keys: neither is read to write the other.   *)
(***************************************************************************)
EXTENDS Integers, Sequences

CONSTANTS
    Id, Party,
    NotMinted,              \* absent key
    MAX_ROYALTY_BPS,        \* 10_000 in the code
    Royalties,              \* inputs
    MaxTransfers, MaxTime   \* bounds

VARIABLES
    token_owner,    \* (OWNER_TAG, id)
    history,        \* (HIST_TAG, id), empty when absent
    now             \* ledger timestamp

vars == <<token_owner, history, now>>

TransferRecord == [from : Party, to : Party, timestamp : Nat, royalty_bps : 0..MAX_ROYALTY_BPS]

InitToken ==
    /\ token_owner = [i \in Id |-> NotMinted]
    /\ history = [i \in Id |-> <<>>]

Init == InitToken /\ now = 0

MintableAgain(i) == TRUE
Mintable(i) == token_owner[i] = NotMinted

\* Guarded by the admin, which InvoiceRegistry models; the id need not be that
\* of an invoice.
Mint(i, owner) ==
    /\ Mintable(i)
    /\ token_owner' = [token_owner EXCEPT ![i] = owner]
    /\ history' = [history EXCEPT ![i] = <<>>]
    /\ UNCHANGED now

HeldBy(i, from) == token_owner[i] # NotMinted /\ token_owner[i] = from

Transfer(i, from, to, royalty_bps) ==
    /\ royalty_bps <= MAX_ROYALTY_BPS
    /\ HeldBy(i, from)
    /\ Len(history[i]) < MaxTransfers
    /\ token_owner' = [token_owner EXCEPT ![i] = to]
    /\ history' = [history EXCEPT ![i] = Append(@,
         [from |-> from, to |-> to, timestamp |-> now, royalty_bps |-> royalty_bps])]
    /\ UNCHANGED now

Tick ==
    /\ now < MaxTime
    /\ now' = now + 1
    /\ UNCHANGED <<token_owner, history>>

TokenStep ==
    \E i \in Id, p \in Party :
        \/ Mint(i, p)
        \/ \E to \in Party, r \in Royalties : Transfer(i, p, to, r)

Next == TokenStep \/ Tick

Spec == Init /\ [][Next]_vars

-----------------------------------------------------------------------------
(* Properties *)

\* Both keys hold values of their types, and a token never minted has no history.
TypeOK ==
    /\ token_owner \in [Id -> Party \cup {NotMinted}]
    /\ history \in [Id -> Seq(TransferRecord)]
    /\ now \in Nat
    /\ \A i \in Id : token_owner[i] = NotMinted => history[i] = <<>>

\* A minted token changes hands only by a transfer that its history records, and
\* no later call shortens or rewrites what the history says.
OwnershipTraced ==
    [][\A i \in Id : token_owner[i] # NotMinted =>
        \/ token_owner'[i] = token_owner[i] /\ history'[i] = history[i]
        \/ /\ Len(history'[i]) = Len(history[i]) + 1
           /\ LET r == history'[i][Len(history'[i])]
              IN /\ history'[i] = Append(history[i], r)
                 /\ r.from = token_owner[i] /\ r.to = token_owner'[i]]_vars
===============================================================================
