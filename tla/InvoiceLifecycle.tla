--------------------------- MODULE InvoiceLifecycle ---------------------------
(***************************************************************************)
(* What the registry promises of an invoice: it is raised once, approved   *)
(* once, financed once and settled once, in that order, it changes hands   *)
(* only when it is financed, and while it is held back it is not settled.  *)
(* InvoiceRegistry implements this.                                        *)
(***************************************************************************)
CONSTANTS Id, Party, Unowned

VARIABLES
    stage,      \* how far each invoice has come
    holder,     \* who holds it
    held        \* the invoices held back

Stage == {"None", "Pending", "Approved", "Assigned", "Repaid"}

Init ==
    /\ stage = [i \in Id |-> "None"]
    /\ holder = [i \in Id |-> Unowned]
    /\ held = {}

Advance(i, from, to) ==
    /\ stage[i] = from
    /\ stage' = [stage EXCEPT ![i] = to]
    /\ UNCHANGED held

HandTo(i, p) == holder' = [holder EXCEPT ![i] = p]

Raise(i, p) == Advance(i, "None", "Pending") /\ HandTo(i, p)

Approve(i) == Advance(i, "Pending", "Approved") /\ UNCHANGED holder

Finance(i, p) == Advance(i, "Approved", "Assigned") /\ HandTo(i, p)

Settle(i) == i \notin held /\ Advance(i, "Assigned", "Repaid") /\ UNCHANGED holder

Hold(i) == stage[i] # "None" /\ held' = held \cup {i} /\ UNCHANGED <<stage, holder>>

Release(i) == held' = held \ {i} /\ UNCHANGED <<stage, holder>>

Next ==
    \E i \in Id :
        \/ Approve(i) \/ Settle(i)
        \/ Hold(i) \/ Release(i)
        \/ \E p \in Party : Raise(i, p) \/ Finance(i, p)

Spec == Init /\ [][Next]_<<stage, holder, held>>
===============================================================================
