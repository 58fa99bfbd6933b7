---------------------------- MODULE RegistryProofs ----------------------------
(***************************************************************************)
(* What holds of the InvoiceRegistry contract for every set of ids, tags,  *)
(* commitments, due dates and signers.                                     *)
(*                                                                         *)
(* The lifecycle: its inductive invariant is TypeOK /\ TermsAgree /\       *)
(* InertBeforeInitialize: TermsAgree needs the types, and the part of it   *)
(* that says terms exist only beside a record is what keeps create_invoice *)
(* and register from writing over one another's records.                   *)
(*                                                                         *)
(* The evidence: quorums, verdicts, the chain of ownership and the upgrade *)
(* timelock.  The three parts are independent, so each has an invariant of *)
(* its own, kept by its own steps and by the steps of the other two, which *)
(* leave its keys alone.                                                   *)
(***************************************************************************)
EXTENDS InvoiceRegistry, RegistryEvidence, Sequences, FiniteSets, FiniteSetTheorems, TLAPS

RegistryInv == TypeOK /\ TermsAgree /\ InertBeforeInitialize

USE DEF Status

\* A new record is a record, unfrozen and pending.
LEMMA NewInvoiceTyped ==
    ASSUME NEW c \in Commitment, NEW p \in Party
    PROVE  /\ NewInvoice(c, p) \in CommittedInvoice
           /\ NewInvoice(c, p) # NoInvoice
           /\ NewInvoice(c, p).commitment = c
           /\ NewInvoice(c, p).status = "Pending"
           /\ NewInvoice(c, p).owner = p
           /\ ~NewInvoice(c, p).frozen /\ ~NewInvoice(c, p).fraud_flagged
<1>1. NewInvoice(c, p) \in CommittedInvoice
  BY DEF NewInvoice, CommittedInvoice
<1>2. NewInvoice(c, p) # NoInvoice
  BY <1>1, RegistryAssumption
<1> QED
  BY <1>1, <1>2 DEF NewInvoice

\* Once the admin is set, an update of one record that keeps its commitment and
\* leaves a pending or approved record with its owner keeps the invariant.
LEMMA UpdateKeepsInv ==
    ASSUME RegistryInv, NEW i \in Id, NEW r \in CommittedInvoice,
           invoices[i] # NoInvoice,
           r.commitment = invoices[i].commitment,
           r.status \in {"Pending", "Approved"} =>
             /\ invoices[i].status \in {"Pending", "Approved"}
             /\ r.owner = invoices[i].owner,
           admin # NoAdmin,
           Becomes(i, r)
    PROVE  RegistryInv'
<1> USE DEF RegistryInv, Becomes
<1>1. invoices' = [invoices EXCEPT ![i] = r] /\ r # NoInvoice
  BY RegistryAssumption
<1>2. TypeOK'
  BY <1>1 DEF TypeOK
<1>3. TermsAgree'
  BY <1>1 DEF TermsAgree, TypeOK
<1>4. InertBeforeInitialize'
  BY DEF InertBeforeInitialize
<1> QED
  BY <1>2, <1>3, <1>4

LEMMA InitInv == Init => RegistryInv
BY DEF Init, RegistryInv, TypeOK, TermsAgree, InertBeforeInitialize

\* The record of an existing invoice is a record.
LEMMA Recorded ==
    ASSUME TypeOK, NEW i \in Id, invoices[i] # NoInvoice
    PROVE  /\ invoices[i] \in CommittedInvoice
           /\ invoices[i] = [commitment |-> invoices[i].commitment,
                             status |-> invoices[i].status, owner |-> invoices[i].owner,
                             fraud_flagged |-> invoices[i].fraud_flagged,
                             frozen |-> invoices[i].frozen]
BY DEF TypeOK, CommittedInvoice

\* A verifier or an approved invoice exists only once the admin is set.
LEMMA AdminIsSet ==
    ASSUME InertBeforeInitialize,
           verifiers # {} \/ \E i \in Id : HasStatus(i, "Approved")
    PROVE  admin # NoAdmin
BY DEF InertBeforeInitialize, HasStatus

LEMMA NextInv == RegistryInv /\ [Next]_vars => RegistryInv'
<1> SUFFICES ASSUME RegistryInv, [Next]_vars PROVE RegistryInv'
  OBVIOUS
<1> USE DEF RegistryInv
<1>1. ASSUME NEW p \in Party, Initialize(p) PROVE RegistryInv'
  <2>1. TypeOK'
    BY <1>1 DEF Initialize, TypeOK
  <2>2. TermsAgree'
    BY <1>1 DEF Initialize, TermsAgree
  <2>3. InertBeforeInitialize'
    BY <1>1, RegistryAssumption DEF Initialize, InertBeforeInitialize
  <2> QED
    BY <2>1, <2>2, <2>3
<1>2. ASSUME NEW i \in Id, NEW c \in Commitment, NEW p \in Party, Register(i, c, p)
      PROVE RegistryInv'
  <2>1. /\ invoices' = [invoices EXCEPT ![i] = NewInvoice(c, p)]
        /\ UNCHANGED <<admin, terms, verifiers, now>>
        /\ terms[i] = NoTerms
    BY <1>2 DEF Register, Unregistered, TermsAgree
  <2>2. TypeOK'
    BY <2>1, NewInvoiceTyped DEF TypeOK
  <2>3. TermsAgree'
    BY <2>1 DEF TermsAgree, TypeOK
  <2>4. InertBeforeInitialize'
    BY <2>1, NewInvoiceTyped DEF InertBeforeInitialize, TypeOK
  <2> QED
    BY <2>2, <2>3, <2>4
<1>3. ASSUME NEW i \in Id, NEW p \in Party, NEW b \in Party, NEW c \in Commitment,
             NEW d \in DueDate, CreateInvoice(i, p, b, c, d)
      PROVE RegistryInv'
  <2> DEFINE t == [buyer |-> b, commitment |-> c, due_date |-> d, created_at |-> now]
  <2>1. /\ invoices' = [invoices EXCEPT ![i] = NewInvoice(c, p)]
        /\ terms' = [terms EXCEPT ![i] = t]
        /\ UNCHANGED <<admin, verifiers, now>>
        /\ c # 0 /\ d > now /\ b # p
    BY <1>3 DEF CreateInvoice
  <2>2. t \in InvoiceTerms
    BY DEF TypeOK, InvoiceTerms
  <2>3. TypeOK'
    BY <2>1, <2>2, NewInvoiceTyped DEF TypeOK
  <2>4. TermsAgree'
    <3> SUFFICES ASSUME NEW j \in Id, terms'[j] # NoTerms
                 PROVE  /\ invoices'[j] # NoInvoice
                        /\ invoices'[j].commitment = terms'[j].commitment
                        /\ terms'[j].commitment # 0
                        /\ terms'[j].created_at < terms'[j].due_date
                        /\ terms'[j].created_at <= now'
                        /\ invoices'[j].status \in {"Pending", "Approved"} =>
                             invoices'[j].owner # terms'[j].buyer
      BY DEF TermsAgree
    <3>1. CASE j = i
      <4>1. invoices'[j] = NewInvoice(c, p) /\ terms'[j] = t
        BY <2>1, <3>1 DEF TypeOK
      <4>2. now \in Nat /\ d \in Nat
        BY RegistryAssumption DEF TypeOK
      <4> QED
        BY <2>1, <4>1, <4>2, NewInvoiceTyped
    <3>2. CASE j # i
      BY <2>1, <3>2 DEF TermsAgree, TypeOK
    <3> QED
      BY <3>1, <3>2
  <2>5. InertBeforeInitialize'
    BY <2>1, NewInvoiceTyped DEF InertBeforeInitialize, TypeOK
  <2> QED
    BY <2>3, <2>4, <2>5
<1>4. ASSUME NEW q \in Party, NEW i \in Id, Approve(q, i) PROVE RegistryInv'
  BY <1>4, Recorded, UpdateKeepsInv
  DEF Approve, HasStatus, RequireAdmin, CommittedInvoice
<1>5. ASSUME NEW q \in Party, NEW p \in Party, NEW b \in BOOLEAN, SetVerifier(q, p, b)
      PROVE RegistryInv'
  <2>1. admin # NoAdmin /\ verifiers' \subseteq verifiers \cup {p}
        /\ UNCHANGED <<admin, invoices, terms, now>>
    BY <1>5 DEF SetVerifier, RequireAdmin
  <2> QED
    BY <2>1 DEF TypeOK, TermsAgree, InertBeforeInitialize
<1>6. ASSUME NEW q \in Party, NEW i \in Id, VerifyInvoice(q, i) PROVE RegistryInv'
  <2>1. admin # NoAdmin
    BY <1>6, AdminIsSet DEF VerifyInvoice
  <2> QED
    BY <1>6, <2>1, Recorded, UpdateKeepsInv DEF VerifyInvoice, HasStatus, CommittedInvoice
<1>7. ASSUME NEW q \in Party, NEW i \in Id, NEW p \in Party, Assign(q, i, p)
      PROVE RegistryInv'
  BY <1>7, Recorded, UpdateKeepsInv
  DEF Assign, AssignedTo, HasStatus, RequireAdmin, CommittedInvoice
<1>8. ASSUME NEW i \in Id, NEW p \in Party, AssignInvoice(i, p) PROVE RegistryInv'
  <2>1. admin # NoAdmin
    BY <1>8, AdminIsSet DEF AssignInvoice, Assignable
  <2> QED
    BY <1>8, <2>1, Recorded, UpdateKeepsInv
    DEF AssignInvoice, Assignable, AssignedTo, HasStatus, CommittedInvoice
<1>9. ASSUME NEW q \in Party, NEW i \in Id, MarkRepaid(q, i) PROVE RegistryInv'
  BY <1>9, Recorded, UpdateKeepsInv
  DEF MarkRepaid, HasStatus, RequireAdmin, CommittedInvoice
<1>10. ASSUME NEW q \in Party, NEW i \in Id, FlagInvoice(q, i) PROVE RegistryInv'
  BY <1>10, Recorded, UpdateKeepsInv DEF FlagInvoice, RequireAdmin, CommittedInvoice
<1>11. ASSUME NEW q \in Party, NEW i \in Id, FreezeInvoice(q, i) PROVE RegistryInv'
  BY <1>11, Recorded, UpdateKeepsInv DEF FreezeInvoice, RequireAdmin, CommittedInvoice
<1>12. ASSUME NEW q \in Party, NEW i \in Id, UnfreezeInvoice(q, i) PROVE RegistryInv'
  BY <1>12, Recorded, UpdateKeepsInv DEF UnfreezeInvoice, RequireAdmin, CommittedInvoice
<1>13. CASE Tick
  <2>1. now \in Nat /\ now' = now + 1 /\ UNCHANGED <<admin, invoices, terms, verifiers>>
    BY <1>13 DEF Tick, TypeOK
  <2>2. TypeOK'
    BY <2>1 DEF TypeOK
  <2>3. TermsAgree'
    <3>1. \A i \in Id : terms[i] # NoTerms => terms[i].created_at \in Nat
      BY DEF TypeOK, InvoiceTerms
    <3> QED
      BY <2>1, <3>1 DEF TermsAgree
  <2>4. InertBeforeInitialize'
    BY <2>1 DEF InertBeforeInitialize
  <2> QED
    BY <2>2, <2>3, <2>4
<1>14. CASE UNCHANGED vars
  BY <1>14 DEF vars, TypeOK, TermsAgree, InertBeforeInitialize
<1>15. CASE \E q, p \in Party, b \in BOOLEAN : SetVerifier(q, p, b)
  BY <1>5, <1>15
<1>16. ASSUME NEW i \in Id, NEW q \in Party,
              \/ Approve(q, i)
              \/ VerifyInvoice(q, i)
              \/ \E p \in Party : Assign(q, i, p)
              \/ MarkRepaid(q, i)
              \/ FlagInvoice(q, i)
              \/ FreezeInvoice(q, i)
              \/ UnfreezeInvoice(q, i)
       PROVE RegistryInv'
  BY <1>4, <1>6, <1>7, <1>9, <1>10, <1>11, <1>12, <1>16
<1>17. ASSUME NEW i \in Id,
              \/ \E c \in Commitment, p \in Party : Register(i, c, p)
              \/ \E p, buyer \in Party, c \in Commitment, d \in DueDate :
                   CreateInvoice(i, p, buyer, c, d)
              \/ \E p \in Party : AssignInvoice(i, p)
       PROVE RegistryInv'
  BY <1>2, <1>3, <1>8, <1>17
<1>18. CASE \E p \in Party : Initialize(p)
  BY <1>1, <1>18
<1>19. CASE Next
  BY <1>13, <1>15, <1>16, <1>17, <1>18, <1>19, Zenon DEF Next
<1> QED
  BY <1>14, <1>19

\* RegistryInv holds in every reachable state.
THEOREM RegistryInvariant == Spec => []RegistryInv
BY InitInv, NextInv, PTL DEF Spec

\* Every key holds a value of its type in every reachable state.
THEOREM TypeCorrect == Spec => []TypeOK
BY RegistryInvariant, PTL DEF RegistryInv

\* The terms and the lifecycle record of an invoice agree in every reachable state.
THEOREM TermsAlwaysAgree == Spec => []TermsAgree
BY RegistryInvariant, PTL DEF RegistryInv

\* Nothing moves before initialize.
THEOREM InertUntilInitialized == Spec => []InertBeforeInitialize
BY RegistryInvariant, PTL DEF RegistryInv

-----------------------------------------------------------------------------
(* What one step does to the records *)

\* Invoice i, not there before, is registered.
Raised(i) ==
    /\ invoices[i] = NoInvoice
    /\ \E c \in Commitment, p \in Party :
         invoices' = [invoices EXCEPT ![i] = NewInvoice(c, p)]
    /\ \A j \in Id : j # i => terms'[j] = terms[j]

\* The record of invoice i becomes r, which keeps the commitment and is at most
\* one status further on; a frozen one is neither repaid nor thawed by moving on.
Advances(i, r) ==
    /\ invoices[i] # NoInvoice
    /\ invoices' = [invoices EXCEPT ![i] = r]
    /\ terms' = terms
    /\ r.commitment = invoices[i].commitment
    /\ \/ r.status = invoices[i].status /\ r.owner = invoices[i].owner
       \/ /\ r.frozen = invoices[i].frozen
          /\ \/ /\ invoices[i].status = "Pending" /\ r.status = "Approved"
                /\ r.owner = invoices[i].owner
             \/ invoices[i].status = "Approved" /\ r.status = "Assigned"
             \/ /\ invoices[i].status = "Assigned" /\ r.status = "Repaid"
                /\ r.owner = invoices[i].owner /\ ~invoices[i].frozen

StepShape ==
    \/ UNCHANGED <<invoices, terms>>
    \/ \E i \in Id : Raised(i)
    \/ \E i \in Id, r \in CommittedInvoice : Advances(i, r)

LEMMA StepHasShape == RegistryInv /\ [Next]_vars => StepShape
<1> SUFFICES ASSUME RegistryInv, [Next]_vars PROVE StepShape
  OBVIOUS
<1> USE DEF RegistryInv
<1>1. ASSUME NEW i \in Id, NEW c \in Commitment, NEW p \in Party, Register(i, c, p)
      PROVE StepShape
  BY <1>1 DEF Register, Unregistered, Raised, StepShape
<1>2. ASSUME NEW i \in Id, NEW p \in Party, NEW b \in Party, NEW c \in Commitment,
             NEW d \in DueDate, CreateInvoice(i, p, b, c, d)
      PROVE StepShape
  <2>1. \A j \in Id : j # i => terms'[j] = terms[j]
    BY <1>2 DEF CreateInvoice, TypeOK
  <2> QED
    BY <1>2, <2>1 DEF CreateInvoice, Unknown, Raised, StepShape
<1>3. ASSUME NEW i \in Id, NEW r \in CommittedInvoice, Advances(i, r) PROVE StepShape
  BY <1>3 DEF StepShape
<1>4. ASSUME NEW q \in Party, NEW i \in Id, Approve(q, i) PROVE StepShape
  <2>1. Advances(i, [invoices[i] EXCEPT !.status = "Approved"])
    BY <1>4, Recorded DEF Approve, HasStatus, Becomes, Advances
  <2> QED
    BY <1>3, <1>4, <2>1, Recorded DEF Approve, HasStatus, CommittedInvoice
<1>5. ASSUME NEW q \in Party, NEW i \in Id, VerifyInvoice(q, i) PROVE StepShape
  <2>1. Advances(i, [invoices[i] EXCEPT !.status = "Approved"])
    BY <1>5, Recorded DEF VerifyInvoice, HasStatus, Becomes, Advances
  <2> QED
    BY <1>3, <1>5, <2>1, Recorded DEF VerifyInvoice, HasStatus, CommittedInvoice
<1>6. ASSUME NEW q \in Party, NEW i \in Id, NEW p \in Party,
             Assign(q, i, p) \/ AssignInvoice(i, p)
      PROVE StepShape
  <2>1. HasStatus(i, "Approved") /\ Becomes(i, AssignedTo(invoices[i], p))
    BY <1>6 DEF Assign, AssignInvoice, Assignable
  <2>2. Advances(i, AssignedTo(invoices[i], p))
    BY <2>1, Recorded DEF AssignedTo, HasStatus, Becomes, Advances
  <2> QED
    BY <1>3, <2>1, <2>2, Recorded DEF AssignedTo, HasStatus, CommittedInvoice
<1>7. ASSUME NEW q \in Party, NEW i \in Id, MarkRepaid(q, i) PROVE StepShape
  <2>1. Advances(i, [invoices[i] EXCEPT !.status = "Repaid"])
    BY <1>7, Recorded DEF MarkRepaid, HasStatus, Thawed, Becomes, Advances
  <2> QED
    BY <1>3, <1>7, <2>1, Recorded DEF MarkRepaid, HasStatus, CommittedInvoice
<1>8. ASSUME NEW q \in Party, NEW i \in Id,
             FlagInvoice(q, i) \/ FreezeInvoice(q, i) \/ UnfreezeInvoice(q, i)
      PROVE StepShape
  <2>1. CASE FlagInvoice(q, i)
    <3>1. Advances(i, [invoices[i] EXCEPT !.fraud_flagged = TRUE])
      BY <2>1, Recorded DEF FlagInvoice, Becomes, Advances
    <3> QED
      BY <1>3, <2>1, <3>1, Recorded DEF FlagInvoice, CommittedInvoice
  <2>2. CASE FreezeInvoice(q, i)
    <3>1. Advances(i, [invoices[i] EXCEPT !.frozen = TRUE])
      BY <2>2, Recorded DEF FreezeInvoice, Becomes, Advances
    <3> QED
      BY <1>3, <2>2, <3>1, Recorded DEF FreezeInvoice, CommittedInvoice
  <2>3. CASE UnfreezeInvoice(q, i)
    <3>1. Advances(i, [invoices[i] EXCEPT !.frozen = FALSE])
      BY <2>3, Recorded DEF UnfreezeInvoice, Becomes, Advances
    <3> QED
      BY <1>3, <2>3, <3>1, Recorded DEF UnfreezeInvoice, CommittedInvoice
  <2> QED
    BY <1>8, <2>1, <2>2, <2>3
<1>9. ASSUME \/ Tick \/ UNCHANGED vars
             \/ \E p \in Party : Initialize(p)
             \/ \E q, p \in Party, b \in BOOLEAN : SetVerifier(q, p, b)
      PROVE StepShape
  BY <1>9 DEF Tick, vars, Initialize, SetVerifier, StepShape
<1>10. ASSUME NEW i \in Id,
              \/ \E c \in Commitment, p \in Party : Register(i, c, p)
              \/ \E p, buyer \in Party, c \in Commitment, d \in DueDate :
                   CreateInvoice(i, p, buyer, c, d)
              \/ \E p \in Party : AssignInvoice(i, p)
       PROVE StepShape
  BY <1>1, <1>2, <1>6, <1>10
<1>11. ASSUME NEW i \in Id, NEW q \in Party,
              \/ Approve(q, i)
              \/ VerifyInvoice(q, i)
              \/ \E p \in Party : Assign(q, i, p)
              \/ MarkRepaid(q, i)
              \/ FlagInvoice(q, i)
              \/ FreezeInvoice(q, i)
              \/ UnfreezeInvoice(q, i)
       PROVE StepShape
  BY <1>4, <1>5, <1>6, <1>7, <1>8, <1>11
<1>12. CASE Next
  BY <1>9, <1>10, <1>11, <1>12, Zenon DEF Next
<1> QED
  BY <1>9, <1>12

-----------------------------------------------------------------------------
(* Terms *)

\* Terms are written with the invoice or never, and stay.
THEOREM TermsNeverChange == Spec => TermsFixedAtBirth
<1>1. RegistryInv /\ [Next]_vars =>
        [\A i \in Id : invoices[i] # NoInvoice =>
            /\ terms'[i] = terms[i]
            /\ invoices'[i].commitment = invoices[i].commitment]_vars
  <2> SUFFICES ASSUME RegistryInv, [Next]_vars, NEW i \in Id, invoices[i] # NoInvoice
               PROVE  /\ terms'[i] = terms[i]
                      /\ invoices'[i].commitment = invoices[i].commitment
    OBVIOUS
  <2>1. StepShape /\ TypeOK
    BY StepHasShape DEF RegistryInv
  <2>2. CASE UNCHANGED <<invoices, terms>>
    BY <2>2
  <2>3. ASSUME NEW j \in Id, Raised(j)
        PROVE  terms'[i] = terms[i] /\ invoices'[i] = invoices[i]
    BY <2>1, <2>3 DEF Raised, TypeOK
  <2>4. ASSUME NEW j \in Id, NEW r \in CommittedInvoice, Advances(j, r)
        PROVE  /\ terms'[i] = terms[i]
               /\ invoices'[i].commitment = invoices[i].commitment
    BY <2>1, <2>4 DEF Advances, TypeOK
  <2> QED
    BY <2>1, <2>2, <2>3, <2>4 DEF StepShape
<1> QED
  BY <1>1, RegistryInvariant, PTL DEF Spec, TermsFixedAtBirth

-----------------------------------------------------------------------------
(* Refinement of InvoiceLifecycle *)

\* Replacing the record of i by r replaces its stage and its holder, and freezes
\* or thaws it as r says.
LEMMA StageOfUpdate ==
    ASSUME TypeOK, NEW i \in Id, NEW r, r # NoInvoice,
           invoices' = [invoices EXCEPT ![i] = r]
    PROVE  /\ Stage' = [Stage EXCEPT ![i] = r.status]
           /\ Holder' = [Holder EXCEPT ![i] = r.owner]
           /\ Frozen' = IF r.frozen THEN Frozen \cup {i} ELSE Frozen \ {i}
<1>1. Stage' = [Stage EXCEPT ![i] = r.status] /\ Holder' = [Holder EXCEPT ![i] = r.owner]
  BY DEF TypeOK, Stage, Holder
<1>2. \A j \in Id : invoices'[j] = IF j = i THEN r ELSE invoices[j]
  BY DEF TypeOK
<1>3. \A j \in Id : j \in Frozen' <=> IF j = i THEN r.frozen ELSE j \in Frozen
  BY <1>2 DEF Frozen
<1>4. Frozen \subseteq Id /\ Frozen' \subseteq Id
  BY DEF Frozen
<1>5. CASE r.frozen
  BY <1>3, <1>4, <1>5
<1>6. CASE ~r.frozen
  BY <1>3, <1>4, <1>6
<1> QED
  BY <1>1, <1>5, <1>6

\* Every step of the registry is a step of the lifecycle, or leaves it alone.
LEMMA StepRefines == TypeOK /\ StepShape => [Lifecycle!Next]_<<Stage, Holder, Frozen>>
<1> SUFFICES ASSUME TypeOK, StepShape PROVE [Lifecycle!Next]_<<Stage, Holder, Frozen>>
  OBVIOUS
<1> USE DEF Lifecycle!Next, Lifecycle!Advance, Lifecycle!HandTo
<1>1. CASE UNCHANGED <<invoices, terms>>
  BY <1>1 DEF Stage, Holder, Frozen
<1>2. ASSUME NEW i \in Id, Raised(i) PROVE Lifecycle!Next
  <2>1. PICK c \in Commitment, p \in Party :
          invoices' = [invoices EXCEPT ![i] = NewInvoice(c, p)]
    BY <1>2 DEF Raised
  <2>2. /\ Stage' = [Stage EXCEPT ![i] = "Pending"] /\ Holder' = [Holder EXCEPT ![i] = p]
        /\ Frozen' = Frozen \ {i}
    <3>1. NewInvoice(c, p) # NoInvoice
      BY NewInvoiceTyped, RegistryAssumption
    <3>2. /\ Stage' = [Stage EXCEPT ![i] = NewInvoice(c, p).status]
          /\ Holder' = [Holder EXCEPT ![i] = NewInvoice(c, p).owner]
          /\ Frozen' = IF NewInvoice(c, p).frozen THEN Frozen \cup {i} ELSE Frozen \ {i}
      BY <2>1, <3>1, StageOfUpdate
    <3>3. /\ NewInvoice(c, p).status = "Pending" /\ NewInvoice(c, p).owner = p
          /\ ~NewInvoice(c, p).frozen
      BY DEF NewInvoice
    <3> QED
      BY <3>2, <3>3
  <2>3. Stage[i] = "None" /\ i \notin Frozen
    BY <1>2 DEF Raised, Stage, Frozen
  <2>4. Lifecycle!Raise(i, p)
    BY <2>2, <2>3 DEF Lifecycle!Raise
  <2> QED
    BY <2>4
<1>3. ASSUME NEW i \in Id, NEW r \in CommittedInvoice, Advances(i, r)
      PROVE  [Lifecycle!Next]_<<Stage, Holder, Frozen>>
  <2>1. r # NoInvoice /\ r.owner \in Party
    BY RegistryAssumption DEF CommittedInvoice
  <2>2. /\ Stage' = [Stage EXCEPT ![i] = r.status]
        /\ Holder' = [Holder EXCEPT ![i] = r.owner]
        /\ Frozen' = IF r.frozen THEN Frozen \cup {i} ELSE Frozen \ {i}
    BY <1>3, <2>1, StageOfUpdate DEF Advances
  <2>3. /\ Stage[i] = invoices[i].status /\ Holder[i] = invoices[i].owner
        /\ invoices[i].status \in Status
        /\ i \in Frozen <=> invoices[i].frozen
    BY <1>3, Recorded DEF Advances, Stage, Holder, Frozen, CommittedInvoice
  <2>4. r.owner = invoices[i].owner => Holder' = Holder
    BY <2>2, <2>3 DEF Holder
  <2>5. r.frozen = invoices[i].frozen => Frozen' = Frozen
    BY <2>2, <2>3
  <2>6. CASE r.status = invoices[i].status /\ r.owner = invoices[i].owner
    <3>1. Stage' = Stage /\ Holder' = Holder
      BY <2>2, <2>3, <2>4, <2>6 DEF Stage
    <3>2. Stage[i] # "None"
      BY <2>3
    <3>3. Lifecycle!Hold(i) \/ Lifecycle!Release(i)
      BY <2>2, <3>1, <3>2 DEF Lifecycle!Hold, Lifecycle!Release
    <3> QED
      BY <3>3
  <2>7. CASE /\ invoices[i].status = "Pending" /\ r.status = "Approved"
             /\ r.owner = invoices[i].owner /\ r.frozen = invoices[i].frozen
    <3>1. Lifecycle!Approve(i)
      BY <2>2, <2>3, <2>4, <2>5, <2>7 DEF Lifecycle!Approve
    <3> QED
      BY <3>1
  <2>8. CASE /\ invoices[i].status = "Approved" /\ r.status = "Assigned"
             /\ r.frozen = invoices[i].frozen
    <3>1. Lifecycle!Finance(i, r.owner)
      BY <2>2, <2>3, <2>5, <2>8 DEF Lifecycle!Finance
    <3> QED
      BY <2>1, <3>1
  <2>9. CASE /\ invoices[i].status = "Assigned" /\ r.status = "Repaid"
             /\ r.owner = invoices[i].owner
             /\ r.frozen = invoices[i].frozen /\ ~invoices[i].frozen
    <3>1. Lifecycle!Settle(i)
      BY <2>2, <2>3, <2>4, <2>5, <2>9 DEF Lifecycle!Settle
    <3> QED
      BY <3>1
  <2> QED
    BY <1>3, <2>6, <2>7, <2>8, <2>9 DEF Advances
<1> QED
  BY <1>1, <1>2, <1>3 DEF StepShape

\* The registry implements the lifecycle: raised, approved, financed and settled
\* once each, in that order, and never settled while frozen, for every set of
\* invoices and parties.
THEOREM RegistryImplementsLifecycle == Spec => ImplementsLifecycle
<1>1. Init => Lifecycle!Init
  BY DEF Init, Lifecycle!Init, Stage, Holder, Frozen
<1>2. RegistryInv /\ [Next]_vars => [Lifecycle!Next]_<<Stage, Holder, Frozen>>
  BY StepHasShape, StepRefines DEF RegistryInv
<1> QED
  BY <1>1, <1>2, RegistryInvariant, PTL DEF Spec, ImplementsLifecycle, Lifecycle!Spec

-----------------------------------------------------------------------------
(* Verification *)

\* What one configured invoice has collected: no key twice, none that is not on
\* the list, and the verdict that many signatures give.
Collected(i) ==
    /\ config[i].required \in Nat \ {0}
    /\ state[i] \in Multisig!VerificationState
    /\ IsFiniteSet(Multisig!Elements(state[i].collected))
    /\ Cardinality(Multisig!Elements(state[i].collected)) = Len(state[i].collected)
    /\ Multisig!Elements(state[i].collected) \subseteq Multisig!Elements(config[i].signers)
    /\ state[i].verified <=> Len(state[i].collected) >= config[i].required

QuorumInv ==
    /\ now \in Nat
    /\ DOMAIN config = Id /\ DOMAIN state = Id
    /\ config = [i \in Id |-> config[i]] /\ state = [i \in Id |-> state[i]]
    /\ \A i \in Id : Multisig!Configured(i) => Collected(i)

LEMMA SameCardinality == \A S : Multisig!Cardinality(S) = Cardinality(S)
BY DEF Cardinality, Multisig!Cardinality

LEMMA QuorumInit == EvidenceInit => QuorumInv
BY DEF EvidenceInit, QuorumInv, Multisig!InitVerification, Multisig!Configured

\* configure starts from no signature.
LEMMA ConfigureKeepsQuorum ==
    ASSUME QuorumInv, NEW i \in Id, NEW n \in Required, NEW s \in Multisig!SignerList,
           Multisig!Configure(i, n, s)
    PROVE  QuorumInv'
<1>1. n \in Nat \ {0} /\ now' = now /\ now + DEFAULT_TIMEOUT_SECS \in Nat
    BY EvidenceAssumption DEF Multisig!Configure, QuorumInv
<1>2. /\ config' = [config EXCEPT ![i] = [required |-> n, signers |-> s]]
      /\ state' = [state EXCEPT ![i] = [collected |-> <<>>,
                    deadline |-> now + DEFAULT_TIMEOUT_SECS, verified |-> FALSE]]
    BY DEF Multisig!Configure
<1>3. /\ DOMAIN config' = Id /\ DOMAIN state' = Id
      /\ config' = [j \in Id |-> config'[j]] /\ state' = [j \in Id |-> state'[j]]
    BY <1>2 DEF QuorumInv
<1>4. /\ config'[i] = [required |-> n, signers |-> s]
      /\ state'[i] = [collected |-> <<>>,
                      deadline |-> now + DEFAULT_TIMEOUT_SECS, verified |-> FALSE]
      /\ \A j \in Id : j # i => config'[j] = config[j] /\ state'[j] = state[j]
    BY <1>2 DEF QuorumInv
<1>5. Collected(i)'
    <2>1. state'[i] \in Multisig!VerificationState
        BY <1>1, <1>4 DEF Multisig!VerificationState
    <2>2. Multisig!Elements(<<>>) = {}
        BY DEF Multisig!Elements
    <2>3. /\ config'[i].required = n /\ state'[i].collected = <<>>
          /\ state'[i].verified = FALSE /\ Len(<<>>) = 0
        BY <1>4
    <2>4. {} \subseteq Multisig!Elements(config'[i].signers)
        OBVIOUS
    <2>5. state'[i].verified <=> Len(state'[i].collected) >= config'[i].required
        BY <1>1, <2>3
    <2>6. /\ IsFiniteSet(Multisig!Elements(state'[i].collected))
          /\ Cardinality(Multisig!Elements(state'[i].collected)) = Len(state'[i].collected)
          /\ Multisig!Elements(state'[i].collected)
                \subseteq Multisig!Elements(config'[i].signers)
        BY <2>2, <2>3, <2>4, FS_EmptySet
    <2>7. config'[i].required \in Nat \ {0}
        BY <1>1, <2>3
    <2> QED
        BY <2>1, <2>5, <2>6, <2>7 DEF Collected
<1>6. ASSUME NEW j \in Id, j # i, Multisig!Configured(j)' PROVE Collected(j)'
    BY <1>4, <1>6 DEF QuorumInv, Collected, Multisig!Configured
<1> QED
    BY <1>1, <1>3, <1>5, <1>6 DEF QuorumInv

\* A submission adds one key that was not there.
LEMMA SubmissionKeepsQuorum ==
    ASSUME QuorumInv, NEW i \in Id, NEW s \in Signer, Multisig!SubmitSignature(i, s)
    PROVE  QuorumInv'
<1> DEFINE c == state[i].collected
           d == Append(c, s)
<1>1. /\ Collected(i) /\ config' = config /\ now' = now
      /\ s \in Multisig!Elements(config[i].signers) /\ s \notin Multisig!Elements(c)
      /\ state' = [state EXCEPT ![i].collected = d,
                                ![i].verified = Len(d) >= config[i].required]
    BY DEF Multisig!SubmitSignature, Multisig!FirstSubmission, QuorumInv
<1>2. /\ state[i] \in Multisig!VerificationState /\ c \in Seq(Signer) /\ d \in Seq(Signer)
      /\ Len(d) = Len(c) + 1 /\ Len(c) \in Nat
    BY <1>1 DEF Collected, Multisig!VerificationState
<1>3. /\ DOMAIN state' = Id /\ state' = [j \in Id |-> state'[j]]
      /\ state'[i] = [state[i] EXCEPT !.collected = d, !.verified = Len(d) >= config[i].required]
      /\ \A j \in Id : j # i => state'[j] = state[j]
    BY <1>1 DEF QuorumInv
<1>4. state'[i] \in Multisig!VerificationState /\ state'[i].collected = d
      /\ (state'[i].verified <=> Len(d) >= config[i].required)
    <2>1. (Len(d) >= config[i].required) \in BOOLEAN
        OBVIOUS
    <2> HIDE DEF d
    <2> QED
        BY <1>2, <1>3, <2>1 DEF Multisig!VerificationState
<1>5. Multisig!Elements(d) = Multisig!Elements(c) \cup {s}
    <2>1. /\ DOMAIN c = 1..Len(c) /\ DOMAIN d = 1..(Len(c) + 1)
          /\ \A k \in 1..Len(c) : d[k] = c[k]
          /\ d[Len(c) + 1] = s
        BY <1>2
    <2>2. 1..(Len(c) + 1) = (1..Len(c)) \cup {Len(c) + 1}
        BY <1>2
    <2> HIDE DEF c, d
    <2> QED
        BY <2>1, <2>2 DEF Multisig!Elements
<1>6. IsFiniteSet(Multisig!Elements(d)) /\ Cardinality(Multisig!Elements(d)) = Len(d)
    <2>1. /\ IsFiniteSet(Multisig!Elements(c))
          /\ Cardinality(Multisig!Elements(c)) = Len(c)
        BY <1>1 DEF Collected
    <2> HIDE DEF c, d
    <2> QED
        BY <1>1, <1>2, <1>5, <2>1, FS_AddElement
<1>7. Collected(i)'
    <2>1. /\ config'[i] = config[i] /\ state'[i].collected = d
          /\ Multisig!Elements(c) \subseteq Multisig!Elements(config[i].signers)
          /\ config[i].required \in Nat \ {0}
        BY <1>1, <1>4 DEF Collected
    <2>2. Multisig!Elements(d) \subseteq Multisig!Elements(config[i].signers)
        BY <1>1, <1>5, <2>1
    <2> HIDE DEF c, d
    <2> QED
        BY <1>4, <1>6, <2>1, <2>2 DEF Collected
<1>8. ASSUME NEW j \in Id, j # i, Multisig!Configured(j)' PROVE Collected(j)'
    BY <1>1, <1>3, <1>8 DEF QuorumInv, Collected, Multisig!Configured
<1> QED
    BY <1>1, <1>3, <1>7, <1>8 DEF QuorumInv

LEMMA QuorumStep == QuorumInv /\ [EvidenceNext]_evidenceVars => QuorumInv'
<1> SUFFICES ASSUME QuorumInv, [EvidenceNext]_evidenceVars PROVE QuorumInv'
    OBVIOUS
<1>1. ASSUME NEW i \in Id, NEW n \in Required, NEW s \in Multisig!SignerList,
             Multisig!Configure(i, n, s)
      PROVE  QuorumInv'
    BY <1>1, ConfigureKeepsQuorum
<1>2. ASSUME NEW i \in Id, NEW s \in Signer, Multisig!SubmitSignature(i, s) PROVE QuorumInv'
    BY <1>2, SubmissionKeepsQuorum
<1>3. ASSUME config' = config, state' = state, now' \in Nat PROVE QuorumInv'
    BY <1>3 DEF QuorumInv, Collected, Multisig!Configured
<1>4. CASE Token!TokenStep /\ UNCHANGED <<verification, upgrade>>
    <2>1. now' = now
        BY <1>4 DEF Token!TokenStep, Token!Mint, Token!Transfer
    <2> QED
        BY <1>3, <1>4, <2>1 DEF verification, QuorumInv
<1>5. CASE Upgrade!UpgradeStep /\ UNCHANGED <<verification, token>>
    <2>1. now' = now
        BY <1>5 DEF Upgrade!UpgradeStep, Upgrade!QueueUpgrade, Upgrade!ExecuteUpgrade,
                    Upgrade!CancelUpgrade, Upgrade!SetUpgradePaused
    <2> QED
        BY <1>3, <1>5, <2>1 DEF verification, QuorumInv
<1>6. CASE EvidenceTick
    BY <1>3, <1>6 DEF EvidenceTick, Multisig!Tick, QuorumInv
<1>7. CASE UNCHANGED evidenceVars
    BY <1>3, <1>7 DEF evidenceVars, verification, QuorumInv
<1> QED
    BY <1>1, <1>2, <1>4, <1>5, <1>6, <1>7 DEF EvidenceNext, Multisig!VerificationStep

THEOREM QuorumAlwaysHolds == EvidenceSpec => []QuorumInv
<1> QED
    BY QuorumInit, QuorumStep, PTL DEF EvidenceSpec

\* For any list and any quorum, an invoice is verified exactly when as many
\* different configured signers as its policy requires have signed it: neither
\* a repeated key nor a repeated submission counts twice.
THEOREM VerifiedIsSigned == EvidenceSpec => []QuorumIsSigned
<1>1. QuorumInv => QuorumIsSigned
    BY SameCardinality DEF QuorumInv, Collected, QuorumIsSigned, Multisig!QuorumIsSigned
<1> QED
    BY <1>1, QuorumAlwaysHolds, PTL

\* A verdict, reached or expired, is changed by nothing but a new configuration.
THEOREM VerdictsAreFinal == EvidenceSpec => VerdictFinal
<1> DEFINE P == \A i \in Id :
        Multisig!Configured(i) /\ (state[i].verified \/ Multisig!IsExpired(i)) =>
            \/ state'[i] = state[i] /\ config'[i] = config[i]
            \/ state'[i] = [collected |-> <<>>, verified |-> FALSE,
                            deadline |-> now + DEFAULT_TIMEOUT_SECS]
<1>1. QuorumInv /\ [EvidenceNext]_evidenceVars => [P]_(Multisig!vars)
    <2> SUFFICES ASSUME QuorumInv, EvidenceNext PROVE P \/ UNCHANGED Multisig!vars
        BY DEF evidenceVars, verification, Multisig!vars
    <2>1. ASSUME NEW i \in Id, NEW n \in Required, NEW s \in Multisig!SignerList,
                 Multisig!Configure(i, n, s)
          PROVE  P
        BY <2>1 DEF Multisig!Configure, QuorumInv
    <2>2. ASSUME NEW i \in Id, NEW s \in Signer, Multisig!SubmitSignature(i, s) PROVE P
        <3>1. ~state[i].verified /\ now <= state[i].deadline /\ config' = config
              /\ \A j \in Id : j # i => state'[j] = state[j]
            BY <2>2 DEF Multisig!SubmitSignature, Multisig!InWindow, QuorumInv
        <3>2. state[i].deadline \in Nat /\ now \in Nat
            BY <2>2 DEF QuorumInv, Collected, Multisig!SubmitSignature, Multisig!VerificationState
        <3> QED
            BY <3>1, <3>2 DEF Multisig!IsExpired
    <2>3. ASSUME config' = config, state' = state PROVE P
        BY <2>3
    <2> QED
        BY <2>1, <2>2, <2>3 DEF EvidenceNext, Multisig!VerificationStep, EvidenceTick, Multisig!Tick, verification
<1>2. EvidenceSpec => [][P]_(Multisig!vars)
    BY <1>1, QuorumAlwaysHolds, PTL DEF EvidenceSpec
<1> QED
    BY <1>2 DEF VerdictFinal, Multisig!VerdictFinal

-----------------------------------------------------------------------------
(* The invoice token *)

TokenInv ==
    /\ DOMAIN token_owner = Id
    /\ history \in [Id -> Seq(Token!TransferRecord)]
    /\ now \in Nat

LEMMA TokenStepKeepsInv == TokenInv /\ [EvidenceNext]_evidenceVars => TokenInv'
<1> SUFFICES ASSUME TokenInv, [EvidenceNext]_evidenceVars PROVE TokenInv'
    OBVIOUS
<1>1. ASSUME NEW i \in Id, NEW p \in Party, Token!Mint(i, p) PROVE TokenInv'
    BY <1>1 DEF Token!Mint, TokenInv
<1>2. ASSUME NEW i \in Id, NEW p \in Party, NEW to \in Party, NEW r \in Royalties,
             Token!Transfer(i, p, to, r)
      PROVE  TokenInv'
    <2> DEFINE x == [from |-> p, to |-> to, timestamp |-> now, royalty_bps |-> r]
    <2>1. r \in 0..MAX_ROYALTY_BPS
        BY <1>2, EvidenceAssumption DEF Token!Transfer
    <2>2. x \in Token!TransferRecord
        BY <2>1 DEF Token!TransferRecord, TokenInv
    <2>3. /\ history' = [history EXCEPT ![i] = Append(history[i], x)]
          /\ token_owner' = [token_owner EXCEPT ![i] = to] /\ now' = now
        BY <1>2 DEF Token!Transfer
    <2> HIDE DEF x
    <2>4. Append(history[i], x) \in Seq(Token!TransferRecord)
        BY <2>2 DEF TokenInv
    <2> QED
        BY <2>3, <2>4 DEF TokenInv
<1>3. ASSUME UNCHANGED token, now' \in Nat PROVE TokenInv'
    BY <1>3 DEF token, TokenInv
<1>4. CASE Multisig!VerificationStep /\ UNCHANGED <<token, upgrade>>
    <2>1. now' = now
        BY <1>4 DEF Multisig!VerificationStep, Multisig!Configure, Multisig!SubmitSignature
    <2> QED
        BY <1>3, <1>4, <2>1 DEF TokenInv
<1>5. CASE Upgrade!UpgradeStep /\ UNCHANGED <<verification, token>>
    <2>1. now' = now
        BY <1>5 DEF Upgrade!UpgradeStep, Upgrade!QueueUpgrade, Upgrade!ExecuteUpgrade,
                    Upgrade!CancelUpgrade, Upgrade!SetUpgradePaused
    <2> QED
        BY <1>3, <1>5, <2>1 DEF TokenInv
<1>6. CASE EvidenceTick
    BY <1>3, <1>6 DEF EvidenceTick, Multisig!Tick, TokenInv
<1>7. CASE UNCHANGED evidenceVars
    BY <1>3, <1>7 DEF evidenceVars, TokenInv
<1> QED
    BY <1>1, <1>2, <1>4, <1>5, <1>6, <1>7 DEF EvidenceNext, Token!TokenStep

\* A token once minted changes hands only by transfers from its holder that the
\* history keeps, in order: no second mint resets it, no call rewrites it.
THEOREM OwnershipIsTraced == EvidenceSpec => OwnershipTraced
<1> DEFINE P == \A i \in Id : token_owner[i] # NotMinted =>
        \/ token_owner'[i] = token_owner[i] /\ history'[i] = history[i]
        \/ /\ Len(history'[i]) = Len(history[i]) + 1
           /\ LET r == history'[i][Len(history'[i])]
              IN /\ history'[i] = Append(history[i], r)
                 /\ r.from = token_owner[i] /\ r.to = token_owner'[i]
<1>1. TokenInv /\ [EvidenceNext]_evidenceVars => [P]_(Token!vars)
    <2> SUFFICES ASSUME TokenInv, EvidenceNext PROVE P \/ UNCHANGED Token!vars
        BY DEF evidenceVars, token, Token!vars
    <2>1. ASSUME NEW i \in Id, NEW p \in Party, Token!Mint(i, p) PROVE P
        BY <2>1 DEF Token!Mint, Token!Mintable, TokenInv
    <2>2. ASSUME NEW i \in Id, NEW p \in Party, NEW to \in Party, NEW r \in Royalties,
                 Token!Transfer(i, p, to, r)
          PROVE  P
        <3> DEFINE x == [from |-> p, to |-> to, timestamp |-> now, royalty_bps |-> r]
        <3>1. /\ history' = [history EXCEPT ![i] = Append(history[i], x)]
              /\ token_owner' = [token_owner EXCEPT ![i] = to] /\ token_owner[i] = p
              /\ x.from = p /\ x.to = to
            BY <2>2 DEF Token!Transfer, Token!HeldBy
        <3> HIDE DEF x
        <3>2. /\ history'[i] = Append(history[i], x) /\ token_owner'[i] = to
              /\ \A j \in Id : j # i => history'[j] = history[j] /\ token_owner'[j] = token_owner[j]
            BY <3>1 DEF TokenInv
        <3>3. /\ Len(Append(history[i], x)) = Len(history[i]) + 1
              /\ Append(history[i], x)[Len(history[i]) + 1] = x
            BY DEF TokenInv
        <3> QED
            BY <3>1, <3>2, <3>3
    <2>3. ASSUME UNCHANGED token PROVE P
        BY <2>3 DEF token
    <2> QED
        BY <2>1, <2>2, <2>3 DEF EvidenceNext, Token!TokenStep, EvidenceTick
<1>2. EvidenceInit => TokenInv
    BY DEF EvidenceInit, TokenInv, Token!InitToken
<1>3. EvidenceSpec => [][P]_(Token!vars)
    BY <1>1, <1>2, TokenStepKeepsInv, PTL DEF EvidenceSpec
<1> QED
    BY <1>3 DEF OwnershipTraced, Token!OwnershipTraced

-----------------------------------------------------------------------------
(* The upgrade queue *)

\* An upgrade in the slot matures one timelock after it was put there.
UpgradeInv ==
    /\ now \in Nat
    /\ Upgrade!Queued =>
         /\ public_since \in Nat
         /\ queued_upgrade.execute_after = public_since + UPGRADE_TIMELOCK_SECS

LEMMA UpgradeStepKeepsInv == UpgradeInv /\ [EvidenceNext]_evidenceVars => UpgradeInv'
<1> SUFFICES ASSUME UpgradeInv, [EvidenceNext]_evidenceVars PROVE UpgradeInv'
    OBVIOUS
<1>1. ASSUME NEW h \in Hash, Upgrade!QueueUpgrade(h) PROVE UpgradeInv'
    BY <1>1 DEF Upgrade!QueueUpgrade, Upgrade!ExecuteAfter, UpgradeInv
<1>2. ASSUME queued_upgrade' = NothingQueued, now' = now PROVE UpgradeInv'
    BY <1>2 DEF UpgradeInv, Upgrade!Queued
<1>3. ASSUME UNCHANGED <<queued_upgrade, public_since>>, now' \in Nat PROVE UpgradeInv'
    BY <1>3 DEF UpgradeInv, Upgrade!Queued
<1>4. CASE Upgrade!ExecuteUpgrade \/ Upgrade!CancelUpgrade
    BY <1>2, <1>4 DEF Upgrade!ExecuteUpgrade, Upgrade!CancelUpgrade
<1>5. ASSUME NEW b \in BOOLEAN, Upgrade!SetUpgradePaused(b) PROVE UpgradeInv'
    BY <1>3, <1>5 DEF Upgrade!SetUpgradePaused, UpgradeInv
<1>6. CASE Multisig!VerificationStep /\ UNCHANGED <<token, upgrade>>
    <2>1. now' = now
        BY <1>6 DEF Multisig!VerificationStep, Multisig!Configure, Multisig!SubmitSignature
    <2> QED
        BY <1>3, <1>6, <2>1 DEF upgrade, UpgradeInv
<1>7. CASE Token!TokenStep /\ UNCHANGED <<verification, upgrade>>
    <2>1. now' = now
        BY <1>7 DEF Token!TokenStep, Token!Mint, Token!Transfer
    <2> QED
        BY <1>3, <1>7, <2>1 DEF upgrade, UpgradeInv
<1>8. CASE EvidenceTick
    BY <1>3, <1>8 DEF EvidenceTick, Multisig!Tick, upgrade, UpgradeInv
<1>9. CASE UNCHANGED evidenceVars
    BY <1>3, <1>9 DEF evidenceVars, upgrade, UpgradeInv
<1> QED
    BY <1>1, <1>4, <1>5, <1>6, <1>7, <1>8, <1>9 DEF EvidenceNext, Upgrade!UpgradeStep

\* The contract's code becomes only what was queued, in public, for the whole
\* timelock, unreplaced and uncancelled, and never during a pause.
THEOREM UpgradesArePublic == EvidenceSpec => UpgradeWasPublic
<1> DEFINE P == wasm' # wasm =>
        /\ Upgrade!Queued /\ wasm' = queued_upgrade.new_wasm_hash
        /\ now - public_since >= UPGRADE_TIMELOCK_SECS
        /\ ~upgrade_paused
        /\ queued_upgrade' = NothingQueued
<1>1. UpgradeInv /\ [EvidenceNext]_evidenceVars => [P]_(Upgrade!vars)
    <2> SUFFICES ASSUME UpgradeInv, EvidenceNext, wasm' # wasm PROVE P
        BY DEF evidenceVars, upgrade, Upgrade!vars
    <2>1. Upgrade!ExecuteUpgrade
        BY DEF EvidenceNext, EvidenceTick, upgrade, Upgrade!UpgradeStep, Upgrade!QueueUpgrade,
               Upgrade!CancelUpgrade, Upgrade!SetUpgradePaused
    <2> QED
        BY <2>1, EvidenceAssumption DEF Upgrade!ExecuteUpgrade, UpgradeInv
<1>2. EvidenceInit => UpgradeInv
    BY DEF EvidenceInit, UpgradeInv, Upgrade!InitUpgrade, Upgrade!Queued
<1>3. EvidenceSpec => [][P]_(Upgrade!vars)
    BY <1>1, <1>2, UpgradeStepKeepsInv, PTL DEF EvidenceSpec
<1> QED
    BY <1>3 DEF UpgradeWasPublic, Upgrade!UpgradeWasPublic
===============================================================================
