------------------------ MODULE BrokerJournal_proofs ------------------------
(* Theorems about BrokerJournal, for every value of its constants: types,      *)
(* publication and audit first, then renewal lineages and by-key fences, then  *)
(* the ledger and its budgets.                                                 *)
EXTENDS BrokerJournal, FiniteSetTheorems, TLAPS

-----------------------------------------------------------------------------
(* Type correctness. *)

\* Writing a state, or a state and a result, keeps a row a row.
LEMMA StateOfOperation ==
  ASSUME NEW row \in OperationRow, NEW s \in OperationState
  PROVE  [row EXCEPT !.state = s] \in OperationRow
BY DEF OperationRow

LEMMA ResultOfOperation ==
  ASSUME NEW row \in OperationRow, NEW s \in OperationState, NEW r \in Results
  PROVE  /\ [row EXCEPT !.state = s, !.result = r] = [[row EXCEPT !.state = s] EXCEPT !.result = r]
         /\ [row EXCEPT !.state = s, !.result = r] \in OperationRow
<1>1. [row EXCEPT !.state = s, !.result = r] = [[row EXCEPT !.state = s] EXCEPT !.result = r]
  BY DEF OperationRow
<1>2. [[row EXCEPT !.state = s] EXCEPT !.result = r] \in OperationRow
  BY DEF OperationRow
<1> QED BY <1>1, <1>2

LEMMA StateOfReservation ==
  ASSUME NEW row \in ReservationRow, NEW s \in ReservationState
  PROVE  [row EXCEPT !.state = s] \in ReservationRow
BY DEF ReservationRow

LEMMA StateOfReservations ==
  ASSUME NEW a \in Approvals, NEW o \in OperationIds, NEW s \in ReservationState,
         reservations \in [Approvals -> [OperationIds -> ReservationRow]]
  PROVE  [reservations EXCEPT ![a][o].state = s]
           \in [Approvals -> [OperationIds -> ReservationRow]]
<1>1. reservations[a][o] \in ReservationRow
  OBVIOUS
<1>2. [reservations[a][o] EXCEPT !.state = s] \in ReservationRow
  BY <1>1, StateOfReservation
<1> QED BY <1>2

LEMMA InitType == Init => TypeOK
BY ConstantsAssumption
   DEF Init, TypeOK, OperationRow, NoOperation, ReservationRow, NoReservation

LEMMA ApprovalStepType == TypeOK /\ ApprovalStep => TypeOK'
<1> SUFFICES ASSUME TypeOK, NEW a \in Approvals,
                    \/ \E p \in (Approvals \ {a}) \cup {None} : CreateApprovalRecord(a, p)
                    \/ \E id \in ActivationIds : ActivateApprovalRecord(a, id)
                    \/ \E next \in {"FAILED", "REVOKED"} : TransitionApproval(a, next)
             PROVE  TypeOK'
  BY DEF ApprovalStep
<1>1. CASE \E p \in (Approvals \ {a}) \cup {None} : CreateApprovalRecord(a, p)
  BY <1>1 DEF TypeOK, CreateApprovalRecord, operationVars, ApprovalState
<1>2. CASE \E id \in ActivationIds : ActivateApprovalRecord(a, id)
  <2> PICK id \in ActivationIds : ActivateApprovalRecord(a, id)
    BY <1>2
  <2>1. [event |-> "approval.activated", subject |-> a, evidence |-> id] \in AuditEntries
    BY DEF AuditEntries
  <2> QED BY <2>1 DEF TypeOK, ActivateApprovalRecord, operationVars, ApprovalState
<1>3. CASE \E next \in {"FAILED", "REVOKED"} : TransitionApproval(a, next)
  BY <1>3 DEF TypeOK, TransitionApproval, operationVars, ApprovalState
<1> QED BY <1>1, <1>2, <1>3

LEMMA OperationStepType == TypeOK /\ OperationStep => TypeOK'
<1> SUFFICES ASSUME TypeOK, NEW o \in OperationIds,
                    \/ \E a \in Approvals, d \in Digests, f \in Fields, batch \in BOOLEAN,
                          attempt \in AttemptIds, envelope \in Envelopes :
                         BeginSignAttempt(o, a, d, f, batch, attempt, envelope)
                    \/ \E next \in OperationState \ {"RECEIVED", "SUCCEEDED", "DENIED"} :
                         TransitionOperation(o, next)
                    \/ \E params \in DOMAIN KeyTargets : BeginKeyRevocation(o, params)
                    \/ CompleteKeyRevocation(o)
             PROVE  TypeOK'
  BY DEF OperationStep
<1>1. ASSUME NEW a \in Approvals, NEW d \in Digests, NEW f \in Fields, NEW batch \in BOOLEAN,
             NEW attempt \in AttemptIds, NEW envelope \in Envelopes,
             BeginSignAttempt(o, a, d, f, batch, attempt, envelope)
      PROVE  TypeOK'
  <2>1. CASE BeginFresh(o, a, d, f, batch, attempt, envelope)
    <3> DEFINE op == [kind |-> "operation", digest |-> d, approval |-> a, fields |-> f,
                      state |-> "RECEIVED", batch |-> batch, result |-> None]
               entry == [event |-> "operation.received", subject |-> o,
                         evidence |-> ReceivedEvidence(op)]
    <3>1. op \in OperationRow
      BY DEF OperationRow, OperationState
    <3>2. ReceivedEvidence(op) = <<a, d, f, None, 0>>
      BY DEF ReceivedEvidence
    <3>3. 0 \in 0..MaxBatchChildren
      BY ConstantsAssumption
    <3>4. entry \in AuditEntries
      BY <3>2, <3>3 DEF AuditEntries
    <3>5. /\ operations' = [operations EXCEPT ![o] = op]
          /\ audit' = audit \cup {entry}
          /\ attempts' = [attempts EXCEPT ![o] = {<<attempt, envelope>>}]
          /\ UNCHANGED <<approvalVars, targets, children, reservations, clock>>
      BY <2>1 DEF BeginFresh
    <3> HIDE DEF op, entry
    <3> QED BY <3>1, <3>4, <3>5 DEF TypeOK, approvalVars
  <2>2. CASE BeginRetry(o, a, d, f, batch, attempt, envelope)
    BY <2>2 DEF TypeOK, BeginRetry, approvalVars
  <2> QED BY <1>1, <2>1, <2>2 DEF BeginSignAttempt
<1>2. ASSUME NEW next \in OperationState, TransitionOperation(o, next)
      PROVE  TypeOK'
  <2>1. [operations[o] EXCEPT !.state = next] \in OperationRow
    BY StateOfOperation DEF TypeOK
  <2> QED BY <1>2, <2>1 DEF TypeOK, TransitionOperation, approvalVars
<1>3. ASSUME NEW params \in DOMAIN KeyTargets, BeginKeyRevocation(o, params)
      PROVE  TypeOK'
  <2>1. KeyRevocationRow(params) \in OperationRow
    BY DEF KeyRevocationRow, OperationRow, OperationState
  <2> QED BY <1>3, <2>1, ConstantsAssumption DEF TypeOK, BeginKeyRevocation, ApprovalState
<1>4. ASSUME CompleteKeyRevocation(o) PROVE TypeOK'
  <2>1. [operations[o] EXCEPT !.state = "SUCCEEDED"] \in OperationRow
    BY StateOfOperation DEF TypeOK, OperationState
  <2> QED BY <1>4, <2>1 DEF TypeOK, CompleteKeyRevocation, approvalVars
<1> QED BY <1>1, <1>2, <1>3, <1>4

LEMMA PublishType ==
  ASSUME TypeOK, NEW a \in Approvals, NEW o \in OperationIds, NEW result \in Results,
         NEW n \in 0..MaxBatchChildren, NEW event \in {"operation.published", "batch.published"},
         Publish(a, o, result, n, event)
  PROVE  TypeOK'
<1> DEFINE op == [operations[o] EXCEPT !.state = "SUCCEEDED", !.result = result]
           evidence == <<operations[o].approval, operations[o].digest, operations[o].fields,
                         result, n>>
           entry == [event |-> event, subject |-> o, evidence |-> evidence]
<1>1. op \in OperationRow
  BY ResultOfOperation DEF TypeOK, OperationState
<1>2. entry \in AuditEntries
  BY DEF TypeOK, OperationRow, AuditEntries
<1>3. PublishedEvidence([operations[o] EXCEPT !.result = result], n) = evidence
  BY DEF TypeOK, OperationRow, PublishedEvidence
<1>4. reservations' \in [Approvals -> [OperationIds -> ReservationRow]]
  BY StateOfReservations DEF Publish, TypeOK, ReservationState
<1>5. /\ operations' = [operations EXCEPT ![o] = op]
      /\ audit' = audit \cup {entry}
      /\ children' = [children EXCEPT ![o] = n]
      /\ UNCHANGED <<approvalVars, attempts, targets, clock>>
  BY <1>3 DEF Publish, TypeOK, OperationRow
<1> HIDE DEF op, entry, evidence
<1> QED BY <1>1, <1>2, <1>4, <1>5 DEF TypeOK, approvalVars

LEMMA LedgerStepType == TypeOK /\ LedgerStep => TypeOK'
<1> SUFFICES ASSUME TypeOK, NEW a \in Approvals, NEW o \in OperationIds,
                    \/ \E d \in Digests, charge \in Charges, at \in 1..MaxTime :
                         Reserve(a, o, d, charge, at)
                    \/ \E next \in {"RELEASED", "QUARANTINED"} : FinalizeReservation(a, o, next)
                    \/ \E d \in Digests, result \in Results : PublishResult(a, o, d, result)
                    \/ \E d \in Digests, result \in Results, n \in 1..MaxBatchChildren :
                         PublishBatch(a, o, d, result, n)
             PROVE  TypeOK'
  BY DEF LedgerStep
<1>1. ASSUME NEW d \in Digests, NEW charge \in Charges, NEW at \in 1..MaxTime,
             Reserve(a, o, d, charge, at)
      PROVE  TypeOK'
  <2>1. [state |-> "RESERVED", digest |-> d, charge |-> charge, at |-> at] \in ReservationRow
    BY ConstantsAssumption DEF ReservationRow, ReservationState
  <2> QED BY <1>1, <2>1 DEF TypeOK, Reserve, approvalVars, operationVars
<1>2. ASSUME NEW next \in {"RELEASED", "QUARANTINED"}, FinalizeReservation(a, o, next)
      PROVE  TypeOK'
  <2>1. reservations' \in [Approvals -> [OperationIds -> ReservationRow]]
    BY <1>2, StateOfReservations DEF FinalizeReservation, TypeOK, ReservationState
  <2> QED BY <1>2, <2>1 DEF TypeOK, FinalizeReservation, approvalVars, operationVars
<1>3. ASSUME NEW d \in Digests, NEW result \in Results, PublishResult(a, o, d, result)
      PROVE  TypeOK'
  BY <1>3, PublishType, ConstantsAssumption DEF PublishResult
<1>4. ASSUME NEW d \in Digests, NEW result \in Results, NEW n \in 1..MaxBatchChildren,
             PublishBatch(a, o, d, result, n)
      PROVE  TypeOK'
  BY <1>4, PublishType, ConstantsAssumption DEF PublishBatch
<1> QED BY <1>1, <1>2, <1>3, <1>4

LEMMA ClockStepType == TypeOK /\ ClockStep => TypeOK'
BY ConstantsAssumption
   DEF TypeOK, ClockStep, ObserveTime, RepairClock, ClockCondition, approvalVars, operationVars

\* Every step keeps the row types.
LEMMA NextType == TypeOK /\ [Next]_vars => TypeOK'
<1>1. TypeOK /\ UNCHANGED vars => TypeOK'
  BY DEF TypeOK, vars, approvalVars, operationVars
<1> QED
  BY <1>1, ApprovalStepType, OperationStepType, LedgerStepType, ClockStepType DEF Next

\* Type correctness of the journal: every reachable row is one its schema and
\* its parsers accept.
THEOREM TypeCorrect == Spec => []TypeOK
BY InitType, NextType, PTL DEF Spec

-----------------------------------------------------------------------------
(* What is published, charged and audited agrees.  Three facts make the        *)
(* properties inductive: an id that is free or names a by-key revocation has   *)
(* no result and no attempt; an audit entry is about a row that exists, and a  *)
(* publication entry about a published one.                                    *)

OnlyOperationsPublish ==
  \A o \in OperationIds :
    operations[o].kind # "operation" => operations[o].result = None /\ attempts[o] = {}

AuditedExists ==
  \A e \in audit :
    /\ e.event = "approval.activated" => e.subject \in Approvals /\ activation[e.subject] # None
    /\ e.event # "approval.activated" =>
         e.subject \in OperationIds /\ operations[e.subject].kind = "operation"
    /\ e.event \in {"operation.published", "batch.published"} =>
         operations[e.subject].result # None

PublicationInv ==
  /\ OnlyOperationsPublish
  /\ AuditedExists
  /\ PublishedIsCharged
  /\ AuditCorrelated
  /\ AttemptsOfOneOperation

LEMMA InitPublication == Init => PublicationInv
BY DEF Init, PublicationInv, OnlyOperationsPublish, AuditedExists, PublishedIsCharged, AuditCorrelated,
       AttemptsOfOneOperation, NoOperation, NoReservation

\* A step that leaves these tables alone.
LEMMA UntouchedPublication ==
  ASSUME PublicationInv,
         UNCHANGED <<activation, operations, attempts, children, reservations, audit>>
  PROVE  PublicationInv'
BY DEF PublicationInv, OnlyOperationsPublish, AuditedExists, PublishedIsCharged, AuditCorrelated,
       AttemptsOfOneOperation, AuditEvidence

LEMMA ActivatePublication ==
  ASSUME TypeOK, PublicationInv, NEW a \in Approvals, NEW id \in ActivationIds,
         ActivateApprovalRecord(a, id)
  PROVE  PublicationInv'
<1> DEFINE entry == [event |-> "approval.activated", subject |-> a, evidence |-> id]
<1>1. /\ UNCHANGED <<operations, attempts, children, reservations>>
      /\ activation[a] = None
      /\ activation' = [activation EXCEPT ![a] = id]
      /\ audit' = audit \cup {entry}
  BY DEF ActivateApprovalRecord, CanActivate, operationVars
<1>2. activation'[a] = id /\ id # None
  BY <1>1, ConstantsAssumption DEF TypeOK
<1>3. AuditedExists'
  BY <1>1, <1>2 DEF PublicationInv, AuditedExists, TypeOK
<1>4. AuditCorrelated'
  <2>1. ASSUME NEW e \in audit PROVE e.evidence = AuditEvidence(e.event, e.subject)'
    <3>1. e.event = "approval.activated" => e.subject \in Approvals \ {a}
      BY <1>1 DEF PublicationInv, AuditedExists
    <3>2. e.evidence = AuditEvidence(e.event, e.subject)
      BY DEF PublicationInv, AuditCorrelated
    <3>3. e.event \in {"operation.received", "operation.published", "batch.published",
                       "approval.activated"}
      BY DEF TypeOK, AuditEntries
    <3> QED BY <1>1, <3>1, <3>2, <3>3 DEF AuditEvidence, TypeOK
  <2>2. entry.evidence = AuditEvidence(entry.event, entry.subject)'
    BY <1>2 DEF AuditEvidence
  <2> QED BY <1>1, <2>1, <2>2 DEF AuditCorrelated
<1> QED
  BY <1>1, <1>3, <1>4
     DEF PublicationInv, OnlyOperationsPublish, PublishedIsCharged, AttemptsOfOneOperation

LEMMA BeginFreshPublication ==
  ASSUME TypeOK, PublicationInv, NEW o \in OperationIds, NEW a \in Approvals,
         NEW d \in Digests, NEW f \in Fields, NEW batch \in BOOLEAN,
         NEW attempt \in AttemptIds, NEW envelope \in Envelopes,
         BeginFresh(o, a, d, f, batch, attempt, envelope)
  PROVE  PublicationInv'
<1> DEFINE op == [kind |-> "operation", digest |-> d, approval |-> a, fields |-> f,
                  state |-> "RECEIVED", batch |-> batch, result |-> None]
           entry == [event |-> "operation.received", subject |-> o,
                     evidence |-> ReceivedEvidence(op)]
<1>1. /\ operations[o].kind = "absent"
      /\ operations' = [operations EXCEPT ![o] = op]
      /\ audit' = audit \cup {entry}
      /\ attempts' = [attempts EXCEPT ![o] = {<<attempt, envelope>>}]
      /\ UNCHANGED <<activation, children, reservations>>
  BY DEF BeginFresh, approvalVars
<1>2. /\ operations'[o] = op
      /\ \A p \in OperationIds \ {o} : operations'[p] = operations[p] /\ attempts'[p] = attempts[p]
      /\ attempts'[o] = {<<attempt, envelope>>}
  BY <1>1 DEF TypeOK
<1>3. operations[o].result = None
  BY <1>1 DEF PublicationInv, OnlyOperationsPublish
<1>4. \A e \in audit : e.event # "approval.activated" => e.subject \in OperationIds \ {o}
  BY <1>1 DEF PublicationInv, AuditedExists
<1>5. OnlyOperationsPublish'
  BY <1>2 DEF PublicationInv, OnlyOperationsPublish
<1>6. AuditedExists'
  BY <1>1, <1>2, <1>4 DEF PublicationInv, AuditedExists
<1>7. PublishedIsCharged'
  BY <1>1, <1>2, <1>3 DEF PublicationInv, PublishedIsCharged
<1>8. AuditCorrelated'
  <2>1. ASSUME NEW e \in audit PROVE e.evidence = AuditEvidence(e.event, e.subject)'
    <3>1. e.evidence = AuditEvidence(e.event, e.subject)
      BY DEF PublicationInv, AuditCorrelated
    <3>2. e.event \in {"operation.received", "operation.published", "batch.published",
                       "approval.activated"}
      BY DEF TypeOK, AuditEntries
    <3> HIDE DEF op, entry
    <3> QED BY <1>1, <1>2, <1>4, <3>1, <3>2 DEF AuditEvidence
  <2>2. entry.evidence = AuditEvidence(entry.event, entry.subject)'
    BY <1>2 DEF AuditEvidence
  <2> QED BY <1>1, <2>1, <2>2 DEF AuditCorrelated
<1>9. AttemptsOfOneOperation'
  BY <1>2 DEF PublicationInv, AttemptsOfOneOperation
<1> QED BY <1>5, <1>6, <1>7, <1>8, <1>9 DEF PublicationInv

LEMMA BeginRetryPublication ==
  ASSUME TypeOK, PublicationInv, NEW o \in OperationIds, NEW a \in Approvals,
         NEW d \in Digests, NEW f \in Fields, NEW batch \in BOOLEAN,
         NEW attempt \in AttemptIds, NEW envelope \in Envelopes,
         BeginRetry(o, a, d, f, batch, attempt, envelope)
  PROVE  PublicationInv'
<1>1. /\ operations[o].kind = "operation"
      /\ \A prior \in attempts[o] : prior[1] = attempt => prior[2] = envelope
      /\ attempts' = [attempts EXCEPT ![o] = @ \cup {<<attempt, envelope>>}]
      /\ UNCHANGED <<activation, operations, children, reservations, audit>>
  BY DEF BeginRetry, CanRetry, approvalVars
<1>2. /\ attempts'[o] = attempts[o] \cup {<<attempt, envelope>>}
      /\ attempts[o] \subseteq AttemptIds \X Envelopes
      /\ \A p \in OperationIds \ {o} : attempts'[p] = attempts[p]
  BY <1>1 DEF TypeOK
<1>3. \A prior \in attempts[o] : prior = <<prior[1], prior[2]>>
  BY <1>2
<1>4. AttemptsOfOneOperation'
  BY <1>1, <1>2, <1>3 DEF PublicationInv, AttemptsOfOneOperation
<1>5. OnlyOperationsPublish'
  BY <1>1, <1>2 DEF PublicationInv, OnlyOperationsPublish
<1>6. AuditCorrelated'
  BY <1>1 DEF PublicationInv, AuditCorrelated, AuditEvidence
<1> QED BY <1>1, <1>4, <1>5, <1>6 DEF PublicationInv, AuditedExists, PublishedIsCharged

\* TransitionOperation and CompleteKeyRevocation change only a state column.
LEMMA StateChangePublication ==
  ASSUME TypeOK, PublicationInv, NEW o \in OperationIds, NEW next,
         operations[o].kind # "absent",
         operations' = [operations EXCEPT ![o].state = next],
         UNCHANGED <<activation, attempts, children, reservations, audit>>
  PROVE  PublicationInv'
<1>1. \A p \in OperationIds :
        /\ operations'[p].kind = operations[p].kind
        /\ operations'[p].digest = operations[p].digest
        /\ operations'[p].approval = operations[p].approval
        /\ operations'[p].fields = operations[p].fields
        /\ operations'[p].result = operations[p].result
  BY DEF TypeOK, OperationRow
<1>2. AuditCorrelated'
  <2> SUFFICES ASSUME NEW e \in audit PROVE e.evidence = AuditEvidence(e.event, e.subject)'
    BY DEF AuditCorrelated
  <2>1. e.evidence = AuditEvidence(e.event, e.subject)
    BY DEF PublicationInv, AuditCorrelated
  <2>2. e.event \in {"operation.received", "operation.published", "batch.published",
                     "approval.activated"}
    BY DEF TypeOK, AuditEntries
  <2>3. e.event # "approval.activated" => e.subject \in OperationIds
    BY DEF PublicationInv, AuditedExists
  <2> QED BY <1>1, <2>1, <2>2, <2>3 DEF AuditEvidence, ReceivedEvidence, PublishedEvidence
<1> QED
  BY <1>1, <1>2
     DEF PublicationInv, OnlyOperationsPublish, AuditedExists, PublishedIsCharged, AttemptsOfOneOperation

LEMMA BeginKeyRevocationPublication ==
  ASSUME TypeOK, PublicationInv, NEW o \in OperationIds, NEW params \in DOMAIN KeyTargets,
         BeginKeyRevocation(o, params)
  PROVE  PublicationInv'
<1>1. /\ operations[o].kind = "absent"
      /\ operations' = [operations EXCEPT ![o] = KeyRevocationRow(params)]
      /\ UNCHANGED <<activation, attempts, children, reservations, audit>>
  BY DEF BeginKeyRevocation
<1>2. /\ operations'[o].kind = "key_revocation"
      /\ operations'[o].result = None
      /\ \A p \in OperationIds \ {o} : operations'[p] = operations[p]
  BY <1>1 DEF TypeOK, KeyRevocationRow
<1>3. operations[o].result = None /\ attempts[o] = {}
  BY <1>1 DEF PublicationInv, OnlyOperationsPublish
<1>4. \A e \in audit : e.event # "approval.activated" => e.subject \in OperationIds \ {o}
  BY <1>1 DEF PublicationInv, AuditedExists
<1>5. AuditCorrelated'
  <2> SUFFICES ASSUME NEW e \in audit PROVE e.evidence = AuditEvidence(e.event, e.subject)'
    BY <1>1 DEF AuditCorrelated
  <2>1. e.evidence = AuditEvidence(e.event, e.subject)
    BY DEF PublicationInv, AuditCorrelated
  <2>2. e.event \in {"operation.received", "operation.published", "batch.published",
                     "approval.activated"}
    BY DEF TypeOK, AuditEntries
  <2> QED BY <1>1, <1>2, <1>4, <2>1, <2>2 DEF AuditEvidence
<1>6. OnlyOperationsPublish' /\ AuditedExists'
  BY <1>1, <1>2, <1>4 DEF PublicationInv, OnlyOperationsPublish, AuditedExists
<1>7. PublishedIsCharged'
  BY <1>1, <1>2, <1>3 DEF PublicationInv, PublishedIsCharged
<1>8. AttemptsOfOneOperation'
  BY <1>1, <1>2, <1>3 DEF PublicationInv, AttemptsOfOneOperation
<1> QED BY <1>5, <1>6, <1>7, <1>8 DEF PublicationInv

\* Reserve and FinalizeReservation write one ledger row, and none that is or
\* becomes COMMITTED.
LEMMA LedgerRowPublication ==
  ASSUME TypeOK, PublicationInv, NEW a \in Approvals, NEW o \in OperationIds, NEW row,
         reservations[a][o].state # "COMMITTED", row.state # "COMMITTED",
         reservations' = [reservations EXCEPT ![a][o] = row],
         UNCHANGED <<activation, operationVars, audit>>
  PROVE  PublicationInv'
<1>1. \A b \in Approvals, p \in OperationIds :
        (reservations'[b][p].state = "COMMITTED") <=> (reservations[b][p].state = "COMMITTED")
  BY DEF TypeOK
<1>2. UNCHANGED <<activation, operations, attempts, children, audit>>
  BY DEF operationVars
<1>3. PublishedIsCharged'
  BY <1>1, <1>2 DEF PublicationInv, PublishedIsCharged
<1>4. AuditCorrelated'
  BY <1>2 DEF PublicationInv, AuditCorrelated, AuditEvidence
<1> QED
  BY <1>2, <1>3, <1>4 DEF PublicationInv, OnlyOperationsPublish, AuditedExists, AttemptsOfOneOperation

LEMMA PublishPublication ==
  ASSUME TypeOK, PublicationInv, NEW a \in Approvals, NEW o \in OperationIds, NEW d,
         NEW result \in Results, NEW n \in 0..MaxBatchChildren,
         NEW event \in {"operation.published", "batch.published"},
         event = "operation.published" => n = 0,
         CanPublish(a, o, d), Publish(a, o, result, n, event)
  PROVE  PublicationInv'
<1> DEFINE op == [operations[o] EXCEPT !.state = "SUCCEEDED", !.result = result]
           evidence == <<operations[o].approval, operations[o].digest, operations[o].fields,
                         result, n>>
           entry == [event |-> event, subject |-> o, evidence |-> evidence]
<1>1. /\ operations[o].kind = "operation"
      /\ operations[o].result = None
      /\ operations[o].approval = a
      /\ reservations[a][o].state = "RESERVED"
  BY DEF CanPublish
<1>2. operations[o] \in OperationRow
  BY DEF TypeOK
<1>3. PublishedEvidence([operations[o] EXCEPT !.result = result], n) = evidence
  BY <1>2 DEF OperationRow, PublishedEvidence
<1>4. /\ operations' = [operations EXCEPT ![o] = op]
      /\ audit' = audit \cup {entry}
      /\ children' = [children EXCEPT ![o] = n]
      /\ reservations' = [reservations EXCEPT ![a][o].state = "COMMITTED"]
      /\ UNCHANGED <<activation, attempts>>
  BY <1>3 DEF Publish, TypeOK, OperationRow, approvalVars
<1>5. /\ operations'[o].kind = "operation"
      /\ operations'[o].digest = operations[o].digest
      /\ operations'[o].approval = a
      /\ operations'[o].fields = operations[o].fields
      /\ operations'[o].result = result
      /\ children'[o] = n
  <2>1. operations'[o] = op /\ children'[o] = n
    BY <1>4 DEF TypeOK
  <2>2. op = [[operations[o] EXCEPT !.state = "SUCCEEDED"] EXCEPT !.result = result]
    BY <1>2, ResultOfOperation DEF OperationState
  <2> QED BY <1>1, <1>2, <2>1, <2>2 DEF OperationRow
<1>6. \A p \in OperationIds \ {o} : operations'[p] = operations[p] /\ children'[p] = children[p]
  BY <1>4 DEF TypeOK
<1>7. result # None
  BY ConstantsAssumption
<1> HIDE DEF op, evidence
<1>8. OnlyOperationsPublish' /\ AttemptsOfOneOperation'
  BY <1>1, <1>4, <1>5, <1>6 DEF PublicationInv, OnlyOperationsPublish, AttemptsOfOneOperation
<1>9. AuditedExists'
  BY <1>1, <1>4, <1>5, <1>6, <1>7 DEF PublicationInv, AuditedExists
<1>10. PublishedIsCharged'
  <2>1. /\ reservations'[a][o].state = "COMMITTED"
        /\ \A b \in Approvals, p \in OperationIds :
             <<b, p>> # <<a, o>> => reservations'[b][p] = reservations[b][p]
    BY <1>4 DEF TypeOK, ReservationRow
  <2> QED BY <1>1, <1>5, <1>6, <1>7, <2>1 DEF PublicationInv, PublishedIsCharged
<1>11. AuditCorrelated'
  <2>1. ASSUME NEW e \in audit PROVE e.evidence = AuditEvidence(e.event, e.subject)'
    <3>1. e.evidence = AuditEvidence(e.event, e.subject)
      BY DEF PublicationInv, AuditCorrelated
    <3>2. e.event \in {"operation.received", "operation.published", "batch.published",
                       "approval.activated"}
      BY DEF TypeOK, AuditEntries
    <3>3. /\ e.event \in {"operation.published", "batch.published"} =>
               e.subject \in OperationIds \ {o}
          /\ e.event = "operation.received" => e.subject \in OperationIds
      BY <1>1 DEF PublicationInv, AuditedExists
    <3> QED
      BY <1>1, <1>4, <1>5, <1>6, <3>1, <3>2, <3>3 DEF AuditEvidence, ReceivedEvidence
  <2>2. entry.evidence = AuditEvidence(entry.event, entry.subject)'
    BY <1>1, <1>5 DEF AuditEvidence, PublishedEvidence, evidence
  <2> QED BY <1>4, <2>1, <2>2 DEF AuditCorrelated
<1> QED BY <1>8, <1>9, <1>10, <1>11 DEF PublicationInv

LEMMA NextPublication == TypeOK /\ PublicationInv /\ [Next]_vars => PublicationInv'
<1> SUFFICES ASSUME TypeOK, PublicationInv, [Next]_vars PROVE PublicationInv'
  OBVIOUS
<1>1. CASE ApprovalStep
  <2> PICK a \in Approvals :
         \/ \E p \in (Approvals \ {a}) \cup {None} : CreateApprovalRecord(a, p)
         \/ \E id \in ActivationIds : ActivateApprovalRecord(a, id)
         \/ \E next \in {"FAILED", "REVOKED"} : TransitionApproval(a, next)
    BY <1>1 DEF ApprovalStep
  <2>1. CASE \E p \in (Approvals \ {a}) \cup {None} : CreateApprovalRecord(a, p)
    BY <2>1, UntouchedPublication DEF CreateApprovalRecord, operationVars
  <2>2. CASE \E next \in {"FAILED", "REVOKED"} : TransitionApproval(a, next)
    BY <2>2, UntouchedPublication DEF TransitionApproval, operationVars
  <2> QED BY <2>1, <2>2, ActivatePublication
<1>2. CASE OperationStep
  <2> PICK o \in OperationIds :
         \/ \E a \in Approvals, d \in Digests, f \in Fields, batch \in BOOLEAN,
               attempt \in AttemptIds, envelope \in Envelopes :
              BeginSignAttempt(o, a, d, f, batch, attempt, envelope)
         \/ \E next \in OperationState \ {"RECEIVED", "SUCCEEDED", "DENIED"} :
              TransitionOperation(o, next)
         \/ \E params \in DOMAIN KeyTargets : BeginKeyRevocation(o, params)
         \/ CompleteKeyRevocation(o)
    BY <1>2 DEF OperationStep
  <2>1. CASE \E next \in OperationState \ {"RECEIVED", "SUCCEEDED", "DENIED"} :
               TransitionOperation(o, next)
    BY <2>1, StateChangePublication
       DEF TransitionOperation, CanTransitionOperation, approvalVars
  <2>2. CASE CompleteKeyRevocation(o)
    BY <2>2, StateChangePublication DEF CompleteKeyRevocation, approvalVars
  <2> QED
    BY <2>1, <2>2, BeginFreshPublication, BeginRetryPublication, BeginKeyRevocationPublication
       DEF BeginSignAttempt
<1>3. CASE LedgerStep
  <2> PICK a \in Approvals, o \in OperationIds :
         \/ \E d \in Digests, charge \in Charges, at \in 1..MaxTime :
              Reserve(a, o, d, charge, at)
         \/ \E next \in {"RELEASED", "QUARANTINED"} : FinalizeReservation(a, o, next)
         \/ \E d \in Digests, result \in Results : PublishResult(a, o, d, result)
         \/ \E d \in Digests, result \in Results, n \in 1..MaxBatchChildren :
              PublishBatch(a, o, d, result, n)
    BY <1>3 DEF LedgerStep
  <2>1. ASSUME NEW d \in Digests, NEW charge \in Charges, NEW at \in 1..MaxTime,
               Reserve(a, o, d, charge, at)
        PROVE  PublicationInv'
    <3> DEFINE row == [state |-> "RESERVED", digest |-> d, charge |-> charge, at |-> at]
    <3>1. /\ reservations[a][o].state # "COMMITTED" /\ row.state # "COMMITTED"
          /\ reservations' = [reservations EXCEPT ![a][o] = row]
          /\ UNCHANGED <<activation, operationVars, audit>>
      BY <2>1 DEF Reserve, CanReserve, approvalVars
    <3> HIDE DEF row
    <3> QED BY <3>1, LedgerRowPublication
  <2>2. ASSUME NEW next \in {"RELEASED", "QUARANTINED"}, FinalizeReservation(a, o, next)
        PROVE  PublicationInv'
    <3> DEFINE row == [reservations[a][o] EXCEPT !.state = next]
    <3>0. reservations[a][o] \in ReservationRow
      BY DEF TypeOK
    <3>1. /\ reservations[a][o].state # "COMMITTED" /\ row.state # "COMMITTED"
          /\ reservations' = [reservations EXCEPT ![a][o] = row]
          /\ UNCHANGED <<activation, operationVars, audit>>
      BY <2>2, <3>0 DEF FinalizeReservation, approvalVars, ReservationRow
    <3> HIDE DEF row
    <3> QED BY <3>1, LedgerRowPublication
  <2>3. ASSUME NEW d \in Digests, NEW result \in Results, PublishResult(a, o, d, result)
        PROVE  PublicationInv'
    BY <2>3, PublishPublication, ConstantsAssumption DEF PublishResult
  <2>4. ASSUME NEW d \in Digests, NEW result \in Results, NEW n \in 1..MaxBatchChildren,
               PublishBatch(a, o, d, result, n)
        PROVE  PublicationInv'
    BY <2>4, PublishPublication, ConstantsAssumption DEF PublishBatch
  <2> QED BY <2>1, <2>2, <2>3, <2>4
<1>4. CASE ClockStep
  BY <1>4, UntouchedPublication DEF ClockStep, ObserveTime, RepairClock, approvalVars, operationVars
<1>5. CASE UNCHANGED vars
  BY <1>5, UntouchedPublication DEF vars, approvalVars, operationVars
<1> QED BY <1>1, <1>2, <1>3, <1>4, <1>5 DEF Next

\* A reservation is charged exactly when its operation's result is published
\* under that approval's receipt (publish_result, publish_batch).
THEOREM ChargedIffPublished == Spec => []PublishedIsCharged
<1>1. PublicationInv => PublishedIsCharged
  BY DEF PublicationInv
<1> QED BY <1>1, InitPublication, NextPublication, TypeCorrect, PTL DEF Spec

\* Every v1 audit entry agrees with the rows it is about for as long as it is
\* retained, so verify_audit_correlation never degrades an untouched journal.
THEOREM AuditStaysCorrelated == Spec => []AuditCorrelated
<1>1. PublicationInv => AuditCorrelated
  BY DEF PublicationInv
<1> QED BY <1>1, InitPublication, NextPublication, TypeCorrect, PTL DEF Spec

\* An attempt id names one attempt of one signing operation (begin_sign_attempt).
THEOREM AttemptsNameOneOperation == Spec => []AttemptsOfOneOperation
<1>1. PublicationInv => AttemptsOfOneOperation
  BY DEF PublicationInv
<1> QED BY <1>1, InitPublication, NextPublication, TypeCorrect, PTL DEF Spec

-----------------------------------------------------------------------------
(* What a step may never do to a bound operation. *)

LEMMA RestoredRow ==
  ASSUME NEW old \in OperationRow, NEW new \in OperationRow,
         new.kind = old.kind, new.digest = old.digest, new.approval = old.approval,
         new.fields = old.fields, new.batch = old.batch
  PROVE  [new EXCEPT !.state = old.state, !.result = old.result] = old
<1>1. [new EXCEPT !.state = old.state, !.result = old.result]
        = [[new EXCEPT !.state = old.state] EXCEPT !.result = old.result]
  BY DEF OperationRow
<1>2. [[new EXCEPT !.state = old.state] EXCEPT !.result = old.result] = old
  BY DEF OperationRow
<1> QED BY <1>1, <1>2

\* The columns of a bound operation that a step leaves as they are.
LEMMA BoundColumns ==
  ASSUME TypeOK, PublicationInv, [Next]_vars, NEW o \in OperationIds,
         operations[o].kind # "absent"
  PROVE  /\ operations'[o].kind = operations[o].kind
         /\ operations'[o].digest = operations[o].digest
         /\ operations'[o].approval = operations[o].approval
         /\ operations'[o].fields = operations[o].fields
         /\ operations'[o].batch = operations[o].batch
         /\ operations[o].result # None =>
              operations'[o] = operations[o] /\ children'[o] = children[o]
<1> USE DEF TypeOK, OperationRow
<1>1. CASE UNCHANGED <<operations, children>>
  BY <1>1
<1>2. ASSUME NEW p \in OperationIds, NEW a, NEW d, NEW f, NEW batch, NEW attempt, NEW envelope,
             BeginFresh(p, a, d, f, batch, attempt, envelope)
      PROVE  UNCHANGED <<operations[o], children>>
  BY <1>2 DEF BeginFresh
<1>3. ASSUME NEW p \in OperationIds, NEW params, BeginKeyRevocation(p, params)
      PROVE  UNCHANGED <<operations[o], children>>
  BY <1>3 DEF BeginKeyRevocation
<1>4. ASSUME NEW p \in OperationIds, NEW next, operations[p].result = None,
             operations' = [operations EXCEPT ![p].state = next], UNCHANGED children
      PROVE  /\ operations'[o].kind = operations[o].kind
             /\ operations'[o].digest = operations[o].digest
             /\ operations'[o].approval = operations[o].approval
             /\ operations'[o].fields = operations[o].fields
             /\ operations'[o].batch = operations[o].batch
             /\ operations[o].result # None =>
                  operations'[o] = operations[o] /\ children'[o] = children[o]
  BY <1>4
<1>5. ASSUME NEW p \in OperationIds, CompleteKeyRevocation(p)
      PROVE  operations[p].result = None
  BY <1>5 DEF CompleteKeyRevocation, PublicationInv, OnlyOperationsPublish
<1>6. ASSUME NEW a \in Approvals, NEW p \in OperationIds, NEW d, NEW result, NEW n, NEW event,
             CanPublish(a, p, d), Publish(a, p, result, n, event)
      PROVE  /\ operations'[o].kind = operations[o].kind
             /\ operations'[o].digest = operations[o].digest
             /\ operations'[o].approval = operations[o].approval
             /\ operations'[o].fields = operations[o].fields
             /\ operations'[o].batch = operations[o].batch
             /\ operations[o].result # None =>
                  operations'[o] = operations[o] /\ children'[o] = children[o]
  BY <1>6 DEF CanPublish, Publish
<1>7. CASE OperationStep
  <2> PICK p \in OperationIds :
         \/ \E a \in Approvals, d \in Digests, f \in Fields, batch \in BOOLEAN,
               attempt \in AttemptIds, envelope \in Envelopes :
              BeginSignAttempt(p, a, d, f, batch, attempt, envelope)
         \/ \E next \in OperationState \ {"RECEIVED", "SUCCEEDED", "DENIED"} :
              TransitionOperation(p, next)
         \/ \E params \in DOMAIN KeyTargets : BeginKeyRevocation(p, params)
         \/ CompleteKeyRevocation(p)
    BY <1>7 DEF OperationStep
  <2>1. ASSUME NEW a, NEW d, NEW f, NEW batch, NEW attempt, NEW envelope,
               BeginRetry(p, a, d, f, batch, attempt, envelope)
        PROVE  UNCHANGED <<operations, children>>
    BY <2>1 DEF BeginRetry
  <2>2. ASSUME NEW next, TransitionOperation(p, next)
        PROVE  /\ operations[p].result = None
               /\ operations' = [operations EXCEPT ![p].state = next]
               /\ UNCHANGED children
    BY <2>2 DEF TransitionOperation, CanTransitionOperation
  <2>3. CompleteKeyRevocation(p) =>
          operations' = [operations EXCEPT ![p].state = "SUCCEEDED"] /\ UNCHANGED children
    BY DEF CompleteKeyRevocation
  <2> QED BY <1>1, <1>2, <1>3, <1>4, <1>5, <2>1, <2>2, <2>3 DEF BeginSignAttempt
<1>8. CASE LedgerStep
  <2> PICK a \in Approvals, p \in OperationIds :
         \/ \E d \in Digests, charge \in Charges, at \in 1..MaxTime :
              Reserve(a, p, d, charge, at)
         \/ \E next \in {"RELEASED", "QUARANTINED"} : FinalizeReservation(a, p, next)
         \/ \E d \in Digests, result \in Results : PublishResult(a, p, d, result)
         \/ \E d \in Digests, result \in Results, n \in 1..MaxBatchChildren :
              PublishBatch(a, p, d, result, n)
    BY <1>8 DEF LedgerStep
  <2>1. ASSUME NEW d, NEW charge, NEW at, Reserve(a, p, d, charge, at)
        PROVE  UNCHANGED <<operations, children>>
    BY <2>1 DEF Reserve, operationVars
  <2>2. ASSUME NEW next, FinalizeReservation(a, p, next)
        PROVE  UNCHANGED <<operations, children>>
    BY <2>2 DEF FinalizeReservation, operationVars
  <2> QED BY <1>1, <1>6, <2>1, <2>2 DEF PublishResult, PublishBatch
<1>9. CASE ApprovalStep \/ ClockStep \/ UNCHANGED vars
  BY <1>1, <1>9
     DEF ApprovalStep, CreateApprovalRecord, ActivateApprovalRecord, TransitionApproval,
         ClockStep, ObserveTime, RepairClock, vars, operationVars
<1> QED BY <1>7, <1>8, <1>9 DEF Next

\* An operation id is bound once and its result is never replaced
\* (begin_sign_attempt, publish_result).
THEOREM OperationBoundOnce == Spec => OperationBinding
<1> DEFINE Bound ==
      \A o \in OperationIds :
        LET old == operations[o]
            new == operations'[o]
        IN  old.kind # "absent" =>
              /\ [new EXCEPT !.state = old.state, !.result = old.result] = old
              /\ old.result # None => new = old /\ children'[o] = children[o]
<1>1. TypeOK /\ TypeOK' /\ PublicationInv /\ [Next]_vars => Bound
  <2> SUFFICES ASSUME TypeOK, TypeOK', PublicationInv, [Next]_vars, NEW o \in OperationIds,
                      operations[o].kind # "absent"
               PROVE  /\ [operations'[o] EXCEPT !.state = operations[o].state,
                                                !.result = operations[o].result] = operations[o]
                      /\ operations[o].result # None =>
                           operations'[o] = operations[o] /\ children'[o] = children[o]
    OBVIOUS
  <2>1. operations[o] \in OperationRow /\ operations'[o] \in OperationRow
    BY DEF TypeOK
  <2> QED BY <2>1, BoundColumns, RestoredRow
<1> QED
  BY <1>1, InitPublication, NextPublication, TypeCorrect, PTL DEF Spec, OperationBinding

-----------------------------------------------------------------------------
(* Lineages. *)

\* The lineage of an approval is the approval and the lineage of what it renews.
LEMMA LineageUnfold ==
  ASSUME NEW a \in Approvals
  PROVE  /\ a \in Lineage(a)
         /\ renewalOf[a] = None => Lineage(a) \subseteq {a}
         /\ renewalOf[a] \in Approvals => Lineage(a) \subseteq {a} \cup Lineage(renewalOf[a])
<1>1. a \in Lineage(a)
  BY DEF Lineage
<1>2. ASSUME renewalOf[a] = None, NEW b \in Lineage(a) PROVE b = a
  <2>1. a \in {a} /\ \A c \in {a} : renewalOf[c] # None => renewalOf[c] \in {a}
    BY <1>2
  <2> QED BY <1>2, <2>1 DEF Lineage
<1>3. ASSUME renewalOf[a] \in Approvals, NEW b \in Lineage(a), b # a
      PROVE  b \in Lineage(renewalOf[a])
  <2> SUFFICES ASSUME NEW S \in SUBSET Approvals, renewalOf[a] \in S,
                      \A c \in S : renewalOf[c] # None => renewalOf[c] \in S
               PROVE  b \in S
    BY <1>3 DEF Lineage
  <2> DEFINE T == S \cup {a}
  <2>1. T \in SUBSET Approvals /\ a \in T
    OBVIOUS
  <2>2. \A c \in T : renewalOf[c] # None => renewalOf[c] \in T
    OBVIOUS
  <2>3. b \in T
    BY <1>3, <2>1, <2>2 DEF Lineage
  <2> QED BY <1>3, <2>3
<1> QED BY <1>1, <1>2, <1>3

\* What the approval tables keep about each other.  A predecessor exists before
\* the record that names it; only an activation makes an approval ACTIVE; a
\* by-key revocation's targets are past their ceremony.
Linked ==
  \A a \in Approvals :
    /\ renewalOf[a] # None => approvals[renewalOf[a]] # "ABSENT"
    /\ approvals[a] = "ACTIVE" => activation[a] # None
    /\ activation[a] # None => approvals[a] # "ABSENT"

Fenced ==
  \A o \in OperationIds : \A a \in targets[o] :
    approvals[a] \notin {"ABSENT", "PREPARED", "AWAITING_CEREMONY"}

LineageInv ==
  /\ Linked
  /\ Fenced
  /\ RenewalConsumesLineage
  /\ NoForkedLineage

LEMMA InitLineage == Init => LineageInv
BY DEF Init, LineageInv, Linked, Fenced, RenewalConsumesLineage, NoForkedLineage

LEMMA UntouchedLineage ==
  ASSUME LineageInv, UNCHANGED <<approvalVars, targets>>
  PROVE  LineageInv' /\ \A a \in Approvals : Lineage(a)' = Lineage(a)
BY DEF LineageInv, Linked, Fenced, RenewalConsumesLineage, NoForkedLineage, Lineage, approvalVars

\* A new record is nobody's predecessor, so it enters no other lineage.
LEMMA CreatedLineage ==
  ASSUME TypeOK, Linked, NEW a \in Approvals, NEW p \in (Approvals \ {a}) \cup {None},
         CreateApprovalRecord(a, p), NEW c \in Approvals \ {a}
  PROVE  Lineage(c)' \subseteq Lineage(c)
<1> SUFFICES ASSUME NEW b \in Lineage(c)', NEW S \in SUBSET Approvals, c \in S,
                    \A e \in S : renewalOf[e] # None => renewalOf[e] \in S
             PROVE  b \in S
  BY DEF Lineage
<1> DEFINE T == S \ {a}
<1>1. T \in SUBSET Approvals /\ c \in T
  OBVIOUS
<1>2. \A e \in T : renewalOf'[e] # None => renewalOf'[e] \in T
  BY DEF TypeOK, Linked, CreateApprovalRecord
<1>3. b \in T
  BY <1>1, <1>2 DEF Lineage
<1> QED BY <1>3

LEMMA CreateLineage ==
  ASSUME TypeOK, LineageInv, NEW a \in Approvals, NEW p \in (Approvals \ {a}) \cup {None},
         CreateApprovalRecord(a, p)
  PROVE  LineageInv'
<1>1. /\ approvals[a] = "ABSENT"
      /\ \A b \in Approvals \ {a} : approvals'[b] = approvals[b] /\ renewalOf'[b] = renewalOf[b]
      /\ approvals'[a] = "AWAITING_CEREMONY" /\ renewalOf'[a] = p
      /\ p # None => approvals[p] # "ABSENT"
      /\ UNCHANGED <<activation, targets>>
  BY DEF CreateApprovalRecord, TypeOK, operationVars
<1>2. Linked' /\ Fenced'
  BY <1>1 DEF LineageInv, Linked, Fenced, TypeOK
<1>3. \A c \in Approvals \ {a} : Lineage(c)' \subseteq Lineage(c)
  BY CreatedLineage DEF LineageInv
<1>4. activation[a] = None
  BY <1>1 DEF LineageInv, Linked
<1>5. RenewalConsumesLineage'
  <2> SUFFICES ASSUME NEW c \in Approvals, activation'[c] # None, NEW b \in Lineage(c)' \ {c}
               PROVE  approvals'[b] = "REVOKED"
    BY DEF RenewalConsumesLineage
  <2>1. approvals[b] = "REVOKED"
    BY <1>1, <1>3, <1>4 DEF LineageInv, RenewalConsumesLineage
  <2>2. b \in Approvals
    BY DEF Lineage
  <2> QED BY <1>1, <2>1, <2>2
<1>6. NoForkedLineage'
  BY <1>1, <1>3 DEF LineageInv, NoForkedLineage
<1> QED BY <1>2, <1>5, <1>6 DEF LineageInv

LEMMA ActivateLineage ==
  ASSUME TypeOK, LineageInv, NEW a \in Approvals, NEW id \in ActivationIds,
         ActivateApprovalRecord(a, id)
  PROVE  LineageInv'
<1>1. /\ approvals[a] = "AWAITING_CEREMONY"
      /\ renewalOf[a] # None => approvals[renewalOf[a]] = "ACTIVE"
      /\ approvals'[a] = "ACTIVE"
      /\ \A b \in Approvals \ {a} :
           approvals'[b] = IF b = renewalOf[a] THEN "REVOKED" ELSE approvals[b]
      /\ \A b \in Approvals \ {a} : activation'[b] = activation[b]
      /\ activation'[a] = id
      /\ UNCHANGED <<renewalOf, targets>>
  BY DEF ActivateApprovalRecord, CanActivate, TypeOK, operationVars
<1>2. id # None /\ renewalOf[a] \in Approvals \cup {None}
  BY ConstantsAssumption DEF TypeOK
<1>3. \A c \in Approvals : Lineage(c)' = Lineage(c) /\ Lineage(c) \subseteq Approvals
  BY <1>1 DEF Lineage
<1>4. Linked' /\ Fenced'
  <2>1. \A b \in Approvals : approvals[b] # "ABSENT" => approvals'[b] # "ABSENT"
    BY <1>1
  <2>2. \A b \in Approvals : approvals'[b] = "ACTIVE" => b = a \/ approvals[b] = "ACTIVE"
    BY <1>1
  <2>3. renewalOf \in [Approvals -> Approvals \cup {None}]
    BY DEF TypeOK
  <2>4. Linked'
    BY <1>1, <1>2, <2>1, <2>2, <2>3 DEF LineageInv, Linked
  <2>5. \A o \in OperationIds : targets[o] \subseteq Approvals
    BY DEF TypeOK
  <2>6. Fenced'
    BY <1>1, <2>5 DEF LineageInv, Fenced
  <2> QED BY <2>4, <2>6
<1>5. \A b \in Approvals : approvals[b] = "REVOKED" => approvals'[b] = "REVOKED"
  BY <1>1
<1>6. ASSUME NEW b \in Lineage(a), b # a PROVE approvals'[b] = "REVOKED"
  <2>1. renewalOf[a] \in Approvals /\ b \in Lineage(renewalOf[a])
    BY <1>2, <1>6, LineageUnfold, ConstantsAssumption
  <2>2. b = renewalOf[a] \/ approvals[b] = "REVOKED"
    BY <1>1, <2>1, ConstantsAssumption DEF LineageInv, Linked, RenewalConsumesLineage
  <2> QED BY <1>1, <1>3, <1>5, <1>6, <2>1, <2>2
<1>7. RenewalConsumesLineage'
  BY <1>1, <1>3, <1>5, <1>6 DEF LineageInv, RenewalConsumesLineage
<1>8. ASSUME NEW c \in Approvals \ {a}, approvals'[c] = "ACTIVE"
      PROVE  Lineage(a) \cap Lineage(c) = {}
  <2>1. approvals[c] = "ACTIVE" /\ c # renewalOf[a]
    BY <1>1, <1>8
  <2>2. a \notin Lineage(c)
    BY <1>1, <2>1 DEF LineageInv, Linked, RenewalConsumesLineage
  <2>3. CASE renewalOf[a] = None
    BY <2>2, <2>3, LineageUnfold
  <2>4. CASE renewalOf[a] \in Approvals
    <3>1. Lineage(renewalOf[a]) \cap Lineage(c) = {}
      BY <1>1, <2>1, <2>4, ConstantsAssumption DEF LineageInv, NoForkedLineage
    <3> QED BY <2>2, <2>4, <3>1, LineageUnfold
  <2> QED BY <1>2, <2>3, <2>4
<1>9. NoForkedLineage'
  BY <1>1, <1>3, <1>8 DEF LineageInv, NoForkedLineage
<1> QED BY <1>4, <1>7, <1>9 DEF LineageInv

\* transition_approval to FAILED or REVOKED, and the fence of a by-key
\* revocation: no approval becomes ACTIVE and none leaves REVOKED.
LEMMA StopLineage ==
  ASSUME TypeOK, LineageInv, Fenced', UNCHANGED <<renewalOf, activation>>,
         \A b \in Approvals :
           \/ approvals'[b] = approvals[b]
           \/ approvals[b] \notin {"ABSENT", "REVOKED"} /\ approvals'[b] \in {"FAILED", "REVOKED"}
  PROVE  LineageInv'
<1>1. \A c \in Approvals : Lineage(c)' = Lineage(c) /\ Lineage(c) \subseteq Approvals
  BY DEF Lineage
<1>2. Linked'
  BY DEF LineageInv, Linked, TypeOK
<1>3. RenewalConsumesLineage'
  BY <1>1 DEF LineageInv, RenewalConsumesLineage
<1>4. NoForkedLineage'
  BY <1>1 DEF LineageInv, NoForkedLineage
<1> QED BY <1>2, <1>3, <1>4 DEF LineageInv

LEMMA LedgerFrame == LedgerStep => UNCHANGED <<approvalVars, targets, clock>>
<1>1. ASSUME NEW a, NEW o, NEW d, NEW charge, NEW at, Reserve(a, o, d, charge, at)
      PROVE  UNCHANGED <<approvalVars, targets, clock>>
  BY <1>1 DEF Reserve, operationVars
<1>2. ASSUME NEW a, NEW o, NEW next, FinalizeReservation(a, o, next)
      PROVE  UNCHANGED <<approvalVars, targets, clock>>
  BY <1>2 DEF FinalizeReservation, operationVars
<1>3. ASSUME NEW a, NEW o, NEW result, NEW n, NEW event, Publish(a, o, result, n, event)
      PROVE  UNCHANGED <<approvalVars, targets, clock>>
  BY <1>3 DEF Publish
<1> QED BY <1>1, <1>2, <1>3 DEF LedgerStep, PublishResult, PublishBatch

LEMMA OperationFrame ==
  OperationStep =>
    /\ UNCHANGED <<renewalOf, activation, reservations, clock>>
    /\ \/ UNCHANGED <<approvalVars, targets>>
       \/ \E o \in OperationIds, params \in DOMAIN KeyTargets : BeginKeyRevocation(o, params)
<1>1. ASSUME NEW o, NEW a, NEW d, NEW f, NEW batch, NEW attempt, NEW envelope,
             BeginSignAttempt(o, a, d, f, batch, attempt, envelope)
      PROVE  UNCHANGED <<approvalVars, targets, reservations, clock>>
  BY <1>1 DEF BeginSignAttempt, BeginFresh, BeginRetry
<1>2. ASSUME NEW o, NEW next, TransitionOperation(o, next)
      PROVE  UNCHANGED <<approvalVars, targets, reservations, clock>>
  BY <1>2 DEF TransitionOperation
<1>3. ASSUME NEW o, NEW params, BeginKeyRevocation(o, params)
      PROVE  UNCHANGED <<renewalOf, activation, reservations, clock>>
  BY <1>3 DEF BeginKeyRevocation
<1>4. ASSUME NEW o, CompleteKeyRevocation(o)
      PROVE  UNCHANGED <<approvalVars, targets, reservations, clock>>
  BY <1>4 DEF CompleteKeyRevocation
<1> QED BY <1>1, <1>2, <1>3, <1>4 DEF OperationStep, approvalVars

LEMMA NextLineage == TypeOK /\ LineageInv /\ [Next]_vars => LineageInv'
<1> SUFFICES ASSUME TypeOK, LineageInv, [Next]_vars PROVE LineageInv'
  OBVIOUS
<1>1. CASE ApprovalStep
  <2> PICK a \in Approvals :
         \/ \E p \in (Approvals \ {a}) \cup {None} : CreateApprovalRecord(a, p)
         \/ \E id \in ActivationIds : ActivateApprovalRecord(a, id)
         \/ \E next \in {"FAILED", "REVOKED"} : TransitionApproval(a, next)
    BY <1>1 DEF ApprovalStep
  <2>1. ASSUME NEW next \in {"FAILED", "REVOKED"}, TransitionApproval(a, next)
        PROVE  LineageInv'
    <3>1. /\ approvals' = [approvals EXCEPT ![a] = next]
          /\ approvals[a] \notin {"ABSENT", "REVOKED"}
          /\ UNCHANGED <<renewalOf, activation, targets>>
      BY <2>1 DEF TransitionApproval, valid_approval_transition, operationVars
    <3>2. Fenced'
      BY <3>1 DEF LineageInv, Fenced, TypeOK
    <3> QED BY <3>1, <3>2, StopLineage DEF TypeOK
  <2> QED BY <2>1, CreateLineage, ActivateLineage
<1>2. CASE OperationStep
  <2>1. ASSUME NEW o \in OperationIds, NEW params \in DOMAIN KeyTargets,
               BeginKeyRevocation(o, params)
        PROVE  LineageInv'
    <3> DEFINE bound == {a \in KeyTargets[params] : approvals[a] # "ABSENT"}
    <3>1. /\ targets' = [targets EXCEPT ![o] = bound]
          /\ approvals' = [a \in Approvals |->
                IF a \in bound /\ approvals[a] \in {"PREPARED", "AWAITING_CEREMONY"}
                THEN "FAILED" ELSE approvals[a]]
          /\ UNCHANGED <<renewalOf, activation>>
      BY <2>1 DEF BeginKeyRevocation
    <3>2. bound \subseteq Approvals
      BY ConstantsAssumption
    <3>3. Fenced'
      BY <3>1, <3>2 DEF LineageInv, Fenced, TypeOK
    <3> QED BY <3>1, <3>3, StopLineage
  <2>2. CASE UNCHANGED <<approvalVars, targets>>
    BY <2>2, UntouchedLineage
  <2> QED BY <1>2, <2>1, <2>2, OperationFrame
<1>3. CASE LedgerStep
  BY <1>3, LedgerFrame, UntouchedLineage
<1>4. CASE ClockStep \/ UNCHANGED vars
  BY <1>4, UntouchedLineage DEF ClockStep, ObserveTime, RepairClock, vars, operationVars
<1> QED BY <1>1, <1>2, <1>3, <1>4 DEF Next

\* An activated renewal has consumed every approval it descends from
\* (activate_approval_record).
THEOREM RenewalIsConsuming == Spec => []RenewalConsumesLineage
<1>1. LineageInv => RenewalConsumesLineage
  BY DEF LineageInv
<1> QED BY <1>1, InitLineage, NextLineage, TypeCorrect, PTL DEF Spec

\* Two active approvals never share an ancestor (activate_approval_record).
THEOREM LineagesNeverFork == Spec => []NoForkedLineage
<1>1. LineageInv => NoForkedLineage
  BY DEF LineageInv
<1> QED BY <1>1, InitLineage, NextLineage, TypeCorrect, PTL DEF Spec

\* An approval a by-key revocation has recorded is never activated afterwards
\* (begin_key_revocation_with_effects, activate_approval_record).
THEOREM KeyStopIsFinal == Spec => NoActivationAfterKeyStop
<1> DEFINE Stopped ==
      \A o \in OperationIds : \A a \in targets[o] :
        approvals[a] # "ACTIVE" => approvals'[a] # "ACTIVE"
<1>1. TypeOK /\ LineageInv /\ [Next]_vars => Stopped
  <2> SUFFICES ASSUME TypeOK, LineageInv, [Next]_vars, NEW o \in OperationIds,
                      NEW b \in targets[o], approvals[b] # "ACTIVE"
               PROVE  approvals'[b] # "ACTIVE"
    OBVIOUS
  <2>1. b \in Approvals /\ approvals[b] # "AWAITING_CEREMONY"
    BY DEF TypeOK, LineageInv, Fenced
  <2>2. CASE ApprovalStep
    BY <2>1, <2>2
       DEF ApprovalStep, CreateApprovalRecord, ActivateApprovalRecord, CanActivate,
           TransitionApproval, TypeOK
  <2>3. CASE OperationStep
    <3>1. ASSUME NEW p, NEW params, BeginKeyRevocation(p, params)
          PROVE  approvals'[b] # "ACTIVE"
      BY <2>1, <3>1 DEF BeginKeyRevocation
    <3> QED BY <2>3, <3>1, OperationFrame DEF approvalVars
  <2>4. CASE LedgerStep
    BY <2>4, LedgerFrame DEF approvalVars
  <2>5. CASE ClockStep \/ UNCHANGED vars
    BY <2>5 DEF ClockStep, ObserveTime, RepairClock, vars, approvalVars
  <2> QED BY <2>2, <2>3, <2>4, <2>5 DEF Next
<1> QED BY <1>1, InitLineage, NextLineage, TypeCorrect, PTL DEF Spec, NoActivationAfterKeyStop

-----------------------------------------------------------------------------
(* The ledger. *)

\* A RESERVED row is finalized; nothing else changes in the ledger.
Finalized(a, o, s) ==
  /\ reservations[a][o].state = "RESERVED"
  /\ reservations' = [reservations EXCEPT ![a][o].state = s]
  /\ UNCHANGED <<approvalVars, clock>>

\* The three things a step can do to the ledger.
LEMMA LedgerChanges ==
  ASSUME [Next]_vars
  PROVE  \/ UNCHANGED reservations
         \/ \E a \in Approvals, o \in OperationIds, d \in Digests, charge \in Charges,
               at \in 1..MaxTime : Reserve(a, o, d, charge, at)
         \/ \E a \in Approvals, o \in OperationIds,
               s \in {"RELEASED", "QUARANTINED", "COMMITTED"} : Finalized(a, o, s)
<1>1. ASSUME NEW a \in Approvals, NEW o \in OperationIds, NEW next,
             FinalizeReservation(a, o, next)
      PROVE  Finalized(a, o, next)
  BY <1>1 DEF FinalizeReservation, Finalized
<1>2. ASSUME NEW a \in Approvals, NEW o \in OperationIds, NEW d, NEW result, NEW n, NEW event,
             CanPublish(a, o, d), Publish(a, o, result, n, event)
      PROVE  Finalized(a, o, "COMMITTED")
  BY <1>2 DEF CanPublish, Publish, Finalized
<1>3. CASE LedgerStep
  BY <1>1, <1>2, <1>3 DEF LedgerStep, PublishResult, PublishBatch
<1>4. CASE OperationStep
  BY <1>4, OperationFrame
<1>5. CASE ApprovalStep \/ ClockStep \/ UNCHANGED vars
  BY <1>5
     DEF ApprovalStep, CreateApprovalRecord, ActivateApprovalRecord, TransitionApproval,
         ClockStep, ObserveTime, RepairClock, vars
<1> QED BY <1>3, <1>4, <1>5 DEF Next

LEMMA FinalizedRow ==
  ASSUME TypeOK, NEW a \in Approvals, NEW o \in OperationIds, NEW s, Finalized(a, o, s)
  PROVE  /\ \A b \in Approvals, p \in OperationIds :
              b # a \/ p # o => reservations'[b][p] = reservations[b][p]
         /\ reservations'[a][o] = [reservations[a][o] EXCEPT !.state = s]
         /\ reservations[a][o] \in ReservationRow
<1>1. reservations' = [reservations EXCEPT ![a][o].state = s]
  BY DEF Finalized
<1>2. reservations \in [Approvals -> [OperationIds -> ReservationRow]]
  BY DEF TypeOK
<1>3. reservations'[a][o] = [reservations[a][o] EXCEPT !.state = s]
  BY <1>1, <1>2
<1>4. \A b \in Approvals, p \in OperationIds :
        b # a \/ p # o => reservations'[b][p] = reservations[b][p]
  BY <1>1, <1>2
<1> QED BY <1>2, <1>3, <1>4

LEMMA ReservedRow ==
  ASSUME TypeOK, NEW a \in Approvals, NEW o \in OperationIds, NEW d, NEW charge, NEW at,
         Reserve(a, o, d, charge, at)
  PROVE  /\ \A b \in Approvals, p \in OperationIds :
              b # a \/ p # o => reservations'[b][p] = reservations[b][p]
         /\ reservations'[a][o] =
              [state |-> "RESERVED", digest |-> d, charge |-> charge, at |-> at]
         /\ reservations[a][o].state = "ABSENT"
<1> DEFINE row == [state |-> "RESERVED", digest |-> d, charge |-> charge, at |-> at]
<1>1. reservations' = [reservations EXCEPT ![a][o] = row] /\ reservations[a][o].state = "ABSENT"
  BY DEF Reserve, CanReserve
<1>2. reservations \in [Approvals -> [OperationIds -> ReservationRow]]
  BY DEF TypeOK
<1> HIDE DEF row
<1>3. reservations'[a][o] = row
  BY <1>1, <1>2
<1>4. \A b \in Approvals, p \in OperationIds :
        b # a \/ p # o => reservations'[b][p] = reservations[b][p]
  BY <1>1, <1>2
<1> QED BY <1>1, <1>3, <1>4 DEF row

LEMMA ReserveLeavesOthers ==
  ASSUME TypeOK, NEW a \in Approvals, NEW o \in OperationIds, NEW d, NEW charge, NEW at,
         Reserve(a, o, d, charge, at)
  PROVE  \A b \in Approvals, p \in OperationIds :
           b # a \/ p # o => reservations'[b][p] = reservations[b][p]
BY ReservedRow

\* A ledger row is written once and finalized once (reserve_for_clock_profile,
\* finalize_reservation, publish_result, publish_batch).
THEOREM LedgerIsFinal == Spec => LedgerRowFinal
<1> DEFINE Final ==
      \A a \in Approvals, o \in OperationIds :
        LET old == reservations[a][o]
            new == reservations'[a][o]
        IN  old.state # "ABSENT" =>
              /\ [new EXCEPT !.state = old.state] = old
              /\ old.state # "RESERVED" => new = old
<1>1. TypeOK /\ [Next]_vars => Final
  <2> SUFFICES ASSUME TypeOK, [Next]_vars, NEW b \in Approvals, NEW p \in OperationIds,
                      reservations[b][p].state # "ABSENT"
               PROVE  /\ [reservations'[b][p] EXCEPT !.state = reservations[b][p].state]
                           = reservations[b][p]
                      /\ reservations[b][p].state # "RESERVED" =>
                           reservations'[b][p] = reservations[b][p]
    OBVIOUS
  <2>1. reservations[b][p] \in ReservationRow
    BY DEF TypeOK
  <2>2. [reservations[b][p] EXCEPT !.state = reservations[b][p].state] = reservations[b][p]
    BY <2>1 DEF ReservationRow
  <2>3. ASSUME NEW a \in Approvals, NEW o \in OperationIds, NEW s, Finalized(a, o, s)
        PROVE  \/ reservations'[b][p] = reservations[b][p]
               \/ /\ reservations[b][p].state = "RESERVED"
                  /\ reservations'[b][p] = [reservations[b][p] EXCEPT !.state = s]
    BY <2>3, FinalizedRow DEF Finalized
  <2>4. \A s : [[reservations[b][p] EXCEPT !.state = s] EXCEPT !.state = reservations[b][p].state]
                 = reservations[b][p]
    BY <2>1 DEF ReservationRow
  <2>5. ASSUME NEW a \in Approvals, NEW o \in OperationIds, NEW d, NEW charge, NEW at,
               Reserve(a, o, d, charge, at)
        PROVE  reservations'[b][p] = reservations[b][p]
    BY <2>5, ReservedRow
  <2> QED BY <2>2, <2>3, <2>4, <2>5, LedgerChanges
<1> QED BY <1>1, TypeCorrect, PTL DEF Spec, LedgerRowFinal

-----------------------------------------------------------------------------
(* Budgets that count operations. *)

LEMMA CountedFinite ==
  ASSUME NEW owners \in SUBSET Approvals
  PROVE  IsFiniteSet(Counted(owners))
<1>1. IsFiniteSet(owners) /\ IsFiniteSet(OperationIds)
  BY FinitenessAssumption, FS_Subset
<1>2. IsFiniteSet(owners \X OperationIds)
  BY <1>1, FS_Product
<1> QED BY <1>2, FS_Subset DEF Counted

\* A set that gains at most one element grows by at most one.
LEMMA GrowsByOne ==
  ASSUME NEW S, IsFiniteSet(S), NEW x, NEW T \in SUBSET (S \cup {x})
  PROVE  /\ IsFiniteSet(T)
         /\ Cardinality(S) \in Nat /\ Cardinality(T) \in Nat
         /\ Cardinality(T) <= Cardinality(S) + 1
<1>0. Cardinality(S) \in Nat
  BY FS_CardinalityType
<1>1. IsFiniteSet(S \cup {x}) /\ Cardinality(S \cup {x}) <= Cardinality(S) + 1
  <2>1. /\ IsFiniteSet(S \cup {x})
        /\ \/ Cardinality(S \cup {x}) = Cardinality(S)
           \/ Cardinality(S \cup {x}) = Cardinality(S) + 1
    BY FS_AddElement
  <2> QED BY <1>0, <2>1
<1>2. IsFiniteSet(T) /\ Cardinality(T) <= Cardinality(S \cup {x})
  BY <1>1, FS_Subset
<1> QED BY <1>1, <1>2, FS_CardinalityType

LEMMA ShrinksOrStays ==
  ASSUME NEW S, IsFiniteSet(S), NEW T \in SUBSET S
  PROVE  /\ IsFiniteSet(T)
         /\ Cardinality(S) \in Nat /\ Cardinality(T) \in Nat
         /\ Cardinality(T) <= Cardinality(S)
BY FS_Subset, FS_CardinalityType

\* Finalizing a row never adds one to those that count.
LEMMA FinalizedCounted ==
  ASSUME TypeOK, NEW a \in Approvals, NEW o \in OperationIds, NEW s, Finalized(a, o, s),
         NEW owners \in SUBSET Approvals
  PROVE  Counted(owners)' \subseteq Counted(owners)
<1>1. \A b \in Approvals, p \in OperationIds :
        b # a \/ p # o => reservations'[b][p] = reservations[b][p]
  BY FinalizedRow
<1>2. reservations[a][o].state = "RESERVED"
  BY DEF Finalized
<1>3. \A b \in owners, p \in OperationIds :
        reservations'[b][p].state \notin {"ABSENT", "RELEASED"} =>
          reservations[b][p].state \notin {"ABSENT", "RELEASED"}
  BY <1>1, <1>2
<1> QED BY <1>3 DEF Counted

\* Reserving a row adds that row, and only for its own approval.
LEMMA ReservedCounted ==
  ASSUME TypeOK, NEW a \in Approvals, NEW o \in OperationIds, NEW d, NEW charge, NEW at,
         Reserve(a, o, d, charge, at), NEW owners \in SUBSET Approvals
  PROVE  /\ Counted(owners)' \subseteq Counted(owners) \cup {<<a, o>>}
         /\ a \notin owners => Counted(owners)' \subseteq Counted(owners)
<1>1. \A b \in Approvals, p \in OperationIds :
        b # a \/ p # o => reservations'[b][p] = reservations[b][p]
  BY ReservedRow
<1>2. \A b \in owners, p \in OperationIds :
        /\ b # a \/ p # o
        /\ reservations'[b][p].state \notin {"ABSENT", "RELEASED"}
        => reservations[b][p].state \notin {"ABSENT", "RELEASED"}
  BY <1>1
<1> QED BY <1>2 DEF Counted

\* The operations of an approval that were not released never exceed its
\* lifetime operation limit (reserve_for_clock_profile).
THEOREM BudgetHolds == Spec => []OperationBudget
<1>1. Init => OperationBudget
  <2> SUFFICES ASSUME Init, NEW c \in Approvals PROVE Cardinality(Counted({c})) <= MaxOperations[c]
    BY DEF OperationBudget
  <2>1. Counted({c}) = {}
    BY DEF Init, Counted, NoReservation
  <2>2. MaxOperations[c] \in Nat
    BY ConstantsAssumption
  <2> QED BY <2>1, <2>2, FS_EmptySet
<1>2. TypeOK /\ OperationBudget /\ [Next]_vars => OperationBudget'
  <2> SUFFICES ASSUME TypeOK, OperationBudget, [Next]_vars, NEW c \in Approvals
               PROVE  Cardinality(Counted({c})') <= MaxOperations[c]
    BY DEF OperationBudget
  <2>1. Cardinality(Counted({c})) <= MaxOperations[c] /\ IsFiniteSet(Counted({c}))
    BY CountedFinite DEF OperationBudget
  <2>2. MaxOperations[c] \in Nat
    BY ConstantsAssumption
  <2>3. CASE Counted({c})' \subseteq Counted({c})
    <3>1. Cardinality(Counted({c})') <= Cardinality(Counted({c}))
          /\ Cardinality(Counted({c})') \in Nat /\ Cardinality(Counted({c})) \in Nat
      BY <2>1, <2>3, ShrinksOrStays
    <3> QED BY <2>1, <2>2, <3>1
  <2>4. ASSUME NEW a \in Approvals, NEW o \in OperationIds, NEW d, NEW charge, NEW at,
               Reserve(a, o, d, charge, at)
        PROVE  Cardinality(Counted({c})') <= MaxOperations[c]
    <3>1. CASE c # a
      BY <2>3, <2>4, <3>1, ReservedCounted
    <3>2. CASE c = a
      <4>1. Cardinality(Counted({c})) + 1 <= MaxOperations[c]
        BY <2>4, <3>2 DEF Reserve, CanReserve, validate_lifetime_limits
      <4>2. Counted({c})' \subseteq Counted({c}) \cup {<<a, o>>}
        BY <2>4, ReservedCounted
      <4>3. /\ Cardinality(Counted({c})') <= Cardinality(Counted({c})) + 1
            /\ Cardinality(Counted({c})') \in Nat /\ Cardinality(Counted({c})) \in Nat
        BY <2>1, <4>2, GrowsByOne
      <4> QED BY <2>2, <4>1, <4>3
    <3> QED BY <3>1, <3>2
  <2>5. ASSUME NEW a \in Approvals, NEW o \in OperationIds, NEW s, Finalized(a, o, s)
        PROVE  Cardinality(Counted({c})') <= MaxOperations[c]
    BY <2>3, <2>5, FinalizedCounted
  <2>6. CASE UNCHANGED reservations
    BY <2>3, <2>6 DEF Counted
  <2> QED BY <2>4, <2>5, <2>6, LedgerChanges
<1> QED BY <1>1, <1>2, TypeCorrect, PTL DEF Spec

-----------------------------------------------------------------------------
(* Rolling windows, under the durable clock.  Rows of a time-limited approval  *)
(* are never later than the durable clock, so a new row is never earlier than  *)
(* an old one; and once an approval has a row, none of its ancestors can add   *)
(* one.  Every window is then full when its last row is admitted.              *)

DatedRow(a, o) ==
  reservations[a][o].state # "ABSENT" =>
    /\ activation[a] # None
    /\ TimeLimited(a) =>
         clock.condition # "ABSENT" /\ reservations[a][o].at <= clock.effective

RowsDated == \A a \in Approvals, o \in OperationIds : DatedRow(a, o)

LEMMA InitDated == Init => RowsDated
BY DEF Init, RowsDated, DatedRow, NoReservation

LEMMA ReserveDated ==
  ASSUME TypeOK, Linked, DurableClockGuard, NEW a \in Approvals, NEW o \in OperationIds,
         NEW d, NEW charge, NEW at \in 1..MaxTime, Reserve(a, o, d, charge, at)
  PROVE  /\ activation[a] # None
         /\ TimeLimited(a) => clock.condition # "ABSENT" /\ at = clock.effective
BY DEF Linked, Reserve, CanReserve, validate_reservation_clock, TimeLimited

LEMMA NextDated ==
  DurableClockGuard /\ TypeOK /\ Linked /\ RowsDated /\ [Next]_vars => RowsDated'
<1> SUFFICES ASSUME DurableClockGuard, TypeOK, Linked, RowsDated, [Next]_vars,
                    NEW b \in Approvals, NEW p \in OperationIds
             PROVE  DatedRow(b, p)'
  BY DEF RowsDated
<1>0. DatedRow(b, p)
  BY DEF RowsDated
<1>1. clock \in [effective: 0..MaxTime, condition: ClockCondition \cup {"ABSENT"}]
  BY DEF TypeOK
<1>2. reservations[b][p] \in ReservationRow
  BY DEF TypeOK
<1>3. CASE UNCHANGED reservations
  <2>1. activation[b] # None => activation'[b] # None
    <3>1. CASE ApprovalStep
      BY <3>1, ConstantsAssumption
         DEF ApprovalStep, CreateApprovalRecord, ActivateApprovalRecord, TransitionApproval, TypeOK
    <3>2. CASE OperationStep \/ LedgerStep
      BY <3>2, OperationFrame, LedgerFrame DEF approvalVars
    <3>3. CASE ClockStep \/ UNCHANGED vars
      BY <3>3 DEF ClockStep, ObserveTime, RepairClock, vars, approvalVars
    <3> QED BY <3>1, <3>2, <3>3 DEF Next
  <2>2. \/ UNCHANGED clock
        \/ /\ clock'.condition # "ABSENT" /\ clock'.effective \in Nat
           /\ clock'.effective >= clock.effective
    <3>1. CASE ClockStep
      <4>1. ASSUME NEW effective \in 1..MaxTime, NEW condition \in ClockCondition,
                   effective >= clock.effective,
                   clock' = [effective |-> effective, condition |-> condition]
            PROVE  /\ clock'.condition # "ABSENT" /\ clock'.effective \in Nat
                   /\ clock'.effective >= clock.effective
        BY <4>1, ConstantsAssumption DEF ClockCondition
      <4> QED BY <3>1, <4>1 DEF ClockStep, ObserveTime, RepairClock, ClockCondition
    <3>2. CASE OperationStep \/ LedgerStep
      BY <3>2, OperationFrame, LedgerFrame
    <3>3. CASE ApprovalStep \/ UNCHANGED vars
      BY <3>3
         DEF ApprovalStep, CreateApprovalRecord, ActivateApprovalRecord, TransitionApproval, vars
    <3> QED BY <3>1, <3>2, <3>3 DEF Next
  <2>3. reservations[b][p].at \in Int /\ clock.effective \in Int
    BY <1>1, <1>2, ConstantsAssumption DEF ReservationRow
  <2> QED BY <1>0, <1>3, <2>1, <2>2, <2>3 DEF DatedRow
<1>4. ASSUME NEW a \in Approvals, NEW o \in OperationIds, NEW d, NEW charge,
             NEW at \in 1..MaxTime, Reserve(a, o, d, charge, at)
      PROVE  DatedRow(b, p)'
  <2>1. UNCHANGED <<activation, clock>>
    BY <1>4 DEF Reserve, approvalVars
  <2>2. CASE b = a /\ p = o
    <3>1. reservations'[b][p].at = at
      <4>1. reservations'[a][o] =
              [state |-> "RESERVED", digest |-> d, charge |-> charge, at |-> at]
        BY <1>4, ReservedRow
      <4> QED BY <2>2, <4>1
    <3>2. at \in Int
      OBVIOUS
    <3>3. /\ activation[b] # None
          /\ TimeLimited(b) => clock.condition # "ABSENT" /\ at = clock.effective
      BY <1>4, <2>2, ReserveDated
    <3> QED BY <2>1, <3>1, <3>2, <3>3 DEF DatedRow
  <2>3. CASE b # a \/ p # o
    <3>1. reservations'[b][p] = reservations[b][p]
      <4>1. \A c \in Approvals, q \in OperationIds :
              c # a \/ q # o => reservations'[c][q] = reservations[c][q]
        BY <1>4, ReserveLeavesOthers
      <4> QED BY <2>3, <4>1
    <3> QED BY <1>0, <2>1, <3>1 DEF DatedRow
  <2> QED BY <2>2, <2>3
<1>5. ASSUME NEW a \in Approvals, NEW o \in OperationIds, NEW s, Finalized(a, o, s)
      PROVE  DatedRow(b, p)'
  <2>1. UNCHANGED <<activation, clock>>
    BY <1>5 DEF Finalized, approvalVars
  <2>2. /\ reservations'[b][p].at = reservations[b][p].at
        /\ reservations'[b][p].state # "ABSENT" => reservations[b][p].state # "ABSENT"
    <3>1. CASE b = a /\ p = o
      <4>1. reservations'[a][o] = [reservations[a][o] EXCEPT !.state = s]
        BY <1>5, FinalizedRow
      <4> QED BY <1>2, <1>5, <3>1, <4>1 DEF ReservationRow, Finalized
    <3>2. CASE b # a \/ p # o
      <4>1. \A c \in Approvals, q \in OperationIds :
              c # a \/ q # o => reservations'[c][q] = reservations[c][q]
        BY <1>5, FinalizedRow
      <4> QED BY <3>2, <4>1
    <3> QED BY <3>1, <3>2
  <2> QED BY <1>0, <2>1, <2>2 DEF DatedRow
<1> QED BY <1>3, <1>4, <1>5, LedgerChanges

\* The lineage of an activated approval only loses members: nothing is ever
\* linked below it.
LEMMA ActivatedLineage ==
  ASSUME TypeOK, Linked, [Next]_vars, NEW c \in Approvals, activation[c] # None
  PROVE  Lineage(c)' \subseteq Lineage(c)
<1>1. CASE UNCHANGED renewalOf
  BY <1>1 DEF Lineage
<1>2. ASSUME NEW a \in Approvals, NEW p \in (Approvals \ {a}) \cup {None},
             CreateApprovalRecord(a, p)
      PROVE  Lineage(c)' \subseteq Lineage(c)
  <2>1. c # a
    BY <1>2 DEF CreateApprovalRecord, Linked
  <2> QED BY <1>2, <2>1, CreatedLineage
<1>3. CASE ApprovalStep
  BY <1>1, <1>2, <1>3 DEF ApprovalStep, ActivateApprovalRecord, TransitionApproval
<1>4. CASE OperationStep \/ LedgerStep
  BY <1>1, <1>4, OperationFrame, LedgerFrame DEF approvalVars
<1>5. CASE ClockStep \/ UNCHANGED vars
  BY <1>1, <1>5 DEF ClockStep, ObserveTime, RepairClock, vars, approvalVars
<1> QED BY <1>3, <1>4, <1>5 DEF Next

\* The rows a limit of a counts in the window that ends at t.
Window(a, t, limit) == InWindow(Counted(Lineage(a)), t, limit.duration)

LEMMA WindowFinite ==
  ASSUME NEW a \in Approvals, NEW t, NEW limit
  PROVE  IsFiniteSet(Window(a, t, limit))
<1>1. Lineage(a) \in SUBSET Approvals
  BY DEF Lineage
<1>2. Window(a, t, limit) \in SUBSET Counted(Lineage(a))
  BY DEF Window, InWindow
<1> QED BY <1>1, <1>2, CountedFinite, FS_Subset

WindowHolds(a, o) ==
  \A limit \in RateLimits[a] :
    reservations[a][o].state \notin {"ABSENT", "RELEASED"} =>
      Cardinality(Window(a, reservations[a][o].at, limit)) <= limit.operations

LEMMA WindowsAreRolling ==
  RollingOperations <=> \A a \in Approvals, o \in OperationIds : WindowHolds(a, o)
<1>1. \A a \in Approvals, o \in OperationIds :
        (<<a, o>> \in Counted({a})) <=> reservations[a][o].state \notin {"ABSENT", "RELEASED"}
  BY DEF Counted
<1> QED BY <1>1 DEF RollingOperations, WindowHolds, Window

\* A window that gains no row stays within its limit.
LEMMA WindowShrinks ==
  ASSUME NEW a \in Approvals, NEW t, NEW limit \in RateLimits[a],
         Cardinality(Window(a, t, limit)) <= limit.operations,
         Window(a, t, limit)' \subseteq Window(a, t, limit)
  PROVE  Cardinality(Window(a, t, limit)') <= limit.operations
<1>1. limit.operations \in Nat
  BY ConstantsAssumption
<1>2. /\ Cardinality(Window(a, t, limit)') <= Cardinality(Window(a, t, limit))
      /\ Cardinality(Window(a, t, limit)') \in Nat /\ Cardinality(Window(a, t, limit)) \in Nat
  BY WindowFinite, ShrinksOrStays
<1> QED BY <1>1, <1>2

LEMMA WindowOfOldRows ==
  ASSUME UNCHANGED reservations, NEW c, NEW t, NEW limit, Lineage(c)' \subseteq Lineage(c)
  PROVE  Window(c, t, limit)' \subseteq Window(c, t, limit)
BY DEF Window, InWindow, Counted

LEMMA WindowFinalized ==
  ASSUME TypeOK, NEW a \in Approvals, NEW o \in OperationIds, NEW s, Finalized(a, o, s),
         NEW c \in Approvals, NEW t, NEW limit
  PROVE  Window(c, t, limit)' \subseteq Window(c, t, limit)
<1>1. Lineage(c)' = Lineage(c) /\ Lineage(c) \in SUBSET Approvals
  BY DEF Lineage, Finalized, approvalVars
<1>2. Counted(Lineage(c))' \subseteq Counted(Lineage(c))
  <2>1. \A owners \in SUBSET Approvals : Counted(owners)' \subseteq Counted(owners)
    BY FinalizedCounted
  <2> QED BY <1>1, <2>1 DEF Counted
<1>3. \A b \in Approvals, p \in OperationIds : reservations'[b][p].at = reservations[b][p].at
  <2>1. \A b \in Approvals, p \in OperationIds :
          b # a \/ p # o => reservations'[b][p] = reservations[b][p]
    BY FinalizedRow
  <2>2. /\ reservations'[a][o] = [reservations[a][o] EXCEPT !.state = s]
        /\ reservations[a][o] \in ReservationRow
    BY FinalizedRow
  <2>3. reservations'[a][o].at = reservations[a][o].at
    BY <2>2 DEF ReservationRow
  <2> QED BY <2>1, <2>3
<1>4. \A row \in Counted(Lineage(c)) : row[1] \in Approvals /\ row[2] \in OperationIds
  BY <1>1 DEF Counted
<1> QED BY <1>1, <1>2, <1>3, <1>4 DEF Window, InWindow

LEMMA WindowReserved ==
  ASSUME TypeOK, NEW a \in Approvals, NEW o \in OperationIds, NEW d, NEW charge, NEW at,
         Reserve(a, o, d, charge, at), NEW c \in Approvals, NEW t, NEW limit
  PROVE  /\ Window(c, t, limit)' \subseteq Window(c, t, limit) \cup {<<a, o>>}
         /\ a \notin Lineage(c) \/ ~(at <= t) =>
              Window(c, t, limit)' \subseteq Window(c, t, limit)
<1>1. Lineage(c)' = Lineage(c) /\ Lineage(c) \in SUBSET Approvals
  BY DEF Lineage, Reserve, approvalVars
<1>2. \A row \in Counted(Lineage(c))' :
        row[1] \in Lineage(c) /\ row[2] \in OperationIds /\ row = <<row[1], row[2]>>
  BY <1>1 DEF Counted
<1>3. \A row \in Counted(Lineage(c))' : row # <<a, o>> => row \in Counted(Lineage(c))
  <2>1. \A owners \in SUBSET Approvals : Counted(owners)' \subseteq Counted(owners) \cup {<<a, o>>}
    BY ReservedCounted
  <2> QED BY <1>1, <2>1 DEF Counted
<1>4. \A b \in Approvals, p \in OperationIds :
        b # a \/ p # o => reservations'[b][p] = reservations[b][p]
  BY ReserveLeavesOthers
<1>5. reservations'[a][o].at = at
  <2>1. reservations'[a][o] = [state |-> "RESERVED", digest |-> d, charge |-> charge, at |-> at]
    BY ReservedRow
  <2> QED BY <2>1
<1>6. ASSUME NEW row \in Window(c, t, limit)', row # <<a, o>>
      PROVE  row \in Window(c, t, limit)
  <2>1. row \in Counted(Lineage(c))'
    BY <1>6 DEF Window, InWindow
  <2>2. row \in Counted(Lineage(c)) /\ row[1] \in Approvals /\ row[2] \in OperationIds
        /\ (row[1] # a \/ row[2] # o)
    BY <1>1, <1>2, <1>3, <1>6, <2>1
  <2>3. reservations'[row[1]][row[2]] = reservations[row[1]][row[2]]
    BY <1>4, <2>2
  <2> QED BY <1>6, <2>2, <2>3 DEF Window, InWindow
<1>7. ASSUME <<a, o>> \in Window(c, t, limit)' PROVE a \in Lineage(c) /\ at <= t
  <2>1. <<a, o>> \in Counted(Lineage(c))' /\ reservations'[a][o].at <= t
    BY <1>7 DEF Window, InWindow
  <2> QED BY <1>2, <1>5, <2>1
<1> QED BY <1>6, <1>7

LEMMA InitRolling == Init => RollingOperations
<1> SUFFICES ASSUME Init, NEW a \in Approvals, NEW o \in OperationIds PROVE WindowHolds(a, o)
  BY WindowsAreRolling
<1> QED BY DEF Init, NoReservation, WindowHolds

\* The window of an admitted row: what validate_rate_limits has checked.
LEMMA AdmittedWindow ==
  ASSUME TypeOK, NEW a \in Approvals, NEW o \in OperationIds, NEW d, NEW charge, NEW at,
         Reserve(a, o, d, charge, at), NEW limit \in RateLimits[a]
  PROVE  Cardinality(Window(a, at, limit)') <= limit.operations
<1>1. Cardinality(Window(a, at, limit)) + 1 <= limit.operations
  BY DEF Reserve, CanReserve, validate_rate_limits, Window
<1>2. Window(a, at, limit)' \subseteq Window(a, at, limit) \cup {<<a, o>>}
  BY WindowReserved
<1>3. /\ Cardinality(Window(a, at, limit)') <= Cardinality(Window(a, at, limit)) + 1
      /\ Cardinality(Window(a, at, limit)') \in Nat /\ Cardinality(Window(a, at, limit)) \in Nat
  BY <1>2, WindowFinite, GrowsByOne
<1>4. limit.operations \in Nat
  BY ConstantsAssumption
<1> QED BY <1>1, <1>3, <1>4

Windows == \A a \in Approvals, o \in OperationIds : WindowHolds(a, o)

\* How a step may change the window that ends at a row of a time-limited
\* approval: it gains nothing, or the step admits a row of that approval at the
\* window's end.
LEMMA WindowStep ==
  ASSUME DurableClockGuard, TypeOK, LineageInv, RowsDated, [Next]_vars,
         NEW c \in Approvals, NEW p \in OperationIds, TimeLimited(c), NEW limit,
         NEW t, t = reservations'[c][p].at,
         reservations'[c][p].state \notin {"ABSENT", "RELEASED"}
  PROVE  \/ /\ reservations[c][p].state \notin {"ABSENT", "RELEASED"}
            /\ t = reservations[c][p].at
            /\ Window(c, t, limit)' \subseteq Window(c, t, limit)
         \/ \E o \in OperationIds, d \in Digests, charge \in Charges :
              /\ Reserve(c, o, d, charge, t)
              /\ p # o => /\ reservations[c][p].state \notin {"ABSENT", "RELEASED"}
                          /\ t = reservations[c][p].at
<1> DEFINE Old == reservations[c][p].state \notin {"ABSENT", "RELEASED"} /\ t = reservations[c][p].at
           Kept == Window(c, t, limit)' \subseteq Window(c, t, limit)
<1>1. DatedRow(c, p)
  BY DEF RowsDated
<1>2. CASE UNCHANGED reservations
  <2>1. activation[c] # None
    BY <1>1, <1>2 DEF DatedRow
  <2>2. Lineage(c)' \subseteq Lineage(c)
    BY <2>1, ActivatedLineage DEF LineageInv
  <2>3. Kept
    BY <1>2, <2>2, WindowOfOldRows
  <2>4. Old
    BY <1>2
  <2> QED BY <2>3, <2>4
<1>3. ASSUME NEW a \in Approvals, NEW o \in OperationIds, NEW s, Finalized(a, o, s)
      PROVE  Old /\ Kept
  <2>1. \A b \in Approvals, q \in OperationIds :
          b # a \/ q # o => reservations'[b][q] = reservations[b][q]
    BY <1>3, FinalizedRow
  <2>2. /\ reservations'[a][o] = [reservations[a][o] EXCEPT !.state = s]
        /\ reservations[a][o] \in ReservationRow
    BY <1>3, FinalizedRow
  <2>3. reservations'[a][o].at = reservations[a][o].at /\ reservations[a][o].state = "RESERVED"
    BY <1>3, <2>2 DEF ReservationRow, Finalized
  <2>4. Old
    BY <2>1, <2>3
  <2>5. Kept
    BY <1>3, WindowFinalized
  <2> QED BY <2>4, <2>5
<1>4. ASSUME NEW a \in Approvals, NEW o \in OperationIds, NEW d \in Digests, NEW charge \in Charges,
             NEW at \in 1..MaxTime, Reserve(a, o, d, charge, at)
      PROVE  (Old /\ Kept) \/ (a = c /\ at = t /\ (p # o => Old))
  <2>1. CASE c = a /\ p = o
    <3>1. reservations'[a][o] = [state |-> "RESERVED", digest |-> d, charge |-> charge, at |-> at]
      BY <1>4, ReservedRow
    <3>2. t = at
      BY <2>1, <3>1
    <3> QED BY <2>1, <3>2
  <2>2. CASE c # a \/ p # o
    <3>1. \A b \in Approvals, q \in OperationIds :
            b # a \/ q # o => reservations'[b][q] = reservations[b][q]
      BY <1>4, ReserveLeavesOthers
    <3>2. Old
      BY <2>2, <3>1
    <3>3. activation[c] # None /\ clock.condition # "ABSENT" /\ t <= clock.effective
      BY <1>1, <3>2 DEF DatedRow
    <3>4. CASE c # a
      <4>1. a \notin Lineage(c)
        BY <1>4, <3>3, <3>4 DEF LineageInv, RenewalConsumesLineage, Reserve, CanReserve
      <4>2. Kept
        BY <1>4, <4>1, WindowReserved
      <4> QED BY <3>2, <4>2
    <3>5. CASE c = a /\ t # at
      <4>1. at = clock.effective
        BY <1>4, <3>5, ReserveDated DEF LineageInv
      <4>2. t \in Int /\ at \in Int
        <5>1. reservations[c][p] \in ReservationRow
          BY DEF TypeOK
        <5> QED BY <3>2, <5>1, ConstantsAssumption DEF ReservationRow
      <4>3. ~(at <= t)
        BY <3>3, <3>5, <4>1, <4>2
      <4>4. Kept
        BY <1>4, <4>3, WindowReserved
      <4> QED BY <3>2, <4>4
    <3> QED BY <3>2, <3>4, <3>5
  <2> QED BY <2>1, <2>2
<1> QED BY <1>2, <1>3, <1>4, LedgerChanges

LEMMA NextRolling ==
  DurableClockGuard /\ TypeOK /\ LineageInv /\ RowsDated /\ Windows /\ [Next]_vars => Windows'
<1> SUFFICES ASSUME DurableClockGuard, TypeOK, LineageInv, RowsDated, Windows, [Next]_vars,
                    NEW c \in Approvals, NEW p \in OperationIds, NEW limit \in RateLimits[c],
                    NEW t, t = reservations'[c][p].at,
                    reservations'[c][p].state \notin {"ABSENT", "RELEASED"}
             PROVE  Cardinality(Window(c, t, limit)') <= limit.operations
  BY DEF Windows, WindowHolds
<1>1. WindowHolds(c, p)
  BY DEF Windows
<1>2. ASSUME reservations[c][p].state \notin {"ABSENT", "RELEASED"}, t = reservations[c][p].at,
             Window(c, t, limit)' \subseteq Window(c, t, limit)
      PROVE  Cardinality(Window(c, t, limit)') <= limit.operations
  BY <1>1, <1>2, WindowShrinks DEF WindowHolds
<1>3. ASSUME NEW o \in OperationIds, NEW d, NEW charge, Reserve(c, o, d, charge, t)
      PROVE  Cardinality(Window(c, t, limit)') <= limit.operations
  BY <1>3, AdmittedWindow
<1>4. TimeLimited(c)
  BY DEF TimeLimited
<1> QED BY <1>2, <1>3, <1>4, WindowStep

\* Under the durable clock a rate limit holds in every window that ends at a
\* reservation of its approval, renewals included (validate_rate_limits).
THEOREM RollingWindowsHold ==
  ASSUME DurableClockGuard PROVE Spec => []RollingOperations
<1>1. Init => Windows
  BY InitRolling, WindowsAreRolling DEF Windows
<1>2. TypeOK /\ LineageInv /\ RowsDated /\ [Next]_vars => RowsDated'
  BY NextDated DEF LineageInv
<1>3. TypeOK /\ LineageInv /\ RowsDated /\ Windows /\ [Next]_vars => Windows'
  BY NextRolling
<1>4. Windows => RollingOperations
  BY WindowsAreRolling DEF Windows
<1> QED
  BY <1>1, <1>2, <1>3, <1>4, InitLineage, NextLineage, InitDated, TypeCorrect, PTL DEF Spec

-----------------------------------------------------------------------------
(* Budgets that add up.  A total is the number of its units, so what the       *)
(* library knows of cardinalities bounds it.                                   *)

LEMMA UnitsFinite ==
  ASSUME NEW S, IsFiniteSet(S), NEW f \in [S -> Nat]
  PROVE  IsFiniteSet(Units(f)) /\ Total(f) \in Nat
<1> DEFINE Own == {{row} \X (1..f[row]) : row \in S}
<1> DEFINE own == [row \in S |-> {row} \X (1..f[row])]
<1>1. own \in Surjection(S, Own)
  BY DEF Surjection
<1>2. IsFiniteSet(Own)
  BY <1>1, FS_Surjection
<1>3. \A U \in Own : IsFiniteSet(U)
  <2> SUFFICES ASSUME NEW row \in S PROVE IsFiniteSet({row} \X (1..f[row]))
    OBVIOUS
  <2>1. IsFiniteSet({row})
    BY FS_Singleton
  <2>2. f[row] \in Int /\ 1 \in Int
    OBVIOUS
  <2>3. IsFiniteSet(1..f[row])
    BY ONLY <2>2, FS_Interval
  <2> QED BY <2>1, <2>3, FS_Product
<1>4. IsFiniteSet(UNION Own)
  BY <1>2, <1>3, FS_UNION
<1>5. Units(f) = UNION Own
  BY DEF Units
<1> QED BY <1>4, <1>5, FS_CardinalityType DEF Total

\* A total over fewer rows, each with the amount it had, is no larger.
LEMMA TotalShrinks ==
  ASSUME NEW S, IsFiniteSet(S), NEW f \in [S -> Nat],
         NEW T \in SUBSET S, NEW g \in [T -> Nat], \A y \in T : g[y] = f[y]
  PROVE  Total(g) <= Total(f) /\ Total(f) \in Nat /\ Total(g) \in Nat
<1>1. IsFiniteSet(T)
  BY FS_Subset
<1>2. Units(g) \in SUBSET Units(f)
  BY DEF Units
<1> QED BY <1>1, <1>2, UnitsFinite, FS_Subset DEF Total

\* One more row of n units adds at most n.
LEMMA TotalGrows ==
  ASSUME NEW S, IsFiniteSet(S), NEW f \in [S -> Nat], NEW x, NEW n \in Nat,
         NEW T \in SUBSET (S \cup {x}), NEW g \in [T -> Nat],
         \A y \in T \ {x} : g[y] = f[y], x \in T => g[x] = n
  PROVE  Total(g) <= Total(f) + n /\ Total(f) \in Nat /\ Total(g) \in Nat
<1> DEFINE Own == {x} \X (1..n)
<1>1. IsFiniteSet(S \cup {x}) /\ IsFiniteSet(T)
  BY FS_AddElement, FS_Subset
<1>2. Units(g) \in SUBSET (Units(f) \cup Own)
  <2> SUFFICES ASSUME NEW y \in T, NEW u \in {y} \X (1..g[y])
               PROVE  u \in Units(f) \cup Own
    BY DEF Units
  <2>1. CASE y = x
    BY <2>1
  <2>2. CASE y # x
    BY <2>2 DEF Units
  <2> QED BY <2>1, <2>2
<1>3. IsFiniteSet(Own) /\ Cardinality(Own) = n
  <2>1. IsFiniteSet({x}) /\ Cardinality({x}) = 1
    BY FS_Singleton
  <2>2. IsFiniteSet(1..n) /\ Cardinality(1..n) = n
    <3>1. /\ IsFiniteSet(1..n)
          /\ Cardinality(1..n) = IF 1 > n THEN 0 ELSE n - 1 + 1
      BY FS_Interval
    <3> QED BY <3>1
  <2>3. PICK one, units : one = {x} /\ units = 1..n
    OBVIOUS
  <2>4. IsFiniteSet(one \X units) /\ Cardinality(one \X units) = Cardinality(one) * Cardinality(units)
    <3>1. IsFiniteSet(one) /\ IsFiniteSet(units)
      BY <2>1, <2>2, <2>3
    <3> QED BY ONLY <3>1, FS_Product
  <2>5. IsFiniteSet(Own) /\ Cardinality(Own) = 1 * n
    BY <2>1, <2>2, <2>3, <2>4
  <2> QED BY <2>5
<1>4. IsFiniteSet(Units(f)) /\ Total(f) \in Nat /\ Total(g) \in Nat
  BY <1>1, UnitsFinite
<1>5. /\ IsFiniteSet(Units(f) \cup Own)
      /\ Cardinality(Units(f) \cup Own)
           = Cardinality(Units(f)) + Cardinality(Own) - Cardinality(Units(f) \cap Own)
  BY <1>3, <1>4, FS_Union
<1>6. Cardinality(Units(f) \cap Own) \in Nat
  BY <1>4, FS_Intersection, FS_CardinalityType
<1>7. Cardinality(Units(g)) <= Cardinality(Units(f) \cup Own)
  BY <1>2, <1>5, FS_Subset
<1> HIDE DEF Own
<1> QED BY <1>3, <1>4, <1>5, <1>6, <1>7 DEF Total

\* What the rows of a ledger sign, and what those that name an asset spend of it.
ChargeOf(ledger, row) == ledger[row[1]][row[2]].charge

SignedIn(ledger, rows) == [row \in rows |-> ChargeOf(ledger, row).signatures]

Spenders(ledger, rows, asset) == {row \in rows : asset \in DOMAIN ChargeOf(ledger, row).values}

SpentIn(ledger, rows, asset) ==
  [row \in Spenders(ledger, rows, asset) |-> ChargeOf(ledger, row).values[asset]]

LEMMA TotalsOfRows ==
  ASSUME NEW rows, NEW asset
  PROVE  /\ SignaturesOf(rows) = Total(SignedIn(reservations, rows))
         /\ ValueOf(rows, asset) = Total(SpentIn(reservations, rows, asset))
BY DEF SignaturesOf, ValueOf, Spending, SignedIn, SpentIn, Spenders, ChargeOf

LEMMA AmountsAreNat ==
  ASSUME NEW L, NEW R, \A row \in R : ChargeOf(L, row) \in Charges, NEW asset
  PROVE  /\ SignedIn(L, R) \in [R -> Nat]
         /\ SpentIn(L, R, asset) \in [Spenders(L, R, asset) -> Nat]
BY ConstantsAssumption DEF SignedIn, SpentIn, Spenders

\* Fewer rows with their old charges spend no more.
LEMMA LessIsSpent ==
  ASSUME NEW L, NEW M, NEW R, IsFiniteSet(R), NEW T \in SUBSET R, NEW asset,
         \A row \in R : ChargeOf(L, row) \in Charges,
         \A row \in T : ChargeOf(M, row) = ChargeOf(L, row)
  PROVE  /\ Total(SignedIn(M, T)) <= Total(SignedIn(L, R))
         /\ Total(SpentIn(M, T, asset)) <= Total(SpentIn(L, R, asset))
         /\ Total(SignedIn(M, T)) \in Nat /\ Total(SignedIn(L, R)) \in Nat
         /\ Total(SpentIn(M, T, asset)) \in Nat /\ Total(SpentIn(L, R, asset)) \in Nat
<1>1. \A row \in T : ChargeOf(M, row) \in Charges
  OBVIOUS
<1>2. SignedIn(L, R) \in [R -> Nat] /\ SignedIn(M, T) \in [T -> Nat]
  BY <1>1, AmountsAreNat
<1>3. /\ SpentIn(L, R, asset) \in [Spenders(L, R, asset) -> Nat]
      /\ SpentIn(M, T, asset) \in [Spenders(M, T, asset) -> Nat]
  BY <1>1, AmountsAreNat
<1>4. Spenders(M, T, asset) \in SUBSET Spenders(L, R, asset) /\ Spenders(L, R, asset) \in SUBSET R
  BY DEF Spenders
<1>5. \A y \in T : SignedIn(M, T)[y] = SignedIn(L, R)[y]
  BY DEF SignedIn
<1>6. \A y \in Spenders(M, T, asset) : SpentIn(M, T, asset)[y] = SpentIn(L, R, asset)[y]
  BY <1>4 DEF SpentIn, Spenders
<1>7. IsFiniteSet(Spenders(L, R, asset))
  BY <1>4, FS_Subset
<1>8. /\ Total(SignedIn(M, T)) <= Total(SignedIn(L, R))
      /\ Total(SignedIn(M, T)) \in Nat /\ Total(SignedIn(L, R)) \in Nat
  BY <1>2, <1>5, TotalShrinks
<1>9. /\ Total(SpentIn(M, T, asset)) <= Total(SpentIn(L, R, asset))
      /\ Total(SpentIn(M, T, asset)) \in Nat /\ Total(SpentIn(L, R, asset)) \in Nat
  BY <1>3, <1>4, <1>6, <1>7, TotalShrinks
<1> QED BY <1>8, <1>9

\* One more row spends at most its charge more.
LEMMA MoreIsSpent ==
  ASSUME NEW L, NEW M, NEW R, IsFiniteSet(R), NEW x, NEW T \in SUBSET (R \cup {x}), NEW asset,
         \A row \in R : ChargeOf(L, row) \in Charges,
         \A row \in T \ {x} : ChargeOf(M, row) = ChargeOf(L, row),
         NEW c \in Charges, ChargeOf(M, x) = c
  PROVE  /\ Total(SignedIn(M, T)) <= Total(SignedIn(L, R)) + c.signatures
         /\ asset \in DOMAIN c.values =>
              Total(SpentIn(M, T, asset)) <= Total(SpentIn(L, R, asset)) + c.values[asset]
         /\ asset \notin DOMAIN c.values =>
              Total(SpentIn(M, T, asset)) <= Total(SpentIn(L, R, asset))
         /\ Total(SignedIn(M, T)) \in Nat /\ Total(SignedIn(L, R)) \in Nat
         /\ Total(SpentIn(M, T, asset)) \in Nat /\ Total(SpentIn(L, R, asset)) \in Nat
<1>0. c.signatures \in Nat /\ (asset \in DOMAIN c.values => c.values[asset] \in Nat)
  BY ConstantsAssumption
<1>1. \A row \in T : ChargeOf(M, row) \in Charges
  OBVIOUS
<1>2. SignedIn(L, R) \in [R -> Nat] /\ SignedIn(M, T) \in [T -> Nat]
  BY <1>1, AmountsAreNat
<1>3. /\ SpentIn(L, R, asset) \in [Spenders(L, R, asset) -> Nat]
      /\ SpentIn(M, T, asset) \in [Spenders(M, T, asset) -> Nat]
  BY <1>1, AmountsAreNat
<1>4. /\ Spenders(M, T, asset) \in SUBSET (Spenders(L, R, asset) \cup {x})
      /\ Spenders(L, R, asset) \in SUBSET R
  BY DEF Spenders
<1>5. /\ \A y \in T \ {x} : SignedIn(M, T)[y] = SignedIn(L, R)[y]
      /\ x \in T => SignedIn(M, T)[x] = c.signatures
  BY DEF SignedIn
<1>6. \A y \in Spenders(M, T, asset) \ {x} : SpentIn(M, T, asset)[y] = SpentIn(L, R, asset)[y]
  BY <1>4 DEF SpentIn, Spenders
<1>7. IsFiniteSet(Spenders(L, R, asset))
  BY <1>4, FS_Subset
<1>8. /\ Total(SignedIn(M, T)) <= Total(SignedIn(L, R)) + c.signatures
      /\ Total(SignedIn(M, T)) \in Nat /\ Total(SignedIn(L, R)) \in Nat
  BY <1>0, <1>2, <1>5, TotalGrows
<1>9. CASE asset \in DOMAIN c.values
  <2>1. x \in Spenders(M, T, asset) => SpentIn(M, T, asset)[x] = c.values[asset]
    BY DEF SpentIn
  <2>2. /\ Total(SpentIn(M, T, asset)) <= Total(SpentIn(L, R, asset)) + c.values[asset]
        /\ Total(SpentIn(M, T, asset)) \in Nat /\ Total(SpentIn(L, R, asset)) \in Nat
    BY <1>0, <1>3, <1>4, <1>6, <1>7, <1>9, <2>1, TotalGrows
  <2> QED BY <1>8, <1>9, <2>2
<1>10. CASE asset \notin DOMAIN c.values
  <2>1. x \notin Spenders(M, T, asset)
    BY <1>10 DEF Spenders
  <2>2. /\ Total(SpentIn(M, T, asset)) <= Total(SpentIn(L, R, asset))
        /\ Total(SpentIn(M, T, asset)) \in Nat /\ Total(SpentIn(L, R, asset)) \in Nat
    BY <1>3, <1>4, <1>6, <1>7, <2>1, TotalShrinks
  <2> QED BY <1>8, <1>10, <2>2
<1> QED BY <1>9, <1>10

\* Every row that was written charges what some request asked for, and keeps it.
RowsCharged ==
  \A a \in Approvals, o \in OperationIds :
    reservations[a][o].state # "ABSENT" => reservations[a][o].charge \in Charges

LEMMA ChargesKept ==
  ASSUME TypeOK, [Next]_vars, NEW b \in Approvals, NEW p \in OperationIds,
         reservations[b][p].state # "ABSENT"
  PROVE  reservations'[b][p].charge = reservations[b][p].charge
<1>1. reservations[b][p] \in ReservationRow
  BY DEF TypeOK
<1>2. \A s : [reservations[b][p] EXCEPT !.state = s].charge = reservations[b][p].charge
  BY <1>1 DEF ReservationRow
<1>3. ASSUME NEW a \in Approvals, NEW o \in OperationIds, NEW s, Finalized(a, o, s)
      PROVE  reservations'[b][p].charge = reservations[b][p].charge
  <2>1. \A c \in Approvals, q \in OperationIds :
          c # a \/ q # o => reservations'[c][q] = reservations[c][q]
    BY <1>3, FinalizedRow
  <2>2. reservations'[a][o] = [reservations[a][o] EXCEPT !.state = s]
    BY <1>3, FinalizedRow
  <2>3. CASE b = a /\ p = o
    BY <1>2, <2>2, <2>3
  <2>4. CASE b # a \/ p # o
    BY <2>1, <2>4
  <2> QED BY <2>3, <2>4
<1>4. ASSUME NEW a \in Approvals, NEW o \in OperationIds, NEW d, NEW charge, NEW at,
             Reserve(a, o, d, charge, at)
      PROVE  reservations'[b][p].charge = reservations[b][p].charge
  BY <1>4, ReservedRow
<1> QED BY <1>3, <1>4, LedgerChanges

LEMMA InitCharged == Init => RowsCharged
BY DEF Init, RowsCharged, NoReservation

LEMMA NextCharged == TypeOK /\ RowsCharged /\ [Next]_vars => RowsCharged'
<1> SUFFICES ASSUME TypeOK, RowsCharged, [Next]_vars, NEW b \in Approvals, NEW p \in OperationIds,
                    reservations'[b][p].state # "ABSENT"
             PROVE  reservations'[b][p].charge \in Charges
  BY DEF RowsCharged
<1>1. CASE reservations[b][p].state # "ABSENT"
  BY <1>1, ChargesKept DEF RowsCharged
<1>2. CASE reservations[b][p].state = "ABSENT"
  <2>1. ASSUME NEW a \in Approvals, NEW o \in OperationIds, NEW d, NEW charge \in Charges, NEW at,
               Reserve(a, o, d, charge, at)
        PROVE  reservations'[b][p].charge \in Charges
    <3>1. reservations'[a][o].charge = charge
      <4>1. reservations'[a][o] =
              [state |-> "RESERVED", digest |-> d, charge |-> charge, at |-> at]
        BY <2>1, ReservedRow
      <4> QED BY <4>1
    <3>2. \A c \in Approvals, q \in OperationIds :
            c # a \/ q # o => reservations'[c][q] = reservations[c][q]
      BY <2>1, ReserveLeavesOthers
    <3> QED BY <1>2, <3>1, <3>2
  <2>2. ASSUME NEW a \in Approvals, NEW o \in OperationIds, NEW s, Finalized(a, o, s)
        PROVE  FALSE
    BY <1>2, <2>2, FinalizedRow DEF Finalized
  <2> QED BY <1>2, <2>1, <2>2, LedgerChanges
<1> QED BY <1>1, <1>2

LEMMA CountedCharged ==
  ASSUME RowsCharged, NEW owners \in SUBSET Approvals, NEW rows \in SUBSET Counted(owners)
  PROVE  \A row \in rows : ChargeOf(reservations, row) \in Charges
BY DEF RowsCharged, Counted, ChargeOf

\* What an approval may still spend is never negative.
WithinBudget(c, asset) ==
  /\ SignaturesOf(Counted({c})) <= MaxSignatures[c]
  /\ IF asset \in DOMAIN ValueLimits[c]
     THEN ValueOf(Counted({c}), asset) <= ValueLimits[c][asset]
     ELSE ValueOf(Counted({c}), asset) = 0

LEMMA InitSpending ==
  ASSUME Init, NEW c \in Approvals, NEW asset PROVE WithinBudget(c, asset)
<1>1. Counted({c}) = {}
  BY DEF Init, Counted, NoReservation
<1>2. \A f : DOMAIN f = {} => Total(f) = 0
  BY FS_EmptySet DEF Total, Units
<1>3. SignaturesOf(Counted({c})) = 0
  <2>1. DOMAIN SignedIn(reservations, Counted({c})) = {}
    BY <1>1 DEF SignedIn
  <2> QED BY <1>2, <2>1, TotalsOfRows
<1>4. ValueOf(Counted({c}), asset) = 0
  <2>1. DOMAIN SpentIn(reservations, Counted({c}), asset) = {}
    BY <1>1 DEF SpentIn, Spenders
  <2> QED BY <1>2, <2>1, TotalsOfRows
<1>5. MaxSignatures[c] \in Nat /\ (asset \in DOMAIN ValueLimits[c] => ValueLimits[c][asset] \in Nat)
  BY ConstantsAssumption
<1> QED BY <1>3, <1>4, <1>5 DEF WithinBudget

LEMMA NextSpending ==
  ASSUME TypeOK, RowsCharged, [Next]_vars, NEW c \in Approvals, NEW asset, WithinBudget(c, asset)
  PROVE  WithinBudget(c, asset)'
<1> DEFINE R == Counted({c})
           signed == Total(SignedIn(reservations, R))
           spent == Total(SpentIn(reservations, R, asset))
           nowSigned == Total(SignedIn(reservations', R'))
           nowSpent == Total(SpentIn(reservations', R', asset))
<1>1. /\ SignaturesOf(R) = signed /\ ValueOf(R, asset) = spent
      /\ SignaturesOf(R)' = nowSigned /\ ValueOf(R, asset)' = nowSpent
  BY DEF SignaturesOf, ValueOf, Spending, SignedIn, SpentIn, Spenders, ChargeOf
<1>2. IsFiniteSet(R) /\ \A row \in R : ChargeOf(reservations, row) \in Charges
  BY CountedFinite, CountedCharged
<1>3. \A row \in R : ChargeOf(reservations', row) = ChargeOf(reservations, row)
  BY ChargesKept DEF Counted, ChargeOf
<1>4. MaxSignatures[c] \in Nat /\ (asset \in DOMAIN ValueLimits[c] => ValueLimits[c][asset] \in Nat)
  BY ConstantsAssumption
<1>5. /\ signed <= MaxSignatures[c]
      /\ IF asset \in DOMAIN ValueLimits[c] THEN spent <= ValueLimits[c][asset] ELSE spent = 0
  BY <1>1 DEF WithinBudget
<1>6. ASSUME /\ nowSigned <= MaxSignatures[c]
             /\ IF asset \in DOMAIN ValueLimits[c]
                THEN nowSpent <= ValueLimits[c][asset] ELSE nowSpent = 0
      PROVE  WithinBudget(c, asset)'
  BY <1>1, <1>6 DEF WithinBudget
<1>7. CASE R' \subseteq R
  <2>1. /\ nowSigned <= signed /\ nowSpent <= spent
        /\ nowSigned \in Nat /\ signed \in Nat /\ nowSpent \in Nat /\ spent \in Nat
    BY <1>2, <1>3, <1>7, LessIsSpent
  <2> HIDE DEF signed, spent, nowSigned, nowSpent
  <2> QED BY <1>4, <1>5, <1>6, <2>1
<1>8. ASSUME NEW a \in Approvals, NEW o \in OperationIds, NEW d, NEW charge \in Charges, NEW at,
             Reserve(a, o, d, charge, at)
      PROVE  WithinBudget(c, asset)'
  <2>1. CASE c # a
    BY <1>7, <1>8, <2>1, ReservedCounted
  <2>2. CASE c = a
    <3>1. R' \subseteq R \cup {<<a, o>>}
      BY <1>8, ReservedCounted
    <3>2. ChargeOf(reservations', <<a, o>>) = charge
      <4>1. reservations'[a][o] =
              [state |-> "RESERVED", digest |-> d, charge |-> charge, at |-> at]
        BY <1>8, ReservedRow
      <4> QED BY <4>1 DEF ChargeOf
    <3>3. /\ nowSigned <= signed + charge.signatures
          /\ asset \in DOMAIN charge.values => nowSpent <= spent + charge.values[asset]
          /\ asset \notin DOMAIN charge.values => nowSpent <= spent
          /\ nowSigned \in Nat /\ signed \in Nat /\ nowSpent \in Nat /\ spent \in Nat
      BY <1>2, <1>3, <3>1, <3>2, MoreIsSpent
    <3>4. charge.signatures \in Nat /\ (asset \in DOMAIN charge.values => charge.values[asset] \in Nat)
      BY ConstantsAssumption
    <3>5. signed + charge.signatures <= MaxSignatures[c]
      BY <1>1, <1>8, <2>2 DEF Reserve, CanReserve, validate_lifetime_limits
    <3>6. asset \in DOMAIN charge.values =>
            asset \in DOMAIN ValueLimits[c] /\ spent + charge.values[asset] <= ValueLimits[c][asset]
      BY <1>1, <1>8, <2>2 DEF Reserve, CanReserve, validate_value_limits
    <3> HIDE DEF signed, spent, nowSigned, nowSpent
    <3> QED BY <1>4, <1>5, <1>6, <3>3, <3>4, <3>5, <3>6
  <2> QED BY <2>1, <2>2
<1>9. ASSUME NEW a \in Approvals, NEW o \in OperationIds, NEW s, Finalized(a, o, s)
      PROVE  WithinBudget(c, asset)'
  BY <1>7, <1>9, FinalizedCounted
<1>10. CASE UNCHANGED reservations
  BY <1>7, <1>10 DEF Counted
<1> QED BY <1>8, <1>9, <1>10, LedgerChanges

\* Whatever the order of reservations, releases and publications, what an
\* approval signs stays within its signature limit, and what it spends of an
\* asset within that asset's lifetime maximum, or at nothing when its terms do
\* not name the asset (validate_lifetime_limits, validate_value_limits).
THEOREM SpendingHolds == Spec => []SpendingBudget
<1> DEFINE Spends == \A c \in Approvals, asset \in Assets \cup {None} : WithinBudget(c, asset)
<1>1. Init => Spends
  BY InitSpending
<1>2. TypeOK /\ RowsCharged /\ Spends /\ [Next]_vars => Spends'
  <2> SUFFICES ASSUME TypeOK, RowsCharged, Spends, [Next]_vars,
                      NEW c \in Approvals, NEW asset \in Assets \cup {None}
               PROVE  WithinBudget(c, asset)'
    OBVIOUS
  <2>1. WithinBudget(c, asset)
    OBVIOUS
  <2> QED BY <2>1, NextSpending
<1>3. Spends => SpendingBudget
  <2> SUFFICES ASSUME Spends, NEW c \in Approvals
               PROVE  /\ SignaturesOf(Counted({c})) <= MaxSignatures[c]
                      /\ \A asset \in Assets :
                           IF asset \in DOMAIN ValueLimits[c]
                           THEN ValueOf(Counted({c}), asset) <= ValueLimits[c][asset]
                           ELSE ValueOf(Counted({c}), asset) = 0
    BY DEF SpendingBudget
  <2>1. WithinBudget(c, None)
    OBVIOUS
  <2> QED BY <2>1 DEF WithinBudget
<1> HIDE DEF Spends
<1> QED BY <1>1, <1>2, <1>3, InitCharged, NextCharged, TypeCorrect, PTL DEF Spec

-----------------------------------------------------------------------------
(* Rolling windows that add up. *)

SignedWindowHolds(c, p) ==
  \A limit \in RateLimits[c] :
    reservations[c][p].state \notin {"ABSENT", "RELEASED"} =>
      SignaturesOf(Window(c, reservations[c][p].at, limit)) <= limit.signatures

SpentWindowHolds(c, p) ==
  \A limit \in RollingLimits[c] :
    /\ reservations[c][p].state \notin {"ABSENT", "RELEASED"}
    /\ limit.asset \in DOMAIN reservations[c][p].charge.values
    => ValueOf(Window(c, reservations[c][p].at, limit), limit.asset) <= limit.maximum

SpendingWindows ==
  \A c \in Approvals, p \in OperationIds : SignedWindowHolds(c, p) /\ SpentWindowHolds(c, p)

LEMMA SpendingIsRolling == RollingSpending <=> SpendingWindows
<1>1. \A c \in Approvals, p \in OperationIds :
        (<<c, p>> \in Counted({c})) <=> reservations[c][p].state \notin {"ABSENT", "RELEASED"}
  BY DEF Counted
<1> QED
  BY <1>1 DEF RollingSpending, SpendingWindows, SignedWindowHolds, SpentWindowHolds, Window

LEMMA InitSpendingWindows == Init => SpendingWindows
BY DEF Init, NoReservation, SpendingWindows, SignedWindowHolds, SpentWindowHolds

\* The rows of a window are counted ones, so they are charged and keep their charge.
LEMMA WindowRows ==
  ASSUME TypeOK, RowsCharged, [Next]_vars, NEW c \in Approvals, NEW t, NEW limit,
         NEW row \in Window(c, t, limit)
  PROVE  /\ ChargeOf(reservations, row) \in Charges
         /\ ChargeOf(reservations', row) = ChargeOf(reservations, row)
<1>1. /\ row[1] \in Approvals /\ row[2] \in OperationIds
      /\ reservations[row[1]][row[2]].state # "ABSENT"
  BY DEF Window, InWindow, Counted, Lineage
<1> QED BY <1>1, ChargesKept DEF RowsCharged, ChargeOf

\* The totals of a window that gains nothing do not grow.
LEMMA WindowSpendsLess ==
  ASSUME TypeOK, RowsCharged, [Next]_vars, NEW c \in Approvals, NEW t, NEW limit, NEW asset,
         Window(c, t, limit)' \subseteq Window(c, t, limit)
  PROVE  /\ SignaturesOf(Window(c, t, limit))' <= SignaturesOf(Window(c, t, limit))
         /\ ValueOf(Window(c, t, limit), asset)' <= ValueOf(Window(c, t, limit), asset)
         /\ SignaturesOf(Window(c, t, limit))' \in Nat /\ SignaturesOf(Window(c, t, limit)) \in Nat
         /\ ValueOf(Window(c, t, limit), asset)' \in Nat /\ ValueOf(Window(c, t, limit), asset) \in Nat
<1> DEFINE W == Window(c, t, limit)
<1>1. /\ SignaturesOf(W) = Total(SignedIn(reservations, W))
      /\ ValueOf(W, asset) = Total(SpentIn(reservations, W, asset))
      /\ SignaturesOf(W)' = Total(SignedIn(reservations', W'))
      /\ ValueOf(W, asset)' = Total(SpentIn(reservations', W', asset))
  BY DEF SignaturesOf, ValueOf, Spending, SignedIn, SpentIn, Spenders, ChargeOf
<1>2. IsFiniteSet(W)
  BY WindowFinite
<1>3. \A row \in W : /\ ChargeOf(reservations, row) \in Charges
                     /\ ChargeOf(reservations', row) = ChargeOf(reservations, row)
  BY WindowRows
<1>4. W' \in SUBSET W /\ \A row \in W' : ChargeOf(reservations', row) = ChargeOf(reservations, row)
  BY <1>3
<1> HIDE DEF W
<1>5. /\ Total(SignedIn(reservations', W')) <= Total(SignedIn(reservations, W))
      /\ Total(SpentIn(reservations', W', asset)) <= Total(SpentIn(reservations, W, asset))
      /\ Total(SignedIn(reservations', W')) \in Nat /\ Total(SignedIn(reservations, W)) \in Nat
      /\ Total(SpentIn(reservations', W', asset)) \in Nat
      /\ Total(SpentIn(reservations, W, asset)) \in Nat
  BY <1>2, <1>3, <1>4, LessIsSpent
<1> QED BY <1>1, <1>5 DEF W

\* The totals of the window of an admitted row grow by its charge.
LEMMA WindowSpendsMore ==
  ASSUME TypeOK, RowsCharged, [Next]_vars, NEW c \in Approvals, NEW o \in OperationIds, NEW d,
         NEW charge \in Charges, NEW t, Reserve(c, o, d, charge, t), NEW limit, NEW asset
  PROVE  /\ SignaturesOf(Window(c, t, limit))'
              <= SignaturesOf(Window(c, t, limit)) + charge.signatures
         /\ asset \in DOMAIN charge.values =>
              ValueOf(Window(c, t, limit), asset)'
                <= ValueOf(Window(c, t, limit), asset) + charge.values[asset]
         /\ asset \notin DOMAIN charge.values =>
              ValueOf(Window(c, t, limit), asset)' <= ValueOf(Window(c, t, limit), asset)
         /\ SignaturesOf(Window(c, t, limit))' \in Nat /\ SignaturesOf(Window(c, t, limit)) \in Nat
         /\ ValueOf(Window(c, t, limit), asset)' \in Nat /\ ValueOf(Window(c, t, limit), asset) \in Nat
<1> DEFINE W == Window(c, t, limit)
<1>1. /\ SignaturesOf(W) = Total(SignedIn(reservations, W))
      /\ ValueOf(W, asset) = Total(SpentIn(reservations, W, asset))
      /\ SignaturesOf(W)' = Total(SignedIn(reservations', W'))
      /\ ValueOf(W, asset)' = Total(SpentIn(reservations', W', asset))
  BY DEF SignaturesOf, ValueOf, Spending, SignedIn, SpentIn, Spenders, ChargeOf
<1>2. IsFiniteSet(W)
  BY WindowFinite
<1>3. \A row \in W : /\ ChargeOf(reservations, row) \in Charges
                     /\ ChargeOf(reservations', row) = ChargeOf(reservations, row)
  BY WindowRows
<1>4. /\ W' \in SUBSET (W \cup {<<c, o>>})
      /\ \A row \in W' \ {<<c, o>>} : ChargeOf(reservations', row) = ChargeOf(reservations, row)
  BY <1>3, WindowReserved
<1>5. ChargeOf(reservations', <<c, o>>) = charge
  <2>1. reservations'[c][o] = [state |-> "RESERVED", digest |-> d, charge |-> charge, at |-> t]
    BY ReservedRow
  <2> QED BY <2>1 DEF ChargeOf
<1> HIDE DEF W
<1>6. /\ Total(SignedIn(reservations', W')) <= Total(SignedIn(reservations, W)) + charge.signatures
      /\ asset \in DOMAIN charge.values =>
           Total(SpentIn(reservations', W', asset))
             <= Total(SpentIn(reservations, W, asset)) + charge.values[asset]
      /\ asset \notin DOMAIN charge.values =>
           Total(SpentIn(reservations', W', asset)) <= Total(SpentIn(reservations, W, asset))
      /\ Total(SignedIn(reservations', W')) \in Nat /\ Total(SignedIn(reservations, W)) \in Nat
      /\ Total(SpentIn(reservations', W', asset)) \in Nat
      /\ Total(SpentIn(reservations, W, asset)) \in Nat
  BY <1>2, <1>3, <1>4, <1>5, MoreIsSpent
<1> QED BY <1>1, <1>6 DEF W

LEMMA NextSignedWindows ==
  ASSUME DurableClockGuard, TypeOK, LineageInv, RowsDated, RowsCharged, SpendingWindows, [Next]_vars,
         NEW c \in Approvals, NEW p \in OperationIds
  PROVE  SignedWindowHolds(c, p)'
<1> SUFFICES ASSUME NEW limit \in RateLimits[c], NEW t, t = reservations'[c][p].at,
                    reservations'[c][p].state \notin {"ABSENT", "RELEASED"}
             PROVE  SignaturesOf(Window(c, t, limit))' <= limit.signatures
  BY DEF SignedWindowHolds
<1>1. limit.signatures \in Nat /\ TimeLimited(c)
  BY ConstantsAssumption DEF TimeLimited
<1>2. ASSUME reservations[c][p].state \notin {"ABSENT", "RELEASED"}, t = reservations[c][p].at,
             Window(c, t, limit)' \subseteq Window(c, t, limit)
      PROVE  SignaturesOf(Window(c, t, limit))' <= limit.signatures
  <2>1. SignaturesOf(Window(c, t, limit)) <= limit.signatures
    BY <1>2 DEF SpendingWindows, SignedWindowHolds
  <2>2. /\ SignaturesOf(Window(c, t, limit))' <= SignaturesOf(Window(c, t, limit))
        /\ SignaturesOf(Window(c, t, limit))' \in Nat /\ SignaturesOf(Window(c, t, limit)) \in Nat
    BY <1>2, WindowSpendsLess
  <2> QED BY <1>1, <2>1, <2>2
<1>3. ASSUME NEW o \in OperationIds, NEW d, NEW charge \in Charges, Reserve(c, o, d, charge, t)
      PROVE  SignaturesOf(Window(c, t, limit))' <= limit.signatures
  <2>1. SignaturesOf(Window(c, t, limit)) + charge.signatures <= limit.signatures
    BY <1>3 DEF Reserve, CanReserve, validate_rate_limits, Window
  <2>2. /\ SignaturesOf(Window(c, t, limit))'
             <= SignaturesOf(Window(c, t, limit)) + charge.signatures
        /\ SignaturesOf(Window(c, t, limit))' \in Nat /\ SignaturesOf(Window(c, t, limit)) \in Nat
    BY <1>3, WindowSpendsMore
  <2>3. charge.signatures \in Nat
    BY ConstantsAssumption
  <2> QED BY <1>1, <2>1, <2>2, <2>3
<1> QED BY <1>1, <1>2, <1>3, WindowStep

LEMMA NextSpentWindows ==
  ASSUME DurableClockGuard, TypeOK, LineageInv, RowsDated, RowsCharged, SpendingWindows, [Next]_vars,
         NEW c \in Approvals, NEW p \in OperationIds
  PROVE  SpentWindowHolds(c, p)'
<1> SUFFICES ASSUME NEW limit \in RollingLimits[c], NEW t, t = reservations'[c][p].at,
                    reservations'[c][p].state \notin {"ABSENT", "RELEASED"},
                    limit.asset \in DOMAIN reservations'[c][p].charge.values
             PROVE  ValueOf(Window(c, t, limit), limit.asset)' <= limit.maximum
  BY DEF SpentWindowHolds
<1> DEFINE before == ValueOf(Window(c, t, limit), limit.asset)
           after == ValueOf(Window(c, t, limit), limit.asset)'
<1>1. limit.maximum \in Nat /\ TimeLimited(c)
  BY ConstantsAssumption DEF TimeLimited
\* A row that was there named the asset already.
<1>2. ASSUME reservations[c][p].state \notin {"ABSENT", "RELEASED"}, t = reservations[c][p].at
      PROVE  before <= limit.maximum
  <2>1. reservations'[c][p].charge = reservations[c][p].charge
    BY <1>2, ChargesKept
  <2> QED BY <1>2, <2>1 DEF SpendingWindows, SpentWindowHolds
<1>3. ASSUME reservations[c][p].state \notin {"ABSENT", "RELEASED"}, t = reservations[c][p].at,
             Window(c, t, limit)' \subseteq Window(c, t, limit)
      PROVE  after <= limit.maximum
  <2>1. after <= before /\ after \in Nat /\ before \in Nat
    BY <1>3, WindowSpendsLess
  <2>2. before <= limit.maximum
    BY <1>2, <1>3
  <2> HIDE DEF before, after
  <2> QED BY <1>1, <2>1, <2>2
<1>4. ASSUME NEW o \in OperationIds, NEW d, NEW charge \in Charges, Reserve(c, o, d, charge, t),
             p # o => /\ reservations[c][p].state \notin {"ABSENT", "RELEASED"}
                      /\ t = reservations[c][p].at
      PROVE  after <= limit.maximum
  <2>1. /\ limit.asset \in DOMAIN charge.values => after <= before + charge.values[limit.asset]
        /\ limit.asset \notin DOMAIN charge.values => after <= before
        /\ after \in Nat /\ before \in Nat
    BY <1>4, WindowSpendsMore
  <2>2. limit.asset \in DOMAIN charge.values => before + charge.values[limit.asset] <= limit.maximum
    BY <1>4 DEF Reserve, CanReserve, validate_rolling_value_limits, Window
  <2>3. limit.asset \in DOMAIN charge.values => charge.values[limit.asset] \in Nat
    BY ConstantsAssumption
  <2>4. limit.asset \notin DOMAIN charge.values => p # o
    <3>1. reservations'[c][o] = [state |-> "RESERVED", digest |-> d, charge |-> charge, at |-> t]
      BY <1>4, ReservedRow
    <3> QED BY <3>1
  <2>5. p # o => before <= limit.maximum
    BY <1>2, <1>4
  <2> HIDE DEF before, after
  <2> QED BY <1>1, <2>1, <2>2, <2>3, <2>4, <2>5
<1> QED BY <1>1, <1>3, <1>4, WindowStep

\* Under the durable clock no window that ends at a reservation holds more
\* signatures than a rate limit allows, nor more of an asset the reservation
\* spends than its rolling maximum, the reservations of renewed approvals
\* included (validate_rate_limits, validate_rolling_value_limits).
THEOREM RollingSpendingHolds ==
  ASSUME DurableClockGuard PROVE Spec => []RollingSpending
<1>1. TypeOK /\ LineageInv /\ RowsDated /\ [Next]_vars => RowsDated'
  BY NextDated DEF LineageInv
<1>2. TypeOK /\ LineageInv /\ RowsDated /\ RowsCharged /\ SpendingWindows /\ [Next]_vars
        => SpendingWindows'
  <2> SUFFICES ASSUME TypeOK, LineageInv, RowsDated, RowsCharged, SpendingWindows, [Next]_vars,
                      NEW c \in Approvals, NEW p \in OperationIds
               PROVE  (SignedWindowHolds(c, p) /\ SpentWindowHolds(c, p))'
    BY DEF SpendingWindows
  <2> QED BY NextSignedWindows, NextSpentWindows
<1> QED
  BY <1>1, <1>2, InitSpendingWindows, SpendingIsRolling, InitLineage, NextLineage, InitDated,
     InitCharged, NextCharged, TypeCorrect, PTL DEF Spec
=============================================================================
