------------------------ MODULE SigningService_proofs ------------------------
(* What holds of the signing service for any number of calls, operations,    *)
(* approvals and crashes: its type invariant, that it implements the journal,*)
(* that an operation is sent once, that rows and charges agree with what the *)
(* Signer decided, and the journal's budget as a corollary.                  *)
EXTENDS SigningService, BrokerJournal_proofs

-----------------------------------------------------------------------------
(* Where the dispatch tables lead. *)

LEMMA AfterBeginStep ==
  ASSUME NEW op PROVE AfterBegin(op) \in {"idle", "VALIDATED", "RESERVED", "DISPATCHED", "resolve"}
BY DEF AfterBegin

LEMMA AfterTransitionStep ==
  ASSUME NEW state \in {"VALIDATED", "RESERVED", "DISPATCHED", "DOWNSTREAM_ACCEPTED",
                        "COMMITTED", "CANCELLED", "QUARANTINED", "FAILED"}
  PROVE  /\ AfterTransition(state) \in Steps
         /\ AfterTransition(state) = "send" <=> state = "DISPATCHED"
BY DEF AfterTransition, Steps

LEMMA AdvanceStates ==
  Steps \cap OperationState =
    {"VALIDATED", "RESERVED", "DISPATCHED", "DOWNSTREAM_ACCEPTED", "COMMITTED", "CANCELLED"}
BY DEF Steps, OperationState

-----------------------------------------------------------------------------
(* Types.  pc of a call moves only to the steps the service knows. *)

LEMMA GotoTypes ==
  ASSUME ServiceTypeOK, NEW c \in Calls, NEW step \in Steps, Goto(c, step)
  PROVE  ServiceTypeOK'
BY DEF ServiceTypeOK, Goto

LEMMA CallTypes ==
  ASSUME ServiceTypeOK, NEW c \in Calls, CallStep(c) \/ Refuse(c) \/ ResolveUnavailable(c)
  PROVE  ServiceTypeOK'
<1> USE DEF ServiceTypeOK
<1>1. request[c] \in Requests
  OBVIOUS
<1>2. request[c].op \in OperationIds
  BY <1>1, RequestsAssumption
<1>3. {"idle", "authorize", "begin", "resolve", "finalize_QUARANTINED", "finalize_RELEASED",
       "quarantine", "fail", "commit", "publish", "check_quarantine", "check_fail",
       "DOWNSTREAM_ACCEPTED", "COMMITTED", "VALIDATED", "RESERVED", "DISPATCHED"} \subseteq Steps
  BY DEF Steps
<1>4. CASE Observe(c)
  BY <1>3, <1>4, GotoTypes DEF Observe
<1>5. CASE Authorize(c)
  BY <1>3, <1>5, GotoTypes DEF Authorize
<1>6. CASE Begin(c)
  <2>1. AfterBegin(operations'[request[c].op]) \in Steps
    BY AfterBeginStep, <1>3
  <2> QED
    BY <1>3, <1>6, <2>1, GotoTypes DEF Begin
<1>7. ASSUME NEW state \in {"VALIDATED", "RESERVED", "DISPATCHED", "DOWNSTREAM_ACCEPTED",
                            "COMMITTED", "CANCELLED", "QUARANTINED", "FAILED"},
             TransitionOrStop(c, state)
      PROVE  ServiceTypeOK'
  <2>1. AfterTransition(state) \in Steps
    BY AfterTransitionStep
  <2> QED
    BY <1>3, <1>7, <2>1, GotoTypes DEF TransitionOrStop
<1>8. CASE Advance(c)
  <2>1. pc[c] \in Steps \cap OperationState
    BY <1>8 DEF Advance
  <2> QED
    BY <1>7, <1>8, <2>1, AdvanceStates DEF Advance
<1>9. CASE Send(c)
  <2>1. CASE Goto(c, "resolve")
    BY <1>3, <2>1, GotoTypes
  <2>2. CASE pc' = [pc EXCEPT ![c] = "await"] /\ wire' = wire \cup {request[c].op}
             /\ sends' = [sends EXCEPT ![request[c].op] = @ + 1]
             /\ UNCHANGED <<request, signer, answer, lapsed, crashes>>
    <3>1. "await" \in Steps
      BY DEF Steps
    <3> QED
      BY <1>2, <2>2, <3>1
  <2> QED
    BY <1>9, <2>1, <2>2 DEF Send
<1>10. CASE Await(c)
  <2>1. answer[request[c].op] # "none" => AfterAnswer(answer[request[c].op]) \in Steps
    BY <1>2, <1>3 DEF AfterAnswer
  <2> QED
    BY <1>3, <1>10, <2>1, GotoTypes DEF Await
<1>11. CASE Resolve(c)
  <2>1. AfterStatus(signer[request[c].op]) \in Steps
    BY <1>2, <1>3 DEF AfterStatus, SignerState
  <2> QED
    BY <1>11, <2>1, GotoTypes DEF Resolve
<1>12. CASE Check(c)
  BY <1>3, <1>12, GotoTypes DEF Check
<1>13. CASE Settle(c)
  BY <1>7, <1>13 DEF Settle
<1>14. CASE Finalize(c)
  BY <1>3, <1>14, GotoTypes DEF Finalize
<1>15. CASE Commit(c)
  <2>1. AfterSnapshot(operations[request[c].op].state) \in Steps
    BY <1>3 DEF AfterSnapshot
  <2> QED
    BY <1>3, <1>15, <2>1, GotoTypes DEF Commit
<1>16. CASE PublishSigned(c)
  BY <1>3, <1>16, GotoTypes DEF PublishSigned
<1>17. CASE Refuse(c) \/ ResolveUnavailable(c)
  BY <1>3, <1>17, GotoTypes DEF Refuse, ResolveUnavailable
<1> QED
  BY <1>4, <1>5, <1>6, <1>8, <1>9, <1>10, <1>11, <1>12, <1>13, <1>14, <1>15, <1>16, <1>17
  DEF CallStep

LEMMA ServiceTypesPreserved ==
  ASSUME ServiceTypeOK, [ServiceNext]_allVars
  PROVE  ServiceTypeOK'
<1>1. ASSUME NEW c \in Calls, CallStep(c) \/ Refuse(c) \/ ResolveUnavailable(c)
      PROVE  ServiceTypeOK'
  BY <1>1, CallTypes
<1>2. ASSUME NEW c \in Calls, NEW r \in Requests, StartSign(c, r) \/ Cancel(c, r)
      PROVE  ServiceTypeOK'
  <2>1. "observe" \in Steps /\ "CANCELLED" \in Steps
    BY DEF Steps
  <2> QED
    BY <1>2, <2>1 DEF StartSign, Cancel, ServiceTypeOK
<1>3. ASSUME NEW o \in OperationIds, SignerDecide(o)
      PROVE  ServiceTypeOK'
  BY <1>3 DEF SignerDecide, ServiceTypeOK, SignerState
<1>4. CASE Crash
  <2>1. "idle" \in Steps
    BY DEF Steps
  <2> QED
    BY <1>4, <2>1, RequestsAssumption DEF Crash, ServiceTypeOK
<1>5. CASE Lifecycle
  BY <1>5 DEF Lifecycle, serviceVars, ServiceTypeOK
<1>6. CASE UNCHANGED allVars
  BY <1>6 DEF allVars, serviceVars, ServiceTypeOK
<1>7. ASSUME NEW a \in Approvals, Lapse(a)
      PROVE  ServiceTypeOK'
  BY <1>7 DEF Lapse, ServiceTypeOK
<1> QED
  BY <1>1, <1>2, <1>3, <1>4, <1>5, <1>6, <1>7 DEF ServiceNext

\* Every reachable state of the service is typed: a call is always at a step
\* sign(), its helpers or operation.cancel have, whatever the Signer answers.
THEOREM ServiceTypeCorrect == ServiceSpec => []ServiceTypeOK
<1>1. ServiceInit => ServiceTypeOK
  BY RequestsAssumption DEF ServiceInit, ServiceTypeOK, Steps, SignerState
<1> QED
  BY <1>1, ServiceTypesPreserved, PTL DEF ServiceSpec

-----------------------------------------------------------------------------
(* The service implements the journal. *)

LEMMA CallImplements ==
  ASSUME ServiceTypeOK, NEW c \in Calls, CallStep(c) \/ Refuse(c) \/ ResolveUnavailable(c)
  PROVE  [Next]_vars
<1>1. /\ request[c] \in Requests
      /\ request[c].op \in OperationIds /\ request[c].approval \in Approvals
      /\ request[c].digest \in Digests /\ request[c].fields \in Fields
      /\ request[c].batch \in BOOLEAN /\ request[c].charge \in Charges
      /\ c \in AttemptIds /\ SignerResult[request[c].op] \in Results
  <2>1. request[c] \in Requests
    BY DEF ServiceTypeOK
  <2> QED
    BY <2>1, RequestsAssumption
<1>2. CASE NoJournal
  BY <1>2 DEF NoJournal
<1>3. CASE Observe(c)
  BY <1>2, <1>3 DEF Observe, Next, ClockStep
<1>4. CASE Authorize(c)
  BY <1>1, <1>2, <1>4 DEF Authorize, Next, LedgerStep
<1>5. CASE Begin(c)
  BY <1>1, <1>2, <1>5 DEF Begin, Next, OperationStep
<1>6. ASSUME NEW state \in OperationState \ {"RECEIVED", "SUCCEEDED", "DENIED"},
             TransitionOrStop(c, state)
      PROVE  [Next]_vars
  BY <1>1, <1>2, <1>6 DEF TransitionOrStop, Next, OperationStep
<1>7. CASE Advance(c)
  <2>1. pc[c] \in OperationState \ {"RECEIVED", "SUCCEEDED", "DENIED"}
    BY <1>7, AdvanceStates DEF Advance, ServiceTypeOK
  <2> QED
    BY <1>6, <1>7, <2>1 DEF Advance
<1>8. CASE Settle(c)
  BY <1>6, <1>8 DEF Settle, OperationState
<1>9. CASE Finalize(c)
  BY <1>1, <1>2, <1>9 DEF Finalize, Next, LedgerStep
<1>10. CASE PublishSigned(c)
  <2>1. CASE PublishResult(request[c].approval, request[c].op, request[c].digest,
                           SignerResult[request[c].op])
    BY <1>1, <2>1 DEF Next, LedgerStep
  <2>2. CASE PublishBatch(request[c].approval, request[c].op, request[c].digest,
                          SignerResult[request[c].op], request[c].charge.signatures)
    <3>1. request[c].charge.signatures \in 1..MaxBatchChildren
      BY <2>2 DEF PublishBatch
    <3> QED
      BY <1>1, <2>2, <3>1 DEF Next, LedgerStep
  <2> QED
    BY <1>2, <1>10, <2>1, <2>2 DEF PublishSigned
<1>11. CASE Send(c) \/ Await(c) \/ Resolve(c) \/ Check(c) \/ Commit(c) \/ Refuse(c)
            \/ ResolveUnavailable(c)
  BY <1>2, <1>11 DEF Send, Await, Resolve, Check, Commit, Refuse, ResolveUnavailable
<1> QED
  BY <1>3, <1>4, <1>5, <1>7, <1>8, <1>9, <1>10, <1>11 DEF CallStep

LEMMA StepImplements ==
  ASSUME ServiceTypeOK, [ServiceNext]_allVars
  PROVE  [Next]_vars
<1>1. ASSUME NEW c \in Calls, CallStep(c) \/ Refuse(c) \/ ResolveUnavailable(c)
      PROVE  [Next]_vars
  BY <1>1, CallImplements
<1>2. ASSUME NoJournal PROVE [Next]_vars
  BY <1>2 DEF NoJournal
<1>3. ASSUME NEW c \in Calls, NEW r \in Requests, StartSign(c, r) \/ Cancel(c, r)
      PROVE  [Next]_vars
  BY <1>2, <1>3 DEF StartSign, Cancel
<1>4. ASSUME NEW o \in OperationIds, SignerDecide(o)
      PROVE  [Next]_vars
  BY <1>2, <1>4 DEF SignerDecide
<1>5. CASE Crash
  BY <1>2, <1>5 DEF Crash
<1>6. CASE Lifecycle
  BY <1>6 DEF Lifecycle, Next
<1>7. CASE UNCHANGED allVars
  BY <1>7 DEF allVars
<1>8. ASSUME NEW a \in Approvals, Lapse(a)
      PROVE  [Next]_vars
  BY <1>2, <1>8 DEF Lapse
<1> QED
  BY <1>1, <1>3, <1>4, <1>5, <1>6, <1>7, <1>8 DEF ServiceNext

\* Refinement: however calls interleave, crash and resume, the durable tables
\* change only by the journal's transactions, with their checks.
THEOREM ServiceImplementsJournal == ServiceSpec => ImplementsJournal
<1>1. ServiceInit => Init
  BY DEF ServiceInit
<1> QED
  BY <1>1, StepImplements, ServiceTypeCorrect, PTL DEF ServiceSpec, ImplementsJournal, Spec

\* What the journal guarantees, the service guarantees: an approval's lifetime
\* limits on operations, signatures and spending hold under any interleaving of
\* signing calls and crashes, and a result is published exactly when its
\* reservation is charged.
THEOREM ServiceKeepsBudgets ==
  ServiceSpec => [](OperationBudget /\ SpendingBudget /\ PublishedIsCharged)
BY ServiceImplementsJournal, BudgetHolds, SpendingHolds, ChargedIffPublished, PTL
   DEF ImplementsJournal

-----------------------------------------------------------------------------
(* Dispatch.  Only the call that moves the operation to DISPATCHED may send    *)
(* it, and no operation leaves the states that follow.                         *)

Beyond == {"DISPATCHED", "DOWNSTREAM_ACCEPTED", "COMMITTED", "SUCCEEDED", "FAILED", "QUARANTINED"}

Sending(c, o) == pc[c] = "send" /\ request[c].op = o

\* What is sent, or about to be, is a signing operation past its dispatch.
SentIsDispatched ==
  \A o \in OperationIds :
    (sends[o] # 0 \/ \E c \in Calls : Sending(c, o)) =>
      operations[o].kind = "operation" /\ operations[o].state \in Beyond

\* At most one call is about to send an operation, and nobody has sent it then.
OneSender ==
  /\ \A c, d \in Calls : \A o \in OperationIds : Sending(c, o) /\ Sending(d, o) => c = d
  /\ \A c \in Calls : \A o \in OperationIds : Sending(c, o) => sends[o] = 0

DispatchInv == SentIsDispatched /\ OneSender /\ SentAtMostOnce

\* A journal step keeps an operation beyond its dispatch there.
LEMMA BeyondIsKept ==
  ASSUME TypeOK, [Next]_vars, NEW o \in OperationIds,
         operations[o].kind = "operation", operations[o].state \in Beyond
  PROVE  operations'[o].kind = "operation" /\ operations'[o].state \in Beyond
<1>0. operations \in [OperationIds -> OperationRow]
  BY DEF TypeOK
<1>1. CASE ApprovalStep \/ ClockStep \/ UNCHANGED vars
  <2>1. operations' = operations
    BY <1>1 DEF ApprovalStep, ClockStep, vars, operationVars, CreateApprovalRecord,
       ActivateApprovalRecord, TransitionApproval, ObserveTime, RepairClock
  <2> QED
    BY <2>1
<1>2. ASSUME NEW p \in OperationIds, NEW a, NEW d, NEW f, NEW batch, NEW attempt, NEW envelope,
             BeginSignAttempt(p, a, d, f, batch, attempt, envelope)
      PROVE  operations'[o] = operations[o]
  BY <1>0, <1>2 DEF BeginSignAttempt, BeginFresh, BeginRetry
<1>3. ASSUME NEW p \in OperationIds, NEW next, TransitionOperation(p, next)
      PROVE  operations'[o].kind = "operation" /\ operations'[o].state \in Beyond
  <2>1. operations' = [operations EXCEPT ![p].state = next]
    BY <1>3 DEF TransitionOperation
  <2>2. CASE p # o
    BY <1>0, <2>1, <2>2
  <2>3. CASE p = o
    <3>1. valid_operation_transition(operations[o].state, next)
      BY <1>3, <2>3 DEF TransitionOperation, CanTransitionOperation
    <3>2. next \in Beyond
      BY <3>1 DEF valid_operation_transition, Beyond
    <3> QED
      BY <1>0, <2>1, <2>3, <3>2 DEF OperationRow
  <2> QED
    BY <2>2, <2>3
<1>4. ASSUME NEW p \in OperationIds,
             CompleteKeyRevocation(p) \/ \E params \in DOMAIN KeyTargets : BeginKeyRevocation(p, params)
      PROVE  operations'[o] = operations[o]
  BY <1>0, <1>4 DEF CompleteKeyRevocation, BeginKeyRevocation
<1>5. ASSUME NEW a \in Approvals, NEW p \in OperationIds, NEW result, NEW n, NEW event,
             Publish(a, p, result, n, event)
      PROVE  operations'[o].kind = "operation" /\ operations'[o].state \in Beyond
  <2>1. operations' = [operations EXCEPT ![p].state = "SUCCEEDED", ![p].result = result]
    BY <1>5 DEF Publish
  <2>2. CASE p # o
    BY <1>0, <2>1, <2>2
  <2>3. CASE p = o
    BY <1>0, <2>1, <2>3 DEF OperationRow, Beyond
  <2> QED
    BY <2>2, <2>3
<1>6. CASE LedgerStep
  <2>1. ASSUME NEW a \in Approvals, NEW p \in OperationIds,
               \/ \E d \in Digests, charge \in Charges, at \in 1..MaxTime :
                    Reserve(a, p, d, charge, at)
               \/ \E next \in {"RELEASED", "QUARANTINED"} : FinalizeReservation(a, p, next)
        PROVE  operations'[o] = operations[o]
    BY <2>1 DEF Reserve, FinalizeReservation, operationVars
  <2>2. ASSUME NEW a \in Approvals, NEW p \in OperationIds,
               \/ \E d \in Digests, result \in Results : PublishResult(a, p, d, result)
               \/ \E d \in Digests, result \in Results, n \in 1..MaxBatchChildren :
                    PublishBatch(a, p, d, result, n)
        PROVE  operations'[o].kind = "operation" /\ operations'[o].state \in Beyond
    BY <1>5, <2>2 DEF PublishResult, PublishBatch
  <2> QED
    BY <1>6, <2>1, <2>2 DEF LedgerStep
<1>7. CASE OperationStep
  BY <1>2, <1>3, <1>4, <1>7 DEF OperationStep
<1> QED
  BY <1>1, <1>6, <1>7 DEF Next

\* A step after which nobody new is about to send, and that sends nothing.
LEMMA QuietStep ==
  ASSUME DispatchInv, TypeOK, [Next]_vars, sends' = sends,
         \A c \in Calls, o \in OperationIds : Sending(c, o)' => Sending(c, o)
  PROVE  DispatchInv'
<1>1. SentIsDispatched'
  <2> SUFFICES ASSUME NEW o \in OperationIds,
                      sends[o] # 0 \/ \E c \in Calls : Sending(c, o)'
               PROVE  operations'[o].kind = "operation" /\ operations'[o].state \in Beyond
    BY DEF SentIsDispatched
  <2>1. operations[o].kind = "operation" /\ operations[o].state \in Beyond
    BY DEF DispatchInv, SentIsDispatched
  <2> QED
    BY <2>1, BeyondIsKept
<1>2. OneSender'
  <2>1. \A c, d \in Calls : \A o \in OperationIds : Sending(c, o)' /\ Sending(d, o)' => c = d
    BY DEF DispatchInv, OneSender
  <2>2. \A c \in Calls : \A o \in OperationIds : Sending(c, o)' => sends'[o] = 0
    BY DEF DispatchInv, OneSender
  <2> QED
    BY <2>1, <2>2 DEF OneSender
<1>3. SentAtMostOnce'
  BY DEF DispatchInv, SentAtMostOnce
<1> QED
  BY <1>1, <1>2, <1>3 DEF DispatchInv

LEMMA GotoIsQuiet ==
  ASSUME DispatchInv, TypeOK, ServiceTypeOK, [Next]_vars,
         NEW c \in Calls, NEW step, step # "send", Goto(c, step)
  PROVE  DispatchInv'
<1>1. sends' = sends /\ request' = request
  BY DEF Goto
<1>2. \A d \in Calls : pc'[d] = "send" => pc[d] = "send"
  BY DEF Goto, ServiceTypeOK
<1>3. \A d \in Calls, o \in OperationIds : Sending(d, o)' => Sending(d, o)
  BY <1>1, <1>2 DEF Sending
<1> QED
  BY <1>1, <1>3, QuietStep

\* The transition to DISPATCHED: the call that makes it is the first and only
\* one about to send, because the operation was RESERVED.
LEMMA DispatchStep ==
  ASSUME DispatchInv, TypeOK, ServiceTypeOK, [Next]_vars,
         NEW c \in Calls, TransitionOperation(request[c].op, "DISPATCHED"), Goto(c, "send")
  PROVE  DispatchInv'
<1> DEFINE o == request[c].op
<1>0. o \in OperationIds /\ operations \in [OperationIds -> OperationRow]
  BY RequestsAssumption DEF ServiceTypeOK, TypeOK
<1>1. operations[o].state = "RESERVED" /\ operations[o].kind = "operation"
  BY DEF TransitionOperation, CanTransitionOperation, valid_operation_transition
<1>2. operations'[o].state = "DISPATCHED" /\ operations'[o].kind = "operation"
  BY <1>0, <1>1 DEF TransitionOperation, OperationRow
<1>3. sends[o] = 0 /\ \A d \in Calls : ~Sending(d, o)
  BY <1>0, <1>1 DEF DispatchInv, SentIsDispatched, Beyond
<1>4. sends' = sends /\ request' = request
  BY DEF Goto
<1>5. \A d \in Calls : \A p \in OperationIds :
        Sending(d, p)' => Sending(d, p) \/ (d = c /\ p = o)
  BY <1>4 DEF Sending, Goto, ServiceTypeOK
<1>6. SentIsDispatched'
  <2> SUFFICES ASSUME NEW p \in OperationIds,
                      sends[p] # 0 \/ \E d \in Calls : Sending(d, p)'
               PROVE  operations'[p].kind = "operation" /\ operations'[p].state \in Beyond
    BY <1>4 DEF SentIsDispatched
  <2>1. CASE p = o
    BY <1>2, <2>1 DEF Beyond
  <2>2. CASE p # o
    <3>1. operations[p].kind = "operation" /\ operations[p].state \in Beyond
      BY <1>5, <2>2 DEF DispatchInv, SentIsDispatched
    <3> QED
      BY <3>1, BeyondIsKept
  <2> QED
    BY <2>1, <2>2
<1>7. OneSender'
  <2>1. \A d, e \in Calls : \A p \in OperationIds : Sending(d, p)' /\ Sending(e, p)' => d = e
    BY <1>3, <1>5 DEF DispatchInv, OneSender
  <2>2. \A d \in Calls : \A p \in OperationIds : Sending(d, p)' => sends'[p] = 0
    BY <1>3, <1>4, <1>5 DEF DispatchInv, OneSender
  <2> QED
    BY <2>1, <2>2 DEF OneSender
<1>8. SentAtMostOnce'
  BY <1>4 DEF DispatchInv, SentAtMostOnce
<1> QED
  BY <1>6, <1>7, <1>8 DEF DispatchInv

\* The send itself: the call was the only one about to, and nobody had.
LEMMA SendStep ==
  ASSUME DispatchInv, TypeOK, ServiceTypeOK, NEW c \in Calls, pc[c] = "send", NoJournal,
         pc' = [pc EXCEPT ![c] = "await"], request' = request,
         sends' = [sends EXCEPT ![request[c].op] = @ + 1]
  PROVE  DispatchInv'
<1> DEFINE o == request[c].op
<1>0. o \in OperationIds /\ sends \in [OperationIds -> Nat]
  BY RequestsAssumption DEF ServiceTypeOK
<1>1. Sending(c, o) /\ sends[o] = 0
  BY <1>0 DEF Sending, DispatchInv, OneSender
<1>2. \A d \in Calls : \A p \in OperationIds : Sending(d, p)' => Sending(d, p) /\ p # o
  <2>1. \A d \in Calls : \A p \in OperationIds : Sending(d, p)' => Sending(d, p) /\ d # c
    BY DEF Sending, ServiceTypeOK
  <2> QED
    BY <1>0, <1>1, <2>1 DEF DispatchInv, OneSender
<1>3. \A p \in OperationIds : sends'[p] = IF p = o THEN 1 ELSE sends[p]
  BY <1>0, <1>1
<1>4. operations' = operations
  BY DEF NoJournal, vars, operationVars
<1>5. SentIsDispatched'
  <2> SUFFICES ASSUME NEW p \in OperationIds,
                      sends'[p] # 0 \/ \E d \in Calls : Sending(d, p)'
               PROVE  operations[p].kind = "operation" /\ operations[p].state \in Beyond
    BY <1>4 DEF SentIsDispatched
  <2>1. sends[p] # 0 \/ \E d \in Calls : Sending(d, p)
    BY <1>1, <1>2, <1>3
  <2> QED
    BY <2>1 DEF DispatchInv, SentIsDispatched
<1>6. OneSender'
  <2>1. \A d, e \in Calls : \A p \in OperationIds : Sending(d, p)' /\ Sending(e, p)' => d = e
    BY <1>2 DEF DispatchInv, OneSender
  <2>2. \A d \in Calls : \A p \in OperationIds : Sending(d, p)' => sends'[p] = 0
    BY <1>2, <1>3 DEF DispatchInv, OneSender
  <2> QED
    BY <2>1, <2>2 DEF OneSender
<1>7. SentAtMostOnce'
  BY <1>3 DEF DispatchInv, SentAtMostOnce
<1> QED
  BY <1>5, <1>6, <1>7 DEF DispatchInv

LEMMA CallKeepsDispatch ==
  ASSUME DispatchInv, TypeOK, ServiceTypeOK, [Next]_vars, NEW c \in Calls,
         CallStep(c) \/ Refuse(c) \/ ResolveUnavailable(c)
  PROVE  DispatchInv'
<1>0. request[c].op \in OperationIds
  BY RequestsAssumption DEF ServiceTypeOK
<1>1. ASSUME NEW state \in {"VALIDATED", "RESERVED", "DISPATCHED", "DOWNSTREAM_ACCEPTED",
                            "COMMITTED", "CANCELLED", "QUARANTINED", "FAILED"},
             TransitionOrStop(c, state)
      PROVE  DispatchInv'
  <2>1. CASE Goto(c, "idle")
    BY <2>1, GotoIsQuiet
  <2>2. CASE TransitionOperation(request[c].op, state) /\ Goto(c, AfterTransition(state))
    <3>1. CASE state = "DISPATCHED"
      <4>1. AfterTransition(state) = "send"
        BY <3>1, AfterTransitionStep
      <4> QED
        BY <2>2, <3>1, <4>1, DispatchStep
    <3>2. CASE state # "DISPATCHED"
      <4>1. AfterTransition(state) # "send"
        BY <3>2, AfterTransitionStep
      <4> QED
        BY <2>2, <4>1, GotoIsQuiet
    <3> QED
      BY <3>1, <3>2
  <2> QED
    BY <1>1, <2>1, <2>2 DEF TransitionOrStop
<1>2. CASE Advance(c)
  <2>1. pc[c] \in Steps \cap OperationState
    BY <1>2 DEF Advance, ServiceTypeOK
  <2> QED
    BY <1>1, <1>2, <2>1, AdvanceStates DEF Advance
<1>3. CASE Settle(c)
  BY <1>1, <1>3 DEF Settle
<1>4. CASE Send(c)
  BY <1>4, SendStep, GotoIsQuiet DEF Send
<1>5. CASE Begin(c)
  <2>1. AfterBegin(operations'[request[c].op]) # "send"
    BY AfterBeginStep
  <2> QED
    BY <1>5, <2>1, GotoIsQuiet DEF Begin
<1>6. CASE Await(c)
  <2>1. answer[request[c].op] # "none" => AfterAnswer(answer[request[c].op]) # "send"
    BY <1>0 DEF AfterAnswer, ServiceTypeOK
  <2> QED
    BY <1>6, <2>1, GotoIsQuiet DEF Await
<1>7. CASE Resolve(c)
  <2>1. AfterStatus(signer[request[c].op]) # "send"
    BY <1>0 DEF AfterStatus, ServiceTypeOK, SignerState
  <2> QED
    BY <1>7, <2>1, GotoIsQuiet DEF Resolve
<1>8. CASE Commit(c)
  <2>1. AfterSnapshot(operations[request[c].op].state) # "send"
    BY DEF AfterSnapshot
  <2> QED
    BY <1>8, <2>1, GotoIsQuiet DEF Commit
<1>9. CASE Check(c)
  BY <1>9, GotoIsQuiet DEF Check
<1>10. CASE Observe(c) \/ Authorize(c) \/ Finalize(c) \/ PublishSigned(c) \/ Refuse(c)
            \/ ResolveUnavailable(c)
  BY <1>10, GotoIsQuiet DEF Observe, Authorize, Finalize, PublishSigned, Refuse, ResolveUnavailable
<1> QED
  BY <1>2, <1>3, <1>4, <1>5, <1>6, <1>7, <1>8, <1>9, <1>10 DEF CallStep

LEMMA DispatchPreserved ==
  ASSUME DispatchInv, TypeOK, ServiceTypeOK, [ServiceNext]_allVars
  PROVE  DispatchInv'
<1>0. [Next]_vars
  BY StepImplements
<1>1. ASSUME NEW c \in Calls, CallStep(c) \/ Refuse(c) \/ ResolveUnavailable(c)
      PROVE  DispatchInv'
  BY <1>0, <1>1, CallKeepsDispatch
<1>2. ASSUME NEW c \in Calls, NEW r \in Requests, StartSign(c, r) \/ Cancel(c, r)
      PROVE  DispatchInv'
  <2>1. sends' = sends
    BY <1>2 DEF StartSign, Cancel
  <2>2. \A d \in Calls : pc'[d] = "send" => pc[d] = "send" /\ request'[d] = request[d]
    BY <1>2 DEF StartSign, Cancel, ServiceTypeOK
  <2>3. \A d \in Calls, o \in OperationIds : Sending(d, o)' => Sending(d, o)
    BY <2>2 DEF Sending
  <2> QED
    BY <1>0, <2>1, <2>3, QuietStep
<1>3. CASE \/ \E o \in OperationIds : SignerDecide(o)
           \/ \E a \in Approvals : Lapse(a)
           \/ Lifecycle \/ UNCHANGED allVars
  <2>1. pc' = pc /\ request' = request /\ sends' = sends
    BY <1>3 DEF SignerDecide, Lapse, Lifecycle, serviceVars, allVars
  <2>2. \A d \in Calls, o \in OperationIds : Sending(d, o)' => Sending(d, o)
    BY <2>1 DEF Sending
  <2> QED
    BY <1>0, <2>1, <2>2, QuietStep
<1>4. CASE Crash
  <2>1. sends' = sends
    BY <1>4 DEF Crash
  <2>2. \A d \in Calls, o \in OperationIds : Sending(d, o)' => Sending(d, o)
    BY <1>4 DEF Crash, Sending
  <2> QED
    BY <1>0, <2>1, <2>2, QuietStep
<1> QED
  BY <1>1, <1>2, <1>3, <1>4 DEF ServiceNext

LEMMA DispatchInvariant == ServiceSpec => []DispatchInv
<1>1. ServiceInit => DispatchInv
  <2> SUFFICES ASSUME ServiceInit PROVE DispatchInv
    OBVIOUS
  <2>1. \A c \in Calls : pc[c] # "send"
    BY DEF ServiceInit
  <2>2. \A o \in OperationIds : sends[o] = 0
    BY DEF ServiceInit
  <2> QED
    BY <2>1, <2>2 DEF DispatchInv, SentIsDispatched, OneSender, SentAtMostOnce, Sending
<1>2. ServiceSpec => []TypeOK
  BY ServiceImplementsJournal, TypeCorrect, PTL DEF ImplementsJournal
<1> QED
  BY <1>1, <1>2, DispatchPreserved, ServiceTypeCorrect, PTL DEF ServiceSpec

\* No operation is sent to the Signer twice, for any number of calls and
\* crashes: the first send follows the only transition to DISPATCHED.
THEOREM SentOnce == ServiceSpec => []SentAtMostOnce
BY DispatchInvariant, PTL DEF DispatchInv

\* Cancel and dispatch exclude each other: a cancelled operation has not been
\* sent and no call is about to send it.
THEOREM CancelBeatsDispatch == ServiceSpec => []CancelledIsNeverSent
<1>1. DispatchInv /\ ServiceTypeOK => CancelledIsNeverSent
  BY DEF DispatchInv, SentIsDispatched, CancelledIsNeverSent, Beyond, Sending, ServiceTypeOK
<1> QED
  BY <1>1, DispatchInvariant, ServiceTypeCorrect, PTL
-----------------------------------------------------------------------------
(* Outcomes.  What a call believes the Signer decided, what the journal        *)
(* records of it and what the ledger charges for it are the Signer's decision, *)
(* because a decision, once made, stands.                                      *)

DidSign(o) == signer[o] = "succeeded"
Unclear(o) == signer[o] = "quarantined"

\* The request was sent, the Signer has handled it and it did not sign.
Refused(o) == sends[o] # 0 /\ o \notin wire /\ signer[o] \in {"none", "failed"}

\* The Signer decides and answers only what was sent, and each request once.
SignerHandlesSent ==
  \A o \in OperationIds :
    /\ (signer[o] # "none" \/ answer[o] # "none" \/ o \in wire) => sends[o] # 0
    /\ o \in wire => signer[o] = "none" /\ answer[o] = "none"

AnswerAgrees ==
  \A o \in OperationIds :
    /\ answer[o] = "succeeded" => DidSign(o)
    /\ answer[o] = "quarantined" => Unclear(o)
    /\ answer[o] = "refused" => Refused(o)

\* The steps of sign() after begin_sign_attempt accepted the request.
Begun ==
  {"VALIDATED", "RESERVED", "DISPATCHED", "DOWNSTREAM_ACCEPTED", "COMMITTED", "send", "await",
   "resolve", "commit", "publish", "check_quarantine", "quarantine", "check_fail", "fail",
   "finalize_QUARANTINED", "finalize_RELEASED"}

\* What a call at a step of sign(), on operation o of approval a, relies on: past
\* its begin the row is the one of its approval, and what the step says of the
\* Signer's decision is so.
Claims(step, o, a) ==
  /\ step \in Begun => operations[o].approval = a
  /\ step \in {"commit", "DOWNSTREAM_ACCEPTED", "COMMITTED", "publish"} => DidSign(o)
  /\ step \in {"check_quarantine", "quarantine", "finalize_QUARANTINED"} => Unclear(o)
  /\ step \in {"check_fail", "fail", "finalize_RELEASED"} => Refused(o)
  /\ step = "begin" => reservations[a][o].state # "ABSENT"

CallAgrees == \A c \in Calls : Claims(pc[c], request[c].op, request[c].approval)

RowAgrees ==
  \A o \in OperationIds :
    /\ operations[o].result # None => DidSign(o) /\ operations[o].result = SignerResult[o]
    /\ operations[o].state = "FAILED" => Refused(o)
    /\ operations[o].state = "QUARANTINED" => Unclear(o) /\ operations[o].approval \in Approvals

\* A signing operation has a ledger row; the row leaves RESERVED the way the
\* Signer decided.
LedgerAgrees ==
  \A a \in Approvals, o \in OperationIds :
    /\ operations[o].approval = a =>
         operations[o].kind = "operation" /\ reservations[a][o].state # "ABSENT"
    /\ reservations[a][o].state = "COMMITTED" => DidSign(o)
    /\ reservations[a][o].state = "RELEASED" => Refused(o)
    /\ reservations[a][o].state = "QUARANTINED" => Unclear(o)

OutcomeInv == SignerHandlesSent /\ AnswerAgrees /\ CallAgrees /\ RowAgrees /\ LedgerAgrees

\* A decision stands, and a bound row and a reservation stay.
Stands ==
  \A o \in OperationIds :
    /\ DidSign(o) => DidSign(o)'
    /\ Unclear(o) => Unclear(o)'
    /\ Refused(o) => Refused(o)'

Kept ==
  \A a \in Approvals, o \in OperationIds :
    /\ operations[o].approval = a =>
         operations'[o].approval = a /\ operations'[o].kind = operations[o].kind
    /\ reservations[a][o].state # "ABSENT" => reservations'[a][o].state # "ABSENT"

LEMMA JournalKeeps ==
  ASSUME TypeOK, PublicationInv, LedgerAgrees, [Next]_vars
  PROVE  Kept
<1> SUFFICES ASSUME NEW a \in Approvals, NEW o \in OperationIds
             PROVE  /\ operations[o].approval = a =>
                         operations'[o].approval = a /\ operations'[o].kind = operations[o].kind
                    /\ reservations[a][o].state # "ABSENT" => reservations'[a][o].state # "ABSENT"
  BY DEF Kept
<1>1. operations[o].approval = a => operations'[o].approval = a /\ operations'[o].kind = operations[o].kind
  BY BoundColumns DEF LedgerAgrees
<1>2. reservations[a][o].state # "ABSENT" => reservations'[a][o].state # "ABSENT"
  <2>1. CASE UNCHANGED reservations
    BY <2>1
  <2>2. ASSUME NEW b \in Approvals, NEW p \in OperationIds, NEW d \in Digests,
               NEW charge \in Charges, NEW at \in 1..MaxTime, Reserve(b, p, d, charge, at)
        PROVE  reservations[a][o].state # "ABSENT" => reservations'[a][o].state # "ABSENT"
    BY <2>2, ReservedRow
  <2>3. ASSUME NEW b \in Approvals, NEW p \in OperationIds,
               NEW s \in {"RELEASED", "QUARANTINED", "COMMITTED"}, Finalized(b, p, s)
        PROVE  reservations[a][o].state # "ABSENT" => reservations'[a][o].state # "ABSENT"
    <3>1. /\ \A e \in Approvals, q \in OperationIds :
                e # b \/ q # p => reservations'[e][q] = reservations[e][q]
          /\ reservations'[b][p] = [reservations[b][p] EXCEPT !.state = s]
          /\ reservations[b][p] \in ReservationRow
      BY <2>3, FinalizedRow
    <3>2. reservations'[b][p].state # "ABSENT"
      BY <3>1 DEF ReservationRow
    <3> QED
      BY <3>1, <3>2
  <2> QED
    BY <2>1, <2>2, <2>3, LedgerChanges
<1> QED
  BY <1>1, <1>2

LEMMA ClaimsStand ==
  ASSUME Stands, Kept, NEW step, NEW o \in OperationIds, NEW a \in Approvals, Claims(step, o, a)
  PROVE  Claims(step, o, a)'
BY DEF Stands, Kept, Claims

\* What a step may do to an operation's row and to the ledger.
RowsChangeRightly ==
  \A o \in OperationIds :
    /\ operations'[o].result # operations[o].result =>
         DidSign(o) /\ operations'[o].result = SignerResult[o]
    /\ operations'[o].state = "FAILED" => operations[o].state = "FAILED" \/ Refused(o)
    /\ operations'[o].state = "QUARANTINED" =>
         \/ operations[o].state = "QUARANTINED"
         \/ Unclear(o) /\ operations[o].approval \in Approvals
    /\ \A a \in Approvals :
         operations'[o].approval = a =>
           \/ operations[o].approval = a
           \/ operations'[o].kind = "operation" /\ reservations[a][o].state # "ABSENT"

LedgerChangesRightly ==
  \A a \in Approvals, o \in OperationIds :
    reservations'[a][o].state # reservations[a][o].state =>
      /\ reservations'[a][o].state = "COMMITTED" => DidSign(o)
      /\ reservations'[a][o].state = "RELEASED" => Refused(o)
      /\ reservations'[a][o].state = "QUARANTINED" => Unclear(o)

LEMMA TablesAgree ==
  ASSUME RowAgrees, LedgerAgrees, Stands, Kept, RowsChangeRightly, LedgerChangesRightly
  PROVE  RowAgrees' /\ LedgerAgrees'
<1>1. RowAgrees'
  <2> SUFFICES ASSUME NEW o \in OperationIds
               PROVE  /\ operations'[o].result # None =>
                           DidSign(o)' /\ operations'[o].result = SignerResult[o]
                      /\ operations'[o].state = "FAILED" => Refused(o)'
                      /\ operations'[o].state = "QUARANTINED" =>
                           Unclear(o)' /\ operations'[o].approval \in Approvals
    BY DEF RowAgrees
  <2>1. operations'[o].result # None => DidSign(o)' /\ operations'[o].result = SignerResult[o]
    BY DEF RowAgrees, RowsChangeRightly, Stands
  <2>2. operations'[o].state = "FAILED" => Refused(o)'
    BY DEF RowAgrees, RowsChangeRightly, Stands
  <2>3. operations'[o].state = "QUARANTINED" => Unclear(o)' /\ operations'[o].approval \in Approvals
    BY DEF RowAgrees, RowsChangeRightly, Stands, Kept
  <2> QED
    BY <2>1, <2>2, <2>3
<1>2. LedgerAgrees'
  <2> SUFFICES ASSUME NEW a \in Approvals, NEW o \in OperationIds
               PROVE  /\ operations'[o].approval = a =>
                           operations'[o].kind = "operation" /\ reservations'[a][o].state # "ABSENT"
                      /\ reservations'[a][o].state = "COMMITTED" => DidSign(o)'
                      /\ reservations'[a][o].state = "RELEASED" => Refused(o)'
                      /\ reservations'[a][o].state = "QUARANTINED" => Unclear(o)'
    BY DEF LedgerAgrees
  <2>1. operations'[o].approval = a =>
          operations'[o].kind = "operation" /\ reservations'[a][o].state # "ABSENT"
    BY DEF LedgerAgrees, RowsChangeRightly, Kept
  <2>2. /\ reservations'[a][o].state = "COMMITTED" => DidSign(o)'
        /\ reservations'[a][o].state = "RELEASED" => Refused(o)'
        /\ reservations'[a][o].state = "QUARANTINED" => Unclear(o)'
    BY DEF LedgerAgrees, LedgerChangesRightly, Stands
  <2> QED
    BY <2>1, <2>2
<1> QED
  BY <1>1, <1>2

\* A step of one call that leaves the Signer alone: the rows change rightly and
\* the call's next step claims what is so.
LEMMA CallStepAgrees ==
  ASSUME OutcomeInv, TypeOK, PublicationInv, ServiceTypeOK, [Next]_vars,
         NEW c \in Calls, NEW step, Goto(c, step),
         RowsChangeRightly, LedgerChangesRightly,
         Kept => Claims(step, request[c].op, request[c].approval)'
  PROVE  OutcomeInv'
<1>0. UNCHANGED <<request, signer, wire, answer, sends>>
  BY DEF Goto
<1>1. Stands
  BY <1>0 DEF Stands, DidSign, Unclear, Refused
<1>2. Kept
  BY JournalKeeps DEF OutcomeInv
<1>3. SignerHandlesSent' /\ AnswerAgrees'
  BY <1>0 DEF OutcomeInv, SignerHandlesSent, AnswerAgrees, DidSign, Unclear, Refused
<1>4. RowAgrees' /\ LedgerAgrees'
  BY <1>1, <1>2, TablesAgree DEF OutcomeInv
<1>5. CallAgrees'
  <2> SUFFICES ASSUME NEW d \in Calls
               PROVE  Claims(pc[d], request[d].op, request[d].approval)'
    BY DEF CallAgrees
  <2> USE DEF DidSign, Unclear, Refused
  <2>1. request[d].op \in OperationIds /\ request[d].approval \in Approvals
    BY RequestsAssumption DEF ServiceTypeOK
  <2>2. CASE d = c
    <3>1. pc'[c] = step
      BY DEF Goto, ServiceTypeOK
    <3> QED
      BY <1>2, <2>2, <3>1 DEF Claims
  <2>3. CASE d # c
    <3>1. pc'[d] = pc[d]
      BY <2>3 DEF Goto, ServiceTypeOK
    <3>2. Claims(pc[d], request[d].op, request[d].approval)
      BY DEF OutcomeInv, CallAgrees
    <3> QED
      BY <1>0, <1>2, <2>1, <3>1, <3>2 DEF Claims, Kept
  <2> QED
    BY <2>2, <2>3
<1> QED
  BY <1>3, <1>4, <1>5 DEF OutcomeInv

\* A step that reads, waits or refuses.
LEMMA ReadingAgrees ==
  ASSUME OutcomeInv, TypeOK, PublicationInv, ServiceTypeOK, [Next]_vars,
         UNCHANGED <<operations, reservations>>,
         NEW c \in Calls, NEW step, Goto(c, step),
         Claims(step, request[c].op, request[c].approval)
  PROVE  OutcomeInv'
<1>1. RowsChangeRightly /\ LedgerChangesRightly
  BY DEF RowsChangeRightly, LedgerChangesRightly, OutcomeInv, RowAgrees
<1>2. Claims(step, request[c].op, request[c].approval)'
  BY DEF Goto, Claims, DidSign, Unclear, Refused
<1> QED
  BY <1>1, <1>2, CallStepAgrees

LEMMA IdleClaims ==
  ASSUME NEW step \in {"idle", "observe", "authorize", "CANCELLED"}, NEW o, NEW a
  PROVE  Claims(step, o, a) /\ Claims(step, o, a)'
BY DEF Claims, Begun

LEMMA AuthorizeAgrees ==
  ASSUME OutcomeInv, TypeOK, PublicationInv, ServiceTypeOK, [Next]_vars,
         NEW c \in Calls, Authorize(c)
  PROVE  OutcomeInv'
<1> DEFINE r == request[c]
<1>0. r.op \in OperationIds /\ r.approval \in Approvals
  BY RequestsAssumption DEF ServiceTypeOK
<1>1. Goto(c, "begin")
  BY DEF Authorize
<1>2. CASE NoJournal /\ reservations[r.approval][r.op].state = "RESERVED"
  <2>1. Claims("begin", r.op, r.approval)
    BY <1>2 DEF Claims, Begun
  <2>2. UNCHANGED <<operations, reservations>>
    BY <1>2 DEF NoJournal, vars, operationVars
  <2> QED
    BY <1>1, <2>1, <2>2, ReadingAgrees
<1>3. ASSUME NEW at \in 1..MaxTime, Reserve(r.approval, r.op, r.digest, r.charge, at)
      PROVE  OutcomeInv'
  <2>1. operations' = operations
    BY <1>3 DEF Reserve, operationVars
  <2>2. /\ \A b \in Approvals, p \in OperationIds :
             b # r.approval \/ p # r.op => reservations'[b][p] = reservations[b][p]
        /\ reservations'[r.approval][r.op].state = "RESERVED"
    <3> DEFINE a == r.approval
               o == r.op
               d == r.digest
               charge == r.charge
    <3>1. a \in Approvals /\ o \in OperationIds /\ Reserve(a, o, d, charge, at)
      BY <1>0, <1>3
    <3> HIDE DEF a, o, d, charge
    <3>2. /\ \A b \in Approvals, p \in OperationIds :
               b # a \/ p # o => reservations'[b][p] = reservations[b][p]
          /\ reservations'[a][o] =
               [state |-> "RESERVED", digest |-> d, charge |-> charge, at |-> at]
      BY <3>1, ReservedRow
    <3> QED
      BY <3>2 DEF a, o
  <2>3. RowsChangeRightly
    BY <2>1 DEF RowsChangeRightly, OutcomeInv, RowAgrees
  <2>4. LedgerChangesRightly
    BY <2>2 DEF LedgerChangesRightly
  <2>5. Claims("begin", r.op, r.approval)'
    BY <1>1, <2>2 DEF Claims, Begun, Goto
  <2> QED
    BY <1>1, <2>3, <2>4, <2>5, CallStepAgrees
<1> QED
  BY <1>2, <1>3 DEF Authorize

\* begin_sign_attempt binds the id to an approval that has reserved for it.
LEMMA BeginAgrees ==
  ASSUME OutcomeInv, TypeOK, PublicationInv, ServiceTypeOK, [Next]_vars,
         NEW c \in Calls, Begin(c)
  PROVE  OutcomeInv'
<1> DEFINE r == request[c]
           next == AfterBegin(operations'[r.op])
<1>0. /\ r.op \in OperationIds /\ r.approval \in Approvals
      /\ operations \in [OperationIds -> OperationRow]
  BY RequestsAssumption DEF ServiceTypeOK, TypeOK
<1>1. reservations[r.approval][r.op].state # "ABSENT"
  BY DEF Begin, OutcomeInv, CallAgrees, Claims
<1>2. CASE NoJournal /\ Goto(c, "idle")
  <2>1. UNCHANGED <<operations, reservations>>
    BY <1>2 DEF NoJournal, vars, operationVars
  <2> QED
    BY <1>2, <2>1, IdleClaims, ReadingAgrees
<1>3. next \in {"idle", "VALIDATED", "RESERVED", "DISPATCHED", "resolve"}
  BY AfterBeginStep
<1>4. ASSUME NEW envelope \in Envelopes, Goto(c, next),
             BeginRetry(r.op, r.approval, r.digest, r.fields, r.batch, c, envelope)
      PROVE  OutcomeInv'
  <2>1. UNCHANGED <<operations, reservations>> /\ operations[r.op].approval = r.approval
    BY <1>4 DEF BeginRetry, CanRetry
  <2>2. Claims(next, r.op, r.approval)
    BY <1>3, <2>1 DEF Claims
  <2> HIDE DEF next
  <2> QED
    BY <1>4, <2>1, <2>2, ReadingAgrees
<1>5. ASSUME NEW envelope \in Envelopes, Goto(c, next),
             BeginFresh(r.op, r.approval, r.digest, r.fields, r.batch, c, envelope)
      PROVE  OutcomeInv'
  <2>1. operations[r.op].kind = "absent" /\ reservations' = reservations
    BY <1>5 DEF BeginFresh
  <2>2. operations[r.op].result = None
    BY <1>0, <2>1 DEF PublicationInv, OnlyOperationsPublish
  <2>3. /\ operations'[r.op].result = None /\ operations'[r.op].state = "RECEIVED"
        /\ operations'[r.op].approval = r.approval /\ operations'[r.op].kind = "operation"
        /\ \A p \in OperationIds : p # r.op => operations'[p] = operations[p]
    BY <1>0, <1>5 DEF BeginFresh
  <2>4. RowsChangeRightly
    BY <1>1, <2>2, <2>3 DEF RowsChangeRightly, OutcomeInv, RowAgrees
  <2>5. LedgerChangesRightly
    BY <2>1 DEF LedgerChangesRightly
  <2>6. PICK step : step = next
    OBVIOUS
  <2>7. Goto(c, step) /\ Claims(step, r.op, r.approval)'
    BY <1>3, <1>5, <2>3, <2>6 DEF Claims, Goto
  <2> QED
    BY <2>4, <2>5, <2>7, CallStepAgrees
<1> QED
  BY <1>2, <1>4, <1>5 DEF Begin, BeginSignAttempt

\* A transition of the operation's row: to FAILED and QUARANTINED only a call
\* goes that knows the Signer's decision.
LEMMA TransitionAgrees ==
  ASSUME OutcomeInv, TypeOK, PublicationInv, ServiceTypeOK, [Next]_vars,
         NEW c \in Calls,
         NEW state \in {"VALIDATED", "RESERVED", "DISPATCHED", "DOWNSTREAM_ACCEPTED",
                        "COMMITTED", "CANCELLED", "QUARANTINED", "FAILED"},
         TransitionOrStop(c, state),
         state # "CANCELLED" => operations[request[c].op].approval = request[c].approval,
         state \in {"DOWNSTREAM_ACCEPTED", "COMMITTED"} => DidSign(request[c].op),
         state = "QUARANTINED" => Unclear(request[c].op),
         state = "FAILED" => Refused(request[c].op)
  PROVE  OutcomeInv'
<1> DEFINE o == request[c].op
           a == request[c].approval
<1>0. /\ o \in OperationIds /\ a \in Approvals
      /\ operations \in [OperationIds -> OperationRow]
  BY RequestsAssumption DEF ServiceTypeOK, TypeOK
<1>1. CASE NoJournal /\ Goto(c, "idle")
  <2>1. UNCHANGED <<operations, reservations>>
    BY <1>1 DEF NoJournal, vars, operationVars
  <2> QED
    BY <1>1, <2>1, IdleClaims, ReadingAgrees
<1>2. CASE TransitionOperation(o, state) /\ Goto(c, AfterTransition(state))
  <2>1. reservations' = reservations /\ operations' = [operations EXCEPT ![o].state = state]
    BY <1>2 DEF TransitionOperation
  <2>2. /\ operations'[o] = [operations[o] EXCEPT !.state = state]
        /\ \A p \in OperationIds : p # o => operations'[p] = operations[p]
    BY <1>0, <2>1
  <2>3. /\ operations'[o].result = operations[o].result /\ operations'[o].state = state
        /\ operations'[o].approval = operations[o].approval
    BY <1>0, <2>2 DEF OperationRow
  <2>4. RowsChangeRightly
    <3> HIDE DEF o, a
    <3> SUFFICES ASSUME NEW p \in OperationIds
                 PROVE  /\ operations'[p].result = operations[p].result
                        /\ operations'[p].state = "FAILED" =>
                             operations[p].state = "FAILED" \/ Refused(p)
                        /\ operations'[p].state = "QUARANTINED" =>
                             \/ operations[p].state = "QUARANTINED"
                             \/ Unclear(p) /\ operations[p].approval \in Approvals
                        /\ operations'[p].approval = operations[p].approval
      BY DEF RowsChangeRightly
    <3>1. CASE p = o
      BY <1>0, <2>3, <3>1 DEF o, a
    <3>2. CASE p # o
      BY <2>2, <3>2
    <3> QED
      BY <3>1, <3>2
  <2>5. LedgerChangesRightly
    BY <2>1 DEF LedgerChangesRightly
  <2>6. PICK step : step = AfterTransition(state)
    OBVIOUS
  <2>7. Claims(step, o, a)'
    <3>1. UNCHANGED <<request, signer, wire, sends>>
      BY <1>2 DEF Goto
    <3> QED
      BY <2>3, <2>6, <3>1 DEF Claims, AfterTransition, Begun, DidSign, Unclear, Refused
  <2> QED
    BY <1>2, <2>4, <2>5, <2>6, <2>7, CallStepAgrees
<1> QED
  BY <1>1, <1>2 DEF TransitionOrStop

\* The ledger row of the operation leaves RESERVED.
LEMMA LedgerRowAgrees ==
  ASSUME OutcomeInv, NEW a \in Approvals, NEW o \in OperationIds, NEW s,
         TypeOK, Finalized(a, o, s),
         s = "COMMITTED" => DidSign(o), s = "RELEASED" => Refused(o),
         s = "QUARANTINED" => Unclear(o)
  PROVE  LedgerChangesRightly
<1>1. /\ \A b \in Approvals, p \in OperationIds :
           b # a \/ p # o => reservations'[b][p] = reservations[b][p]
      /\ reservations'[a][o] = [reservations[a][o] EXCEPT !.state = s]
      /\ reservations[a][o] \in ReservationRow
  BY FinalizedRow
<1>2. reservations'[a][o].state = s
  BY <1>1 DEF ReservationRow
<1> QED
  BY <1>1, <1>2 DEF LedgerChangesRightly

LEMMA FinalizeAgrees ==
  ASSUME OutcomeInv, TypeOK, PublicationInv, ServiceTypeOK, [Next]_vars,
         NEW c \in Calls, Finalize(c)
  PROVE  OutcomeInv'
<1> DEFINE o == request[c].op
           a == request[c].approval
<1>0. o \in OperationIds /\ a \in Approvals
  BY RequestsAssumption DEF ServiceTypeOK
<1>1. PICK next \in {"QUARANTINED", "RELEASED"} :
        /\ pc[c] = AfterTransition(IF next = "RELEASED" THEN "FAILED" ELSE next)
        /\ \/ FinalizeReservation(a, o, next)
           \/ reservations[a][o].state # "RESERVED" /\ NoJournal
        /\ Goto(c, "idle")
  BY DEF Finalize
<1>2. (next = "RELEASED" => Refused(o)) /\ (next = "QUARANTINED" => Unclear(o))
  BY <1>1 DEF AfterTransition, OutcomeInv, CallAgrees, Claims
<1>3. CASE NoJournal
  <2>1. UNCHANGED <<operations, reservations>>
    BY <1>3 DEF NoJournal, vars, operationVars
  <2> QED
    BY <1>1, <2>1, IdleClaims, ReadingAgrees
<1>4. CASE FinalizeReservation(a, o, next)
  <2>1. operations' = operations /\ Finalized(a, o, next)
    BY <1>4 DEF FinalizeReservation, operationVars, Finalized
  <2>2. RowsChangeRightly
    BY <2>1 DEF RowsChangeRightly, OutcomeInv, RowAgrees
  <2>3. LedgerChangesRightly
    <3> HIDE DEF o, a
    <3> QED
      BY <1>0, <1>2, <2>1, LedgerRowAgrees
  <2> QED
    BY <1>1, <2>2, <2>3, IdleClaims, CallStepAgrees
<1> QED
  BY <1>1, <1>3, <1>4

LEMMA PublishAgrees ==
  ASSUME OutcomeInv, TypeOK, PublicationInv, ServiceTypeOK, [Next]_vars,
         NEW c \in Calls, PublishSigned(c)
  PROVE  OutcomeInv'
<1> DEFINE o == request[c].op
           a == request[c].approval
           result == SignerResult[o]
<1>0. /\ o \in OperationIds /\ a \in Approvals /\ result \in Results
      /\ operations \in [OperationIds -> OperationRow]
  BY RequestsAssumption DEF ServiceTypeOK, TypeOK
<1>1. DidSign(o) /\ Goto(c, "idle")
  BY DEF PublishSigned, OutcomeInv, CallAgrees, Claims
<1>2. CASE NoJournal
  <2>1. UNCHANGED <<operations, reservations>>
    BY <1>2 DEF NoJournal, vars, operationVars
  <2> QED
    BY <1>1, <2>1, IdleClaims, ReadingAgrees
<1>3. ASSUME NEW n, NEW event, Publish(a, o, result, n, event),
             reservations[a][o].state = "RESERVED"
      PROVE  OutcomeInv'
  <2>1. Finalized(a, o, "COMMITTED")
    BY <1>3 DEF Publish, Finalized
  <2>2. LedgerChangesRightly
    <3> HIDE DEF o, a
    <3> QED
      BY <1>0, <1>1, <2>1, LedgerRowAgrees
  <2>3. /\ operations'[o] = [operations[o] EXCEPT !.state = "SUCCEEDED", !.result = result]
        /\ \A p \in OperationIds : p # o => operations'[p] = operations[p]
    BY <1>0, <1>3 DEF Publish
  <2>4. /\ operations'[o].result = result /\ operations'[o].state = "SUCCEEDED"
        /\ operations'[o].approval = operations[o].approval
    <3>1. operations[o] \in OperationRow
      BY <1>0
    <3> HIDE DEF o, a, result
    <3> QED
      BY <2>3, <3>1 DEF OperationRow
  <2>5. RowsChangeRightly
    BY <1>1, <2>3, <2>4 DEF RowsChangeRightly, OutcomeInv, RowAgrees
  <2> QED
    BY <1>1, <2>2, <2>5, IdleClaims, CallStepAgrees
<1> QED
  BY <1>2, <1>3 DEF PublishSigned, PublishResult, PublishBatch, CanPublish

LEMMA CallKeepsOutcome ==
  ASSUME OutcomeInv, TypeOK, PublicationInv, ServiceTypeOK, [Next]_vars, NEW c \in Calls,
         \/ CallStep(c) /\ ~(Send(c) /\ pc'[c] = "await")
         \/ Refuse(c) \/ ResolveUnavailable(c)
  PROVE  OutcomeInv'
<1> DEFINE o == request[c].op
           a == request[c].approval
<1>0. o \in OperationIds /\ a \in Approvals
  BY RequestsAssumption DEF ServiceTypeOK
<1>1. Claims(pc[c], o, a)
  BY DEF OutcomeInv, CallAgrees
<1>2. NoJournal => UNCHANGED <<operations, reservations>>
  BY DEF NoJournal, vars, operationVars
<1>3. CASE Observe(c)
  <2>1. UNCHANGED <<operations, reservations>> /\ Goto(c, "authorize")
    BY <1>2, <1>3 DEF Observe, ObserveTime, operationVars
  <2> QED
    BY <2>1, IdleClaims, ReadingAgrees
<1>4. CASE Authorize(c)
  BY <1>4, AuthorizeAgrees
<1>5. CASE Begin(c)
  BY <1>5, BeginAgrees
<1>6. CASE Advance(c)
  <2>1. pc[c] \in {"VALIDATED", "RESERVED", "DISPATCHED", "DOWNSTREAM_ACCEPTED",
                   "COMMITTED", "CANCELLED"}
    BY <1>6, AdvanceStates DEF Advance, ServiceTypeOK
  <2>2. PICK state \in {"VALIDATED", "RESERVED", "DISPATCHED", "DOWNSTREAM_ACCEPTED",
                        "COMMITTED", "CANCELLED"} : state = pc[c]
    BY <2>1
  <2>3. TransitionOrStop(c, state)
    BY <1>6, <2>2 DEF Advance, TransitionOrStop, TransitionOperation, Goto
  <2>4. /\ state # "CANCELLED" => operations[o].approval = a
        /\ state \in {"DOWNSTREAM_ACCEPTED", "COMMITTED"} => DidSign(o)
    BY <1>1, <2>2 DEF Claims, Begun
  <2> QED
    BY <2>2, <2>3, <2>4, TransitionAgrees
<1>7. CASE Settle(c)
  <2>1. CASE pc[c] = "quarantine" /\ TransitionOrStop(c, "QUARANTINED")
    <3>1. operations[o].approval = a /\ Unclear(o)
      BY <1>1, <2>1 DEF Claims, Begun
    <3> QED
      BY <2>1, <3>1, TransitionAgrees
  <2>2. CASE pc[c] = "fail" /\ TransitionOrStop(c, "FAILED")
    <3>1. operations[o].approval = a /\ Refused(o)
      BY <1>1, <2>2 DEF Claims, Begun
    <3> QED
      BY <2>2, <3>1, TransitionAgrees
  <2> QED
    BY <1>7, <2>1, <2>2 DEF Settle
<1>8. ASSUME NEW step \in {"idle", "resolve"}, NoJournal, Goto(c, step),
             step = "resolve" => pc[c] \in {"send", "await"}
      PROVE  OutcomeInv'
  <2>1. Claims(step, o, a)
    BY <1>1, <1>8 DEF Claims, Begun
  <2> QED
    BY <1>2, <1>8, <2>1, ReadingAgrees
<1>9. CASE Send(c) /\ pc'[c] # "await"
  BY <1>8, <1>9 DEF Send, ServiceTypeOK
<1>10. CASE Await(c)
  <2>1. CASE Goto(c, "resolve")
    BY <1>8, <1>10, <2>1 DEF Await
  <2>2. CASE answer[o] # "none" /\ Goto(c, AfterAnswer(answer[o]))
    <3>1. /\ answer[o] \in {"succeeded", "quarantined", "refused"}
          /\ pc[c] = "await" /\ UNCHANGED <<operations, reservations>>
      BY <1>0, <1>2, <1>10, <2>2 DEF Await, ServiceTypeOK
    <3>2. Claims(AfterAnswer(answer[o]), o, a)
      <4>1. operations[o].approval = a
        BY <1>1, <3>1 DEF Claims, Begun
      <4>2. /\ answer[o] = "succeeded" => DidSign(o)
            /\ answer[o] = "quarantined" => Unclear(o)
            /\ answer[o] = "refused" => Refused(o)
        BY <1>0 DEF OutcomeInv, AnswerAgrees
      <4> QED
        BY <3>1, <4>1, <4>2 DEF AfterAnswer, Claims
    <3>3. PICK step : step = AfterAnswer(answer[o])
      OBVIOUS
    <3> QED
      BY <2>2, <3>1, <3>2, <3>3, ReadingAgrees
  <2> QED
    BY <1>10, <2>1, <2>2 DEF Await
<1>11. CASE Resolve(c)
  <2>1. /\ pc[c] = "resolve" /\ UNCHANGED <<operations, reservations>>
        /\ Goto(c, AfterStatus(signer[o])) /\ signer[o] \in SignerState
    BY <1>0, <1>2, <1>11 DEF Resolve, ServiceTypeOK
  <2>2. signer[o] = "failed" => Refused(o)
    BY <1>0 DEF OutcomeInv, SignerHandlesSent, Refused
  <2>3. operations[o].approval = a
    BY <1>1, <2>1 DEF Claims, Begun
  <2>4. PICK step : step = AfterStatus(signer[o])
    OBVIOUS
  <2>5. Claims(step, o, a)
    BY <2>1, <2>2, <2>3, <2>4 DEF AfterStatus, SignerState, Claims, DidSign, Unclear, Begun
  <2> QED
    BY <2>1, <2>4, <2>5, ReadingAgrees
<1>12. CASE Check(c)
  <2>1. CASE pc[c] = "check_quarantine"
    <3>1. PICK step \in {"finalize_QUARANTINED", "quarantine"} : Goto(c, step)
      BY <1>12, <2>1 DEF Check
    <3>2. Claims(step, o, a)
      BY <1>1, <2>1 DEF Claims, Begun
    <3> QED
      BY <1>2, <1>12, <3>1, <3>2, ReadingAgrees DEF Check
  <2>2. CASE pc[c] = "check_fail"
    <3>1. PICK step \in {"finalize_RELEASED", "fail"} : Goto(c, step)
      BY <1>12, <2>2 DEF Check
    <3>2. Claims(step, o, a)
      BY <1>1, <2>2 DEF Claims, Begun
    <3> QED
      BY <1>2, <1>12, <3>1, <3>2, ReadingAgrees DEF Check
  <2> QED
    BY <1>12, <2>1, <2>2 DEF Check
<1>13. CASE Finalize(c)
  BY <1>13, FinalizeAgrees
<1>14. CASE Commit(c)
  <2>1. PICK step \in {"idle", "DOWNSTREAM_ACCEPTED", "COMMITTED", "publish"} : Goto(c, step)
    BY <1>14 DEF Commit, AfterSnapshot
  <2>2. Claims(step, o, a)
    BY <1>1, <1>14 DEF Claims, Begun, Commit
  <2> QED
    BY <1>2, <1>14, <2>1, <2>2, ReadingAgrees DEF Commit
<1>15. CASE PublishSigned(c)
  BY <1>15, PublishAgrees
<1>16. CASE Refuse(c) \/ ResolveUnavailable(c)
  BY <1>8, <1>16 DEF Refuse, ResolveUnavailable
<1> QED
  BY <1>3, <1>4, <1>5, <1>6, <1>7, <1>9, <1>10, <1>11, <1>12, <1>13, <1>14, <1>15, <1>16
  DEF CallStep

\* A step that leaves operations and ledger alone and moves no call into a claim.
LEMMA OutsideAgrees ==
  ASSUME OutcomeInv, ServiceTypeOK, Stands, SignerHandlesSent', AnswerAgrees',
         UNCHANGED <<operations, reservations>>,
         \A c \in Calls :
           \/ pc'[c] \in {"idle", "observe", "CANCELLED"}
           \/ pc'[c] = "await" /\ pc[c] = "send" /\ request'[c] = request[c]
           \/ pc'[c] = pc[c] /\ request'[c] = request[c]
  PROVE  OutcomeInv'
<1>1. RowAgrees' /\ LedgerAgrees'
  <2>1. RowsChangeRightly /\ LedgerChangesRightly /\ Kept
    BY DEF RowsChangeRightly, LedgerChangesRightly, Kept, OutcomeInv, RowAgrees
  <2> QED
    BY <2>1, TablesAgree DEF OutcomeInv
<1>2. CallAgrees'
  <2> SUFFICES ASSUME NEW c \in Calls
               PROVE  Claims(pc[c], request[c].op, request[c].approval)'
    BY DEF CallAgrees
  <2>1. CASE pc'[c] \in {"idle", "observe", "CANCELLED"}
    BY <2>1 DEF Claims, Begun
  <2>2. CASE request'[c] = request[c] /\ (pc'[c] = pc[c] \/ (pc[c] = "send" /\ pc'[c] = "await"))
    <3>1. request[c].op \in OperationIds /\ Claims(pc[c], request[c].op, request[c].approval)
      BY RequestsAssumption DEF OutcomeInv, CallAgrees, ServiceTypeOK
    <3> QED
      BY <2>2, <3>1 DEF Claims, Begun, Stands, DidSign, Unclear, Refused
  <2> QED
    BY <2>1, <2>2
<1> QED
  BY <1>1, <1>2 DEF OutcomeInv

\* The send: nothing was decided of an operation that nobody had sent.
LEMMA SendAgrees ==
  ASSUME OutcomeInv, DispatchInv, ServiceTypeOK, NEW c \in Calls, Send(c), pc'[c] = "await"
  PROVE  OutcomeInv'
<1> DEFINE o == request[c].op
<1>0. o \in OperationIds /\ sends \in [OperationIds -> Nat]
  BY RequestsAssumption DEF ServiceTypeOK
<1>1. /\ pc[c] = "send" /\ pc' = [pc EXCEPT ![c] = "await"]
      /\ wire' = wire \cup {o} /\ sends' = [sends EXCEPT ![o] = @ + 1]
      /\ UNCHANGED <<request, signer, answer, operations, reservations>>
  BY DEF Send, Goto, ServiceTypeOK, NoJournal, vars, operationVars
<1>2. sends[o] = 0
  BY <1>0, <1>1 DEF DispatchInv, OneSender, Sending
<1>3. signer[o] = "none" /\ answer[o] = "none"
  BY <1>0, <1>2 DEF OutcomeInv, SignerHandlesSent
<1>4. sends'[o] = 1 /\ \A p \in OperationIds : p # o => sends'[p] = sends[p]
  BY <1>0, <1>1, <1>2
<1>5. Stands
  BY <1>1, <1>2, <1>4 DEF Stands, DidSign, Unclear, Refused
<1>6. SignerHandlesSent'
  BY <1>1, <1>3, <1>4 DEF OutcomeInv, SignerHandlesSent
<1>7. AnswerAgrees'
  BY <1>1, <1>5 DEF OutcomeInv, AnswerAgrees, Stands
<1>8. \A d \in Calls :
        \/ pc'[d] = "await" /\ pc[d] = "send" /\ request'[d] = request[d]
        \/ pc'[d] = pc[d] /\ request'[d] = request[d]
  BY <1>1 DEF ServiceTypeOK
<1> QED
  BY <1>1, <1>5, <1>6, <1>7, <1>8, OutsideAgrees

\* The Signer's decision: it had none, and nobody had an answer.
LEMMA DecideAgrees ==
  ASSUME OutcomeInv, ServiceTypeOK, NEW o \in OperationIds, SignerDecide(o)
  PROVE  OutcomeInv'
<1>1. /\ o \in wire /\ wire' = wire \ {o} /\ signer[o] = "none"
      /\ UNCHANGED <<pc, request, sends, operations, reservations>>
  BY DEF SignerDecide, NoJournal, vars, operationVars
<1>2. /\ \A p \in OperationIds : p # o => signer'[p] = signer[p] /\ answer'[p] = answer[p]
      /\ \/ signer'[o] \in {"succeeded", "quarantined"} /\ answer'[o] = signer'[o]
         \/ signer'[o] \in {"none", "failed"} /\ answer'[o] = "refused"
  BY DEF SignerDecide, ServiceTypeOK, SignerState
<1>3. sends[o] # 0
  BY <1>1 DEF OutcomeInv, SignerHandlesSent
<1>4. Stands
  BY <1>1, <1>2 DEF Stands, DidSign, Unclear, Refused
<1>5. SignerHandlesSent'
  BY <1>1, <1>2, <1>3 DEF OutcomeInv, SignerHandlesSent
<1>6. AnswerAgrees'
  <2> SUFFICES ASSUME NEW p \in OperationIds
               PROVE  /\ answer'[p] = "succeeded" => DidSign(p)'
                      /\ answer'[p] = "quarantined" => Unclear(p)'
                      /\ answer'[p] = "refused" => Refused(p)'
    BY DEF AnswerAgrees
  <2>1. CASE p = o
    BY <1>1, <1>2, <1>3, <2>1 DEF DidSign, Unclear, Refused
  <2>2. CASE p # o
    BY <1>2, <1>4, <2>2 DEF OutcomeInv, AnswerAgrees, Stands
  <2> QED
    BY <2>1, <2>2
<1> QED
  BY <1>1, <1>4, <1>5, <1>6, OutsideAgrees

LEMMA OutcomePreserved ==
  ASSUME OutcomeInv, DispatchInv, TypeOK, PublicationInv, ServiceTypeOK, [ServiceNext]_allVars
  PROVE  OutcomeInv'
<1>0. [Next]_vars
  BY StepImplements
<1>1. ASSUME NEW c \in Calls, CallStep(c) \/ Refuse(c) \/ ResolveUnavailable(c)
      PROVE  OutcomeInv'
  BY <1>0, <1>1, CallKeepsOutcome, SendAgrees
<1>2. ASSUME UNCHANGED <<signer, wire, answer, sends>>
      PROVE  Stands /\ SignerHandlesSent' /\ AnswerAgrees'
  BY <1>2 DEF Stands, OutcomeInv, SignerHandlesSent, AnswerAgrees, DidSign, Unclear, Refused
<1>3. ASSUME NEW c \in Calls, NEW r \in Requests, StartSign(c, r) \/ Cancel(c, r)
      PROVE  OutcomeInv'
  <2>1. UNCHANGED <<signer, wire, answer, sends, operations, reservations>>
    BY <1>3 DEF StartSign, Cancel, NoJournal, vars, operationVars
  <2>2. \A d \in Calls :
          \/ pc'[d] \in {"observe", "CANCELLED"}
          \/ pc'[d] = pc[d] /\ request'[d] = request[d]
    BY <1>3 DEF StartSign, Cancel, ServiceTypeOK
  <2> QED
    BY <1>2, <2>1, <2>2, OutsideAgrees
<1>4. ASSUME NEW o \in OperationIds, SignerDecide(o)
      PROVE  OutcomeInv'
  BY <1>4, DecideAgrees
<1>5. CASE Crash
  <2>1. /\ UNCHANGED <<signer, wire, sends, operations, reservations>>
        /\ \A o \in OperationIds : answer'[o] = "none"
        /\ \A c \in Calls : pc'[c] = "idle"
    BY <1>5 DEF Crash, NoJournal, vars, operationVars
  <2>2. Stands /\ SignerHandlesSent' /\ AnswerAgrees'
    BY <2>1 DEF Stands, OutcomeInv, SignerHandlesSent, AnswerAgrees, DidSign, Unclear, Refused
  <2> QED
    BY <2>1, <2>2, OutsideAgrees
<1>6. CASE (\E a \in Approvals : Lapse(a)) \/ Lifecycle \/ UNCHANGED allVars
  <2>1. UNCHANGED <<pc, request, signer, wire, answer, sends, operations, reservations>>
    BY <1>6 DEF Lapse, NoJournal, Lifecycle, ApprovalStep, CreateApprovalRecord,
       ActivateApprovalRecord, TransitionApproval, operationVars, serviceVars, allVars, vars
  <2> QED
    BY <1>2, <2>1, OutsideAgrees
<1> QED
  BY <1>1, <1>3, <1>4, <1>5, <1>6 DEF ServiceNext

LEMMA OutcomeInvariant == ServiceSpec => []OutcomeInv
<1>1. ServiceInit => OutcomeInv
  <2> SUFFICES ASSUME ServiceInit PROVE OutcomeInv
    OBVIOUS
  <2>1. SignerHandlesSent /\ AnswerAgrees
    BY DEF ServiceInit, SignerHandlesSent, AnswerAgrees
  <2>2. CallAgrees
    BY DEF ServiceInit, CallAgrees, Claims, Begun
  <2>3. RowAgrees /\ LedgerAgrees
    BY ConstantsAssumption DEF ServiceInit, Init, RowAgrees, LedgerAgrees, NoOperation, NoReservation
  <2> QED
    BY <2>1, <2>2, <2>3 DEF OutcomeInv
<1>2. ServiceSpec => [](TypeOK /\ PublicationInv)
  BY ServiceImplementsJournal, TypeCorrect, InitPublication, NextPublication, PTL
  DEF ImplementsJournal, Spec
<1> QED
  BY <1>1, <1>2, OutcomePreserved, DispatchInvariant, ServiceTypeCorrect, PTL DEF ServiceSpec

\* What the Broker publishes, fails or quarantines is what the Signer decided,
\* for any number of calls, requests and crashes: a call acts on a status that
\* cannot change after it was read.
THEOREM OutcomesAgree == ServiceSpec => []OutcomeAgrees
<1>1. OutcomeInv /\ TypeOK => OutcomeAgrees
  <2> SUFFICES ASSUME OutcomeInv, TypeOK, NEW o \in OperationIds
               PROVE  /\ operations[o].result # None =>
                           signer[o] = "succeeded" /\ operations[o].result = SignerResult[o]
                      /\ operations[o].state = "FAILED" =>
                           signer[o] \in {"none", "failed"} /\ o \notin wire
                      /\ operations[o].state = "QUARANTINED" =>
                           /\ signer[o] = "quarantined"
                           /\ reservations[operations[o].approval][o].state
                                \in {"RESERVED", "QUARANTINED"}
    BY DEF OutcomeAgrees
  <2>1. CASE operations[o].state = "QUARANTINED"
    <3>1. /\ signer[o] = "quarantined" /\ operations[o].approval \in Approvals
          /\ operations[o].result = None
      BY <2>1 DEF OutcomeInv, RowAgrees, DidSign, Unclear
    <3>2. reservations[operations[o].approval][o].state \in ReservationState \cup {"ABSENT"}
      BY <3>1 DEF TypeOK, ReservationRow
    <3> QED
      BY <2>1, <3>1, <3>2
      DEF OutcomeInv, LedgerAgrees, ReservationState, DidSign, Unclear, Refused
  <2>2. CASE operations[o].state # "QUARANTINED"
    BY <2>2 DEF OutcomeInv, RowAgrees, DidSign, Refused
  <2> QED
    BY <2>1, <2>2
<1>2. ServiceSpec => []TypeOK
  BY ServiceImplementsJournal, TypeCorrect, PTL DEF ImplementsJournal
<1> QED
  BY <1>1, <1>2, OutcomeInvariant, PTL

\* A budget is never given back for what the Signer signed: the ledger row of a
\* signed operation stays reserved until it is charged.
THEOREM SignedKeepsCharge == ServiceSpec => []SignedIsNeverReleased
<1>1. OutcomeInv /\ TypeOK => SignedIsNeverReleased
  <2> SUFFICES ASSUME OutcomeInv, TypeOK, NEW a \in Approvals, NEW o \in OperationIds,
                      signer[o] = "succeeded", operations[o].approval = a
               PROVE  reservations[a][o].state \in {"RESERVED", "COMMITTED"}
    BY DEF SignedIsNeverReleased
  <2>1. reservations[a][o].state \in ReservationState \cup {"ABSENT"}
    BY DEF TypeOK, ReservationRow
  <2> QED
    BY <2>1 DEF OutcomeInv, LedgerAgrees, ReservationState, DidSign, Unclear, Refused
<1>2. ServiceSpec => []TypeOK
  BY ServiceImplementsJournal, TypeCorrect, PTL DEF ImplementsJournal
<1> QED
  BY <1>1, <1>2, OutcomeInvariant, PTL
=============================================================================
