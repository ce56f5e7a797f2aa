---------------------- MODULE RevocationAuthority_proofs ----------------------
(* What holds of the revocation authority for any number of calls, approvals, *)
(* keys and epochs: its types, that the wallet epoch never goes back and is   *)
(* only reconciled at an epoch the Signer has reached, that a sign call never *)
(* authorizes what was revoked before it began, that a stopped key admits no  *)
(* automation and that a finished key stop has reached every target.          *)
EXTENDS RevocationAuthority, BrokerJournal_proofs

ReconcileKinds == {"sign", "prepare", "reconcile"}

SnapshotType == [epoch: 0..MaxEpoch, tombstones: SUBSET Approvals]
RequestType == [kind: Kinds \cup {"none"}, approval: Approvals \cup {None},
                op: OperationIds \cup {None}, key: DOMAIN KeyTargets \cup {None}]

\* RevocationTypeOK without the journal's tables.
AuthorityType ==
  /\ step \in [Calls -> Steps]
  /\ request \in [Calls -> RequestType]
  /\ snapshot \in [Calls -> SnapshotType]
  /\ todo \in [Calls -> SUBSET Approvals]
  /\ late \in [Calls -> BOOLEAN]
  /\ wallet \in [epoch: 0..MaxEpoch, reconciled: BOOLEAN]
  /\ stops \subseteq DOMAIN KeyTargets
  /\ tombstones \subseteq Approvals
  /\ ceremonies \subseteq Approvals
  /\ signerEpoch \in 0..MaxEpoch
  /\ signerApprovals \in [Approvals -> {"unknown", "active", "revoked"}]
  /\ wire \subseteq [call: Calls, approval: Approvals \cup {None}]

\* Which handler a call at a step runs, and what its request holds.
CallShape(c) ==
  LET r == request[c] IN
  /\ step[c] # "idle" => r.op \in OperationIds /\ r.kind \in Kinds
  /\ step[c] # "idle" /\ r.kind \in {"sign", "prepare", "revoke"} => r.approval \in Approvals
  /\ step[c] # "idle" /\ r.kind = "revoke_for_key" => r.key \in DOMAIN KeyTargets
  /\ step[c] \in {"snapshot", "reconcile", "stops"} => r.kind \in ReconcileKinds
  /\ step[c] \in {"older", "push", "await_revoke_all"} => r.kind \in ReconcileKinds \cup {"revoke_all"}
  /\ step[c] \in {"authorize", "authorized"} => r.kind = "sign"
  /\ step[c] \in {"ceremony", "record"} => r.kind = "prepare"
  /\ step[c] \in {"admit", "next_target"} => r.kind = "revoke_for_key"
  /\ step[c] \in {"stop_local", "await_revoke"} =>
       r.kind \in {"revoke", "revoke_for_key"} /\ r.approval \in Approvals
  /\ step[c] = "send_revoke" => r.kind = "revoke"
  /\ step[c] \in {"read_epoch", "advance"} => r.kind = "revoke_all"

TypeInv == TypeOK /\ AuthorityType /\ \A c \in Calls : CallShape(c)

-----------------------------------------------------------------------------
(* Types. *)

LEMMA StepNames ==
  /\ Ended \subseteq Steps /\ Held \subseteq Steps /\ Awaiting \subseteq Steps
  /\ {"idle", "snapshot", "reconcile", "push", "authorize", "ceremony", "record", "stop_local",
      "send_revoke", "admit", "next_target", "read_epoch", "advance", "stops", "older",
      "await_revoke", "await_revoke_all", "authorized", "done", "failed"} \subseteq Steps
BY DEF Steps, Ended, Held, Awaiting

\* What a move changes, and that it changes one call.
LEMMA MoveFrame ==
  ASSUME AuthorityType, NEW c \in Calls, NEW next \in Steps, NEW state \in SnapshotType,
         NEW list \in SUBSET Approvals, Move(c, next, state, list)
  PROVE  /\ step' \in [Calls -> Steps]
         /\ snapshot' \in [Calls -> SnapshotType]
         /\ todo' \in [Calls -> SUBSET Approvals]
         /\ step'[c] = next
         /\ next \notin Ended \cup {"authorize", "ceremony"} =>
              snapshot'[c] = state /\ todo'[c] = list
         /\ \A d \in Calls \ {c} : /\ step'[d] = step[d]
                                   /\ snapshot'[d] = snapshot[d]
                                   /\ todo'[d] = todo[d]
<1>1. NoSnapshot \in SnapshotType
  BY RevocationAssumption DEF NoSnapshot, SnapshotType
<1> QED
  BY <1>1 DEF Move, AuthorityType

LEMMA GotoFrame ==
  ASSUME AuthorityType, NEW c \in Calls, NEW next \in Steps, Goto(c, next)
  PROVE  /\ step' \in [Calls -> Steps]
         /\ snapshot' \in [Calls -> SnapshotType]
         /\ todo' \in [Calls -> SUBSET Approvals]
         /\ step'[c] = next
         /\ next \notin Ended \cup {"authorize", "ceremony"} =>
              snapshot'[c] = snapshot[c] /\ todo'[c] = todo[c]
         /\ \A d \in Calls \ {c} : /\ step'[d] = step[d]
                                   /\ snapshot'[d] = snapshot[d]
                                   /\ todo'[d] = todo[d]
<1>1. snapshot[c] \in SnapshotType /\ todo[c] \in SUBSET Approvals
  BY DEF AuthorityType
<1> QED
  BY <1>1, MoveFrame DEF Goto

LEMMA FirstSteps ==
  ASSUME NEW kind \in Kinds
  PROVE  /\ FirstStep(kind) \in {"snapshot", "stop_local", "admit", "read_epoch"}
         /\ FirstStep(kind) = "snapshot" => kind \in ReconcileKinds
         /\ FirstStep(kind) = "stop_local" => kind = "revoke"
         /\ FirstStep(kind) = "admit" => kind = "revoke_for_key"
         /\ FirstStep(kind) = "read_epoch" => kind = "revoke_all"
BY DEF FirstStep, Kinds, ReconcileKinds

LEMMA AfterReconcileSteps ==
  ASSUME NEW kind \in ReconcileKinds
  PROVE  /\ AfterReconcile(kind) \in {"authorize", "ceremony", "done"}
         /\ AfterReconcile(kind) = "authorize" <=> kind = "sign"
         /\ AfterReconcile(kind) = "ceremony" <=> kind = "prepare"
BY DEF AfterReconcile, ReconcileKinds

\* A shape depends on the call's own step and request.
LEMMA OtherShapes ==
  ASSUME NEW c \in Calls, \A d \in Calls : CallShape(d),
         \A d \in Calls \ {c} : step'[d] = step[d] /\ request'[d] = request[d],
         CallShape(c)'
  PROVE  \A d \in Calls : CallShape(d)'
<1> TAKE d \in Calls
<1>1. CASE d = c
  BY <1>1
<1>2. CASE d # c
  BY <1>2 DEF CallShape
<1> QED
  BY <1>1, <1>2

-----------------------------------------------------------------------------
(* Every step changes the journal by one of the journal's own actions. *)

LEMMA StopApprovalIsJournal ==
  ASSUME NEW a \in Approvals, stop_approval(a)
  PROVE  [Next]_vars
BY DEF stop_approval, Next, ApprovalStep

LEMMA StepIsJournal ==
  ASSUME AuthorityType, \A c \in Calls : CallShape(c), [RevocationNext]_revocationVars
  PROVE  [Next]_vars
<1>1. CASE UNCHANGED vars
  BY <1>1
<1>2. ASSUME NEW c \in Calls, NEW a \in Approvals, StopNext(c, a)
      PROVE  [Next]_vars
  BY <1>2, StopApprovalIsJournal DEF StopNext
<1>3. ASSUME NEW c \in Calls, StopLocal(c)
      PROVE  [Next]_vars
  BY <1>3, StopApprovalIsJournal DEF StopLocal, CallShape
<1>4. ASSUME NEW c \in Calls, Authorize(c)
      PROVE  [Next]_vars
  <2>1. request[c].approval \in Approvals /\ request[c].op \in OperationIds
    BY <1>4 DEF Authorize, CallShape
  <2>2. CASE \E d \in Digests, charge \in Charges, at \in 1..MaxTime :
               Reserve(request[c].approval, request[c].op, d, charge, at)
    BY <2>1, <2>2 DEF Next, LedgerStep
  <2> QED
    BY <1>1, <1>4, <2>2 DEF Authorize
<1>5. ASSUME NEW c \in Calls, PrepareApproval(c)
      PROVE  [Next]_vars
  <2>1. /\ request[c].approval \in Approvals
        /\ RenewalOf[request[c].approval] \in (Approvals \ {request[c].approval}) \cup {None}
    BY <1>5, RevocationAssumption DEF PrepareApproval, CallShape
  <2>2. CASE CreateApprovalRecord(request[c].approval, RenewalOf[request[c].approval])
    BY <2>1, <2>2 DEF Next, ApprovalStep
  <2> QED
    BY <1>1, <1>5, <2>2 DEF PrepareApproval
<1>6. ASSUME NEW a \in Approvals, ActivateSignerReceipt(a)
      PROVE  [Next]_vars
  BY <1>6, RevocationAssumption DEF ActivateSignerReceipt, Next, ApprovalStep
<1>7. ASSUME NEW c \in Calls, AdmitKeyRevocation(c)
      PROVE  [Next]_vars
  <2>1. request[c].op \in OperationIds /\ request[c].key \in DOMAIN KeyTargets
    BY <1>7 DEF AdmitKeyRevocation, CallShape
  <2>2. CASE BeginKeyRevocation(request[c].op, request[c].key)
    BY <2>1, <2>2 DEF Next, OperationStep
  <2> QED
    BY <1>1, <1>7, <2>2 DEF AdmitKeyRevocation
<1>8. ASSUME NEW c \in Calls, CompleteTargets(c)
      PROVE  [Next]_vars
  <2>1. request[c].op \in OperationIds
    BY <1>8 DEF CompleteTargets, CallShape
  <2>2. CASE CompleteKeyRevocation(request[c].op)
    BY <2>1, <2>2 DEF Next, OperationStep
  <2> QED
    BY <1>1, <1>8, <2>2 DEF CompleteTargets
<1>9. ASSUME NEW c \in Calls,
             \/ \E r \in Requests : Begin(c, r)
             \/ Fail(c) \/ Timeout(c) \/ RevocationSnapshot(c) \/ StoreSignerTombstones(c)
             \/ PushLocalEpoch(c) \/ Converged(c) \/ AdoptSignerEpoch(c) \/ OlderDone(c)
             \/ SendRevokeAll(c) \/ PrepareCeremony(c) \/ Denied(c) \/ SendRevoke(c)
             \/ (\E a \in Approvals : NextTarget(c, a)) \/ ReadEpoch(c) \/ AdvanceLocalEpoch(c)
      PROVE  UNCHANGED vars
  BY <1>9 DEF Begin, Fail, Timeout, RevocationSnapshot, StoreSignerTombstones, PushLocalEpoch,
              Converged, AdoptSignerEpoch, OlderDone, SendRevokeAll, PrepareCeremony, Denied,
              SendRevoke, NextTarget, ReadEpoch, AdvanceLocalEpoch
<1>10. CASE SignerStep
  BY <1>1, <1>10 DEF SignerStep, SignerActivates, SignerRevokesAlone, SignerAdvancesAlone,
                     HandleRevoke, HandleRevokeAll
<1>11. CASE UNCHANGED revocationVars
  BY <1>1, <1>11 DEF revocationVars
<1> QED
  BY <1>1, <1>2, <1>3, <1>4, <1>5, <1>6, <1>7, <1>8, <1>9, <1>10, <1>11
     DEF RevocationNext, CallStep, ReconcileStep, ChokepointStep, RevokeStep

-----------------------------------------------------------------------------
(* Each group of actions keeps the types and the shapes of the calls. *)

LEMMA BeginTypes ==
  ASSUME AuthorityType, \A d \in Calls : CallShape(d), NEW c \in Calls, NEW r \in Requests,
         Begin(c, r)
  PROVE  AuthorityType' /\ \A d \in Calls : CallShape(d)'
<1>1. r \in RequestType /\ r.kind \in Kinds /\ r.op \in OperationIds
  BY RevocationAssumption DEF RequestType
<1>2. FirstStep(r.kind) \in Steps
  BY <1>1, FirstSteps, StepNames
<1>3. AuthorityType'
  BY <1>1, <1>2, GotoFrame DEF Begin, AuthorityType, authorityVars, signerVars
<1>4. step'[c] = FirstStep(r.kind) /\ request'[c] = r
  BY <1>2, GotoFrame DEF Begin, AuthorityType
<1>5. \A d \in Calls \ {c} : step'[d] = step[d] /\ request'[d] = request[d]
  BY <1>2, GotoFrame DEF Begin, AuthorityType
<1>6. CallShape(c)'
  BY <1>1, <1>4, FirstSteps, RevocationAssumption DEF CallShape
<1> QED
  BY <1>3, <1>5, <1>6, OtherShapes

LEMMA ReconcileTypes ==
  ASSUME AuthorityType, \A d \in Calls : CallShape(d), NEW c \in Calls,
         ReconcileStep(c) \/ Timeout(c) \/ Fail(c)
  PROVE  AuthorityType' /\ \A d \in Calls : CallShape(d)'
<1> USE StepNames
<1> DEFINE Kept == \A d \in Calls \ {c} : step'[d] = step[d] /\ request'[d] = request[d]
<1>0. request[c] \in RequestType /\ snapshot[c] \in SnapshotType /\ todo[c] \in SUBSET Approvals
      /\ step[c] \in Steps
  BY DEF AuthorityType
<1>1. CASE Fail(c) \/ Timeout(c)
  <2>1. AuthorityType' /\ Kept /\ step'[c] = "failed" /\ request'[c] = request[c]
    BY <1>1, GotoFrame DEF Fail, Timeout, AuthorityType, authorityVars, signerVars
  <2>2. step[c] # "idle"
    BY <1>1 DEF Fail, Timeout, Awaiting
  <2>3. CallShape(c)'
    BY <2>1, <2>2 DEF CallShape
  <2> QED
    BY <2>1, <2>3, OtherShapes
<1>2. CASE RevocationSnapshot(c)
  <2>1. [epoch |-> signerEpoch,
         tombstones |-> {a \in Approvals : signerApprovals[a] = "revoked"}] \in SnapshotType
    BY DEF AuthorityType, SnapshotType
  <2>2. AuthorityType' /\ Kept /\ step'[c] = "reconcile" /\ request'[c] = request[c]
    BY <1>2, <2>1, MoveFrame DEF RevocationSnapshot, AuthorityType, authorityVars, signerVars
  <2>3. CallShape(c)'
    BY <1>2, <2>2 DEF CallShape, RevocationSnapshot
  <2> QED
    BY <2>2, <2>3, OtherShapes
<1>3. CASE StoreSignerTombstones(c)
  <2>1. snapshot[c].tombstones \in SUBSET Approvals
    BY <1>0 DEF SnapshotType
  <2>2. AuthorityType' /\ Kept /\ step'[c] \in {"stops", "failed"} /\ request'[c] = request[c]
    <3>1. CASE tombstones \subseteq snapshot[c].tombstones
      BY <1>0, <1>3, <2>1, <3>1, MoveFrame DEF StoreSignerTombstones, AuthorityType, signerVars
    <3>2. CASE ~(tombstones \subseteq snapshot[c].tombstones)
      BY <1>3, <3>2, GotoFrame DEF StoreSignerTombstones, AuthorityType, signerVars
    <3> QED
      BY <3>1, <3>2
  <2>3. CallShape(c)'
    BY <1>3, <2>2 DEF CallShape, StoreSignerTombstones
  <2> QED
    BY <2>2, <2>3, OtherShapes
<1>4. ASSUME NEW a \in Approvals, StopNext(c, a)
      PROVE  AuthorityType' /\ \A d \in Calls : CallShape(d)'
  <2>1. todo[c] \ {a} \in SUBSET Approvals
    BY <1>0
  <2>2. AuthorityType' /\ Kept /\ step'[c] = step[c] /\ request'[c] = request[c]
    BY <1>0, <1>4, <2>1, MoveFrame DEF StopNext, AuthorityType, authorityVars, signerVars
  <2>3. CallShape(c)'
    BY <2>2 DEF CallShape
  <2> QED
    BY <2>2, <2>3, OtherShapes
<1>5. CASE PushLocalEpoch(c)
  <2>1. AuthorityType' /\ Kept /\ step'[c] = "push" /\ request'[c] = request[c]
    BY <1>5, GotoFrame DEF PushLocalEpoch, AuthorityType, signerVars
  <2>2. CallShape(c)'
    BY <1>5, <2>1 DEF CallShape, PushLocalEpoch
  <2> QED
    BY <2>1, <2>2, OtherShapes
<1>6. CASE Converged(c)
  <2>1. request[c].kind \in ReconcileKinds
    BY <1>6 DEF Converged, CallShape
  <2>2. /\ AuthorityType' /\ Kept /\ step'[c] = AfterReconcile(request[c].kind)
        /\ request'[c] = request[c]
    BY <1>6, <2>1, AfterReconcileSteps, GotoFrame DEF Converged, AuthorityType, signerVars
  <2>3. CallShape(c)'
    BY <1>6, <2>1, <2>2, AfterReconcileSteps DEF CallShape, Converged
  <2> QED
    BY <2>2, <2>3, OtherShapes
<1>7. CASE AdoptSignerEpoch(c)
  <2>1. older_approvals(snapshot[c].epoch) \in SUBSET Approvals /\ snapshot[c].epoch \in 0..MaxEpoch
    BY <1>0 DEF older_approvals, SnapshotType
  <2>2. AuthorityType' /\ Kept /\ step'[c] = "older" /\ request'[c] = request[c]
    BY <1>0, <1>7, <2>1, MoveFrame DEF AdoptSignerEpoch, AuthorityType, signerVars
  <2>3. CallShape(c)'
    BY <1>7, <2>2 DEF CallShape, AdoptSignerEpoch
  <2> QED
    BY <2>2, <2>3, OtherShapes
<1>8. CASE OlderDone(c)
  <2>1. request[c].kind \in ReconcileKinds \cup {"revoke_all"}
    BY <1>8 DEF OlderDone, CallShape
  <2> DEFINE next == IF request[c].kind = "revoke_all" THEN "push"
                     ELSE AfterReconcile(request[c].kind)
  <2>2. next \in {"push", "authorize", "ceremony", "done"}
    BY <2>1, AfterReconcileSteps
  <2>3. AuthorityType' /\ Kept /\ step'[c] = next /\ request'[c] = request[c]
    BY <1>8, <2>2, GotoFrame DEF OlderDone, AuthorityType, authorityVars, signerVars
  <2>4. CallShape(c)'
    BY <1>8, <2>1, <2>2, <2>3, AfterReconcileSteps DEF CallShape, OlderDone
  <2> QED
    BY <2>3, <2>4, OtherShapes
<1>9. CASE SendRevokeAll(c)
  <2>1. /\ AuthorityType' /\ Kept /\ step'[c] \in {"await_revoke_all", "failed"}
        /\ request'[c] = request[c]
    BY <1>9, GotoFrame DEF SendRevokeAll, AuthorityType, authorityVars
  <2>2. CallShape(c)'
    BY <1>9, <2>1 DEF CallShape, SendRevokeAll
  <2> QED
    BY <2>1, <2>2, OtherShapes
<1> QED
  BY <1>1, <1>2, <1>3, <1>4, <1>5, <1>6, <1>7, <1>8, <1>9 DEF ReconcileStep

LEMMA ChokepointTypes ==
  ASSUME AuthorityType, \A d \in Calls : CallShape(d), NEW c \in Calls, ChokepointStep(c)
  PROVE  AuthorityType' /\ \A d \in Calls : CallShape(d)'
<1> USE StepNames
<1> DEFINE Kept == \A d \in Calls \ {c} : step'[d] = step[d] /\ request'[d] = request[d]
<1>1. CASE Authorize(c)
  <2>1. AuthorityType' /\ Kept /\ step'[c] = "authorized" /\ request'[c] = request[c]
    BY <1>1, GotoFrame DEF Authorize, AuthorityType, authorityVars, signerVars
  <2>2. CallShape(c)'
    BY <1>1, <2>1 DEF CallShape, Authorize
  <2> QED
    BY <2>1, <2>2, OtherShapes
<1>2. CASE PrepareCeremony(c)
  <2>1. request[c].approval \in Approvals
    BY <1>2 DEF PrepareCeremony, CallShape
  <2>2. AuthorityType' /\ Kept /\ step'[c] = "record" /\ request'[c] = request[c]
    BY <1>2, <2>1, GotoFrame DEF PrepareCeremony, AuthorityType, signerVars
  <2>3. CallShape(c)'
    BY <1>2, <2>2 DEF CallShape, PrepareCeremony
  <2> QED
    BY <2>2, <2>3, OtherShapes
<1>3. CASE PrepareApproval(c)
  <2>1. AuthorityType' /\ Kept /\ step'[c] = "done" /\ request'[c] = request[c]
    BY <1>3, GotoFrame DEF PrepareApproval, AuthorityType, authorityVars, signerVars
  <2>2. CallShape(c)'
    BY <1>3, <2>1 DEF CallShape, PrepareApproval
  <2> QED
    BY <2>1, <2>2, OtherShapes
<1>4. CASE Denied(c)
  <2>1. AuthorityType' /\ Kept /\ step'[c] = "failed" /\ request'[c] = request[c]
    BY <1>4, GotoFrame DEF Denied, AuthorityType, signerVars
  <2>2. CallShape(c)'
    BY <1>4, <2>1 DEF CallShape, Denied
  <2> QED
    BY <2>1, <2>2, OtherShapes
<1> QED
  BY <1>1, <1>2, <1>3, <1>4 DEF ChokepointStep

LEMMA RevokeTypes ==
  ASSUME TypeOK, TypeOK', AuthorityType, \A d \in Calls : CallShape(d), NEW c \in Calls,
         RevokeStep(c)
  PROVE  AuthorityType' /\ \A d \in Calls : CallShape(d)'
<1> USE StepNames
<1> DEFINE Kept == \A d \in Calls \ {c} : step'[d] = step[d] /\ request'[d] = request[d]
<1>0. request[c] \in RequestType /\ snapshot[c] \in SnapshotType /\ todo[c] \in SUBSET Approvals
      /\ step[c] \in Steps
  BY DEF AuthorityType
<1>1. CASE StopLocal(c)
  <2> DEFINE next == IF request[c].kind = "revoke" THEN "send_revoke" ELSE "next_target"
  <2>1. todo[c] \ {request[c].approval} \in SUBSET Approvals /\ next \in Steps
    BY <1>0
  <2>2. AuthorityType' /\ Kept /\ step'[c] = next /\ request'[c] = request[c]
    BY <1>0, <1>1, <2>1, MoveFrame DEF StopLocal, AuthorityType, authorityVars, signerVars
  <2>3. CallShape(c)'
    BY <1>1, <2>2 DEF CallShape, StopLocal
  <2> QED
    BY <2>2, <2>3, OtherShapes
<1>2. CASE SendRevoke(c)
  <2>1. request[c].approval \in Approvals
    BY <1>2 DEF SendRevoke, CallShape
  <2>2. AuthorityType' /\ Kept /\ step'[c] = "await_revoke" /\ request'[c] = request[c]
    BY <1>2, <2>1, GotoFrame DEF SendRevoke, AuthorityType, authorityVars
  <2>3. CallShape(c)'
    BY <1>2, <2>1, <2>2 DEF CallShape, SendRevoke
  <2> QED
    BY <2>2, <2>3, OtherShapes
<1>3. CASE AdmitKeyRevocation(c)
  <2> DEFINE o == request[c].op
             key == request[c].key
  <2>1. o \in OperationIds /\ key \in DOMAIN KeyTargets
    BY <1>3 DEF AdmitKeyRevocation, CallShape
  <2>2. targets[o] \in SUBSET Approvals /\ targets'[o] \in SUBSET Approvals
    BY <2>1 DEF TypeOK
  <2>3. /\ stops' \subseteq DOMAIN KeyTargets
        /\ UNCHANGED <<request, late, wallet, tombstones, ceremonies, signerVars>>
    BY <1>3, <2>1 DEF AdmitKeyRevocation, AuthorityType
  <2>4. \/ Move(c, "next_target", snapshot[c], targets'[o])
        \/ Move(c, "next_target", snapshot[c], targets[o])
        \/ Goto(c, "failed")
    BY <1>3 DEF AdmitKeyRevocation
  <2>5. /\ step' \in [Calls -> Steps]
        /\ snapshot' \in [Calls -> SnapshotType]
        /\ todo' \in [Calls -> SUBSET Approvals]
        /\ step'[c] \in {"next_target", "failed"}
        /\ \A d \in Calls \ {c} : step'[d] = step[d]
    BY <1>0, <2>2, <2>4, MoveFrame, GotoFrame
  <2>6. AuthorityType' /\ Kept
    BY <2>3, <2>5 DEF AuthorityType, signerVars
  <2>7. CallShape(c)'
    BY <1>3, <2>3, <2>5 DEF CallShape, AdmitKeyRevocation
  <2> QED
    BY <2>6, <2>7, OtherShapes
<1>4. ASSUME NEW a \in Approvals, NextTarget(c, a)
      PROVE  AuthorityType' /\ \A d \in Calls : CallShape(d)'
  <2>1. [request[c] EXCEPT !.approval = a] \in RequestType
    BY <1>0 DEF RequestType
  <2>2. /\ request' \in [Calls -> RequestType]
        /\ request'[c] = [request[c] EXCEPT !.approval = a]
        /\ \A d \in Calls \ {c} : request'[d] = request[d]
    BY <1>4, <2>1 DEF NextTarget, AuthorityType
  <2>3. AuthorityType' /\ Kept /\ step'[c] = "await_revoke"
    BY <1>4, <2>2, GotoFrame DEF NextTarget, AuthorityType, authorityVars
  <2>4. CallShape(c)'
    BY <1>0, <1>4, <2>2, <2>3 DEF CallShape, NextTarget, RequestType
  <2> QED
    BY <2>3, <2>4, OtherShapes
<1>5. CASE CompleteTargets(c)
  <2>1. AuthorityType' /\ Kept /\ step'[c] = "done" /\ request'[c] = request[c]
    BY <1>5, GotoFrame DEF CompleteTargets, AuthorityType, authorityVars, signerVars
  <2>2. CallShape(c)'
    BY <1>5, <2>1 DEF CallShape, CompleteTargets
  <2> QED
    BY <2>1, <2>2, OtherShapes
<1>6. CASE ReadEpoch(c)
  <2>1. [NoSnapshot EXCEPT !.epoch = wallet.epoch] \in SnapshotType
    BY DEF NoSnapshot, SnapshotType, AuthorityType
  <2>2. AuthorityType' /\ Kept /\ step'[c] = "advance" /\ request'[c] = request[c]
    BY <1>6, <2>1, MoveFrame DEF ReadEpoch, AuthorityType, authorityVars, signerVars
  <2>3. CallShape(c)'
    BY <1>6, <2>2 DEF CallShape, ReadEpoch
  <2> QED
    BY <2>2, <2>3, OtherShapes
<1>7. CASE AdvanceLocalEpoch(c)
  <2>1. older_approvals(wallet.epoch + 1) \in SUBSET Approvals
    BY DEF older_approvals
  <2>2. wallet.epoch \in 0..MaxEpoch /\ MaxEpoch \in Nat
    BY RevocationAssumption DEF AuthorityType
  <2>3. AuthorityType' /\ Kept /\ step'[c] \in {"older", "failed"} /\ request'[c] = request[c]
    <3>1. CASE wallet.epoch = snapshot[c].epoch /\ wallet.epoch < MaxEpoch
      <4>1. wallet' = [epoch |-> wallet.epoch + 1, reconciled |-> FALSE]
        BY <1>7, <3>1 DEF AdvanceLocalEpoch
      <4>2. wallet' \in [epoch: 0..MaxEpoch, reconciled: BOOLEAN]
        BY <2>2, <3>1, <4>1
      <4> QED
        BY <1>0, <1>7, <2>1, <3>1, <4>2, MoveFrame
           DEF AdvanceLocalEpoch, AuthorityType, signerVars
    <3>2. CASE ~(wallet.epoch = snapshot[c].epoch /\ wallet.epoch < MaxEpoch)
      BY <1>7, <3>2, GotoFrame DEF AdvanceLocalEpoch, AuthorityType, signerVars
    <3> QED
      BY <3>1, <3>2
  <2>4. CallShape(c)'
    BY <1>7, <2>3 DEF CallShape, AdvanceLocalEpoch
  <2> QED
    BY <2>3, <2>4, OtherShapes
<1> QED
  BY <1>1, <1>2, <1>3, <1>4, <1>5, <1>6, <1>7 DEF RevokeStep

LEMMA SignerTypes ==
  ASSUME AuthorityType, \A d \in Calls : CallShape(d),
         SignerStep \/ \E a \in Approvals : ActivateSignerReceipt(a)
  PROVE  AuthorityType' /\ \A d \in Calls : CallShape(d)'
<1> USE StepNames
<1>1. CASE UNCHANGED callVars /\ UNCHANGED authorityVars /\ UNCHANGED wire
           /\ signerEpoch' \in 0..MaxEpoch
           /\ signerApprovals' \in [Approvals -> {"unknown", "active", "revoked"}]
  BY <1>1 DEF AuthorityType, CallShape, callVars, authorityVars
<1>2. ASSUME NEW a \in Approvals,
             SignerActivates(a) \/ SignerRevokesAlone(a) \/ ActivateSignerReceipt(a)
      PROVE  AuthorityType' /\ \A d \in Calls : CallShape(d)'
  BY <1>1, <1>2 DEF SignerActivates, SignerRevokesAlone, ActivateSignerReceipt, AuthorityType,
                    signerVars
<1>3. CASE SignerAdvancesAlone
  <2>1. signerEpoch' \in 0..MaxEpoch
    BY <1>3, RevocationAssumption DEF SignerAdvancesAlone, AuthorityType
  <2> QED
    BY <1>1, <1>3, <2>1 DEF SignerAdvancesAlone, AuthorityType
<1>4. ASSUME NEW m \in wire, HandleRevoke(m)
      PROVE  AuthorityType' /\ \A d \in Calls : CallShape(d)'
  <2>1. m.call \in Calls /\ m.approval \in Approvals
    BY <1>4 DEF HandleRevoke, AuthorityType
  <2> DEFINE c == m.call
             next == IF request[c].kind = "revoke_for_key" THEN "stop_local"
                     ELSE IF signerApprovals[m.approval] = "unknown" \/ approvals[m.approval] = "ABSENT"
                       THEN "failed" ELSE "done"
  <2>2. next \in {"stop_local", "failed", "done"}
    OBVIOUS
  <2>3. /\ signerApprovals' \in [Approvals -> {"unknown", "active", "revoked"}]
        /\ UNCHANGED <<request, late, authorityVars, signerEpoch>>
        /\ wire' \subseteq wire
    BY <1>4, <2>1 DEF HandleRevoke, AuthorityType
  <2>4. CASE step[c] = "await_revoke"
    <3>1. Goto(c, next)
      BY <1>4, <2>4 DEF HandleRevoke
    <3>2. AuthorityType' /\ step'[c] = next /\ \A d \in Calls \ {c} : step'[d] = step[d]
      BY <2>1, <2>2, <2>3, <3>1, GotoFrame DEF AuthorityType, authorityVars
    <3>3. CallShape(c)
      BY <2>1
    <3>4. CallShape(c)'
      BY <2>2, <2>3, <2>4, <3>2, <3>3 DEF CallShape
    <3> QED
      BY <2>1, <2>3, <3>2, <3>4, OtherShapes
  <2>5. CASE step[c] # "await_revoke"
    BY <1>4, <2>3, <2>5 DEF HandleRevoke, AuthorityType, CallShape, authorityVars
  <2> QED
    BY <2>4, <2>5
<1>5. ASSUME NEW m \in wire, HandleRevokeAll(m)
      PROVE  AuthorityType' /\ \A d \in Calls : CallShape(d)'
  <2>1. m.call \in Calls
    BY DEF AuthorityType
  <2> DEFINE c == m.call
             next == IF signerEpoch = MaxEpoch THEN "failed"
                     ELSE IF request[c].kind = "revoke_all" THEN "done" ELSE "snapshot"
  <2>2. next \in {"snapshot", "failed", "done"}
    OBVIOUS
  <2>3. signerEpoch' \in 0..MaxEpoch
    BY <1>5, RevocationAssumption DEF HandleRevokeAll, AuthorityType
  <2>4. UNCHANGED <<request, late, authorityVars, signerApprovals>> /\ wire' \subseteq wire
    BY <1>5 DEF HandleRevokeAll
  <2>5. CASE step[c] = "await_revoke_all"
    <3>1. Goto(c, next)
      BY <1>5, <2>5 DEF HandleRevokeAll
    <3>2. AuthorityType' /\ step'[c] = next /\ \A d \in Calls \ {c} : step'[d] = step[d]
      BY <2>1, <2>2, <2>3, <2>4, <3>1, GotoFrame DEF AuthorityType, authorityVars
    <3>3. CallShape(c)
      BY <2>1
    <3>4. CallShape(c)'
      BY <2>2, <2>4, <2>5, <3>2, <3>3 DEF CallShape
    <3> QED
      BY <2>1, <2>4, <3>2, <3>4, OtherShapes
  <2>6. CASE step[c] # "await_revoke_all"
    BY <1>5, <2>3, <2>4, <2>6 DEF HandleRevokeAll, AuthorityType, CallShape, authorityVars
  <2> QED
    BY <2>5, <2>6
<1> QED
  BY <1>2, <1>3, <1>4, <1>5 DEF SignerStep

LEMMA RevocationInitTypes == RevocationInit => TypeInv
<1> SUFFICES ASSUME RevocationInit PROVE TypeInv
  OBVIOUS
<1>1. TypeOK
  <2>1. audit \subseteq AuditEntries
    BY RevocationAssumption DEF RevocationInit, AuditEntries
  <2>2. /\ approvals \in [Approvals -> ApprovalState \cup {"ABSENT"}]
        /\ renewalOf \in [Approvals -> Approvals \cup {None}]
        /\ activation \in [Approvals -> ActivationIds \cup {None}]
        /\ clock \in [effective: 0..MaxTime, condition: ClockCondition \cup {"ABSENT"}]
    BY RevocationAssumption, ConstantsAssumption DEF RevocationInit, ApprovalState
  <2>3. /\ operations \in [OperationIds -> OperationRow]
        /\ attempts \in [OperationIds -> SUBSET (AttemptIds \X Envelopes)]
        /\ targets \in [OperationIds -> SUBSET Approvals]
        /\ children \in [OperationIds -> 0..MaxBatchChildren]
        /\ reservations \in [Approvals -> [OperationIds -> ReservationRow]]
    BY ConstantsAssumption
       DEF RevocationInit, OperationRow, NoOperation, ReservationRow, NoReservation
  <2> QED
    BY <2>1, <2>2, <2>3 DEF TypeOK
<1>2. NoSnapshot \in SnapshotType /\ NoRequest \in RequestType
  BY RevocationAssumption DEF NoSnapshot, SnapshotType, NoRequest, RequestType
<1>3. AuthorityType
  BY <1>2, StepNames, RevocationAssumption DEF RevocationInit, AuthorityType
<1>4. \A c \in Calls : CallShape(c)
  BY DEF RevocationInit, CallShape
<1> QED
  BY <1>1, <1>3, <1>4 DEF TypeInv

LEMMA RevocationNextTypes == TypeInv /\ [RevocationNext]_revocationVars => TypeInv'
<1> SUFFICES ASSUME TypeInv, [RevocationNext]_revocationVars PROVE TypeInv'
  OBVIOUS
<1> USE DEF TypeInv
<1>1. TypeOK'
  BY StepIsJournal, NextType
<1>2. CASE UNCHANGED revocationVars
  BY <1>1, <1>2 DEF revocationVars, callVars, authorityVars, signerVars, AuthorityType, CallShape
<1>3. ASSUME NEW c \in Calls, \E r \in Requests : Begin(c, r)
      PROVE  TypeInv'
  BY <1>1, <1>3, BeginTypes
<1>4. ASSUME NEW c \in Calls, CallStep(c) \/ Fail(c)
      PROVE  TypeInv'
  BY <1>1, <1>4, ReconcileTypes, ChokepointTypes, RevokeTypes DEF CallStep
<1>5. CASE SignerStep \/ \E a \in Approvals : ActivateSignerReceipt(a)
  BY <1>1, <1>5, SignerTypes
<1> QED
  BY <1>2, <1>3, <1>4, <1>5 DEF RevocationNext

\* Every call is at a step of its handler, and every row of the revocation tables
\* is one the schema knows.
THEOREM RevocationTypeCorrect == RevocationSpec => []RevocationTypeOK
<1>1. TypeInv => RevocationTypeOK
  BY DEF TypeInv, AuthorityType, RevocationTypeOK, RequestType, SnapshotType
<1> QED
  BY <1>1, RevocationInitTypes, RevocationNextTypes, PTL DEF RevocationSpec

-----------------------------------------------------------------------------
(* What no step takes back. *)

Stopped(a) == approvals[a] \in {"FAILED", "REVOKED"}

LEMMA JournalKeepsStops ==
  ASSUME TypeOK, [Next]_vars, NEW a \in Approvals, Stopped(a)
  PROVE  Stopped(a)'
<1>1. CASE UNCHANGED approvals
  BY <1>1 DEF Stopped
<1>2. ASSUME NEW b \in Approvals, NEW p \in (Approvals \ {b}) \cup {None}, CreateApprovalRecord(b, p)
      PROVE  Stopped(a)'
  BY <1>2 DEF CreateApprovalRecord, Stopped, TypeOK
<1>3. ASSUME NEW b \in Approvals, NEW id \in ActivationIds, ActivateApprovalRecord(b, id)
      PROVE  Stopped(a)'
  BY <1>3 DEF ActivateApprovalRecord, CanActivate, Stopped, TypeOK
<1>4. ASSUME NEW b \in Approvals, NEW next \in {"FAILED", "REVOKED"}, TransitionApproval(b, next)
      PROVE  Stopped(a)'
  BY <1>4 DEF TransitionApproval, Stopped, TypeOK
<1>5. ASSUME NEW o \in OperationIds, NEW params \in DOMAIN KeyTargets, BeginKeyRevocation(o, params)
      PROVE  Stopped(a)'
  BY <1>5 DEF BeginKeyRevocation, Stopped, TypeOK
<1>6. CASE OperationStep
  <2>1. \A o \in OperationIds, next \in OperationState : TransitionOperation(o, next) => UNCHANGED approvals
    BY DEF TransitionOperation, approvalVars
  <2>2. \A o \in OperationIds : CompleteKeyRevocation(o) => UNCHANGED approvals
    BY DEF CompleteKeyRevocation, approvalVars
  <2>3. \A o \in OperationIds, b \in Approvals, d \in Digests, f \in Fields, batch \in BOOLEAN,
           attempt \in AttemptIds, envelope \in Envelopes :
          BeginSignAttempt(o, b, d, f, batch, attempt, envelope) => UNCHANGED approvals
    BY DEF BeginSignAttempt, BeginFresh, BeginRetry, approvalVars
  <2> QED
    BY <1>1, <1>5, <1>6, <2>1, <2>2, <2>3 DEF OperationStep
<1>7. CASE LedgerStep
  <2>1. \A b \in Approvals, o \in OperationIds, d \in Digests, charge \in Charges, at \in 1..MaxTime :
          Reserve(b, o, d, charge, at) => UNCHANGED approvals
    BY DEF Reserve, approvalVars
  <2>2. \A b \in Approvals, o \in OperationIds, next \in {"RELEASED", "QUARANTINED"} :
          FinalizeReservation(b, o, next) => UNCHANGED approvals
    BY DEF FinalizeReservation, approvalVars
  <2>3. \A b \in Approvals, o \in OperationIds, result \in Results :
          \A n, event : Publish(b, o, result, n, event) => UNCHANGED approvals
    BY DEF Publish, approvalVars
  <2>4. \A b \in Approvals, o \in OperationIds, d \in Digests, result \in Results :
          PublishResult(b, o, d, result) => UNCHANGED approvals
    BY <2>3 DEF PublishResult
  <2>5. \A b \in Approvals, o \in OperationIds, d \in Digests, result \in Results,
           n \in 1..MaxBatchChildren :
          PublishBatch(b, o, d, result, n) => UNCHANGED approvals
    BY <2>3 DEF PublishBatch
  <2> QED
    BY <1>1, <1>7, <2>1, <2>2, <2>4, <2>5 DEF LedgerStep
<1>8. CASE ClockStep
  BY <1>1, <1>8 DEF ClockStep, ObserveTime, RepairClock, approvalVars
<1>9. CASE UNCHANGED vars
  BY <1>1, <1>9 DEF vars, approvalVars
<1> QED
  BY <1>2, <1>3, <1>4, <1>6, <1>7, <1>8, <1>9 DEF Next, ApprovalStep

\* Epochs, tombstones and revocations only grow.
Grows ==
  /\ wallet'.epoch >= wallet.epoch
  /\ signerEpoch' >= signerEpoch
  /\ tombstones \subseteq tombstones'
  /\ \A a \in Approvals : signerApprovals[a] = "revoked" => signerApprovals'[a] = "revoked"
  /\ \A a \in Approvals : Stopped(a) => Stopped(a)'

LEMMA StepGrows == TypeInv /\ [RevocationNext]_revocationVars => Grows
<1> SUFFICES ASSUME TypeInv, [RevocationNext]_revocationVars PROVE Grows
  OBVIOUS
<1> DEFINE Rest == /\ wallet'.epoch >= wallet.epoch
                   /\ signerEpoch' >= signerEpoch
                   /\ tombstones \subseteq tombstones'
                   /\ \A a \in Approvals :
                        signerApprovals[a] = "revoked" => signerApprovals'[a] = "revoked"
<1>1. \A a \in Approvals : Stopped(a) => Stopped(a)'
  BY StepIsJournal, JournalKeepsStops DEF TypeInv
<1>2. /\ AuthorityType
      /\ wallet.epoch \in Nat /\ signerEpoch \in Nat
      /\ \A c \in Calls : snapshot[c].epoch \in Nat
  BY RevocationAssumption DEF TypeInv, AuthorityType, SnapshotType
<1>3. ASSUME UNCHANGED <<wallet, tombstones, signerEpoch, signerApprovals>>
      PROVE  Rest
  BY <1>2, <1>3
<1>4. ASSUME NEW c \in Calls, \E r \in Requests : Begin(c, r)
      PROVE  Rest
  BY <1>3, <1>4 DEF Begin, authorityVars, signerVars
<1>5. ASSUME NEW c \in Calls, ReconcileStep(c) \/ Timeout(c) \/ Fail(c)
      PROVE  Rest
  <2>1. CASE StoreSignerTombstones(c)
    BY <1>2, <2>1 DEF StoreSignerTombstones, signerVars
  <2>2. CASE PushLocalEpoch(c) \/ Converged(c) \/ AdoptSignerEpoch(c)
    BY <1>2, <2>2 DEF PushLocalEpoch, Converged, AdoptSignerEpoch, signerVars, AuthorityType
  <2>3. CASE \/ RevocationSnapshot(c) \/ (\E a \in Approvals : StopNext(c, a)) \/ OlderDone(c)
             \/ SendRevokeAll(c) \/ Timeout(c) \/ Fail(c)
    BY <1>3, <2>3 DEF RevocationSnapshot, StopNext, OlderDone, SendRevokeAll, Timeout, Fail,
                      authorityVars, signerVars
  <2> QED
    BY <1>5, <2>1, <2>2, <2>3 DEF ReconcileStep
<1>6. ASSUME NEW c \in Calls, ChokepointStep(c)
      PROVE  Rest
  BY <1>3, <1>6 DEF ChokepointStep, Authorize, PrepareCeremony, PrepareApproval, Denied,
                    authorityVars, signerVars
<1>7. ASSUME NEW c \in Calls, RevokeStep(c)
      PROVE  Rest
  <2>1. CASE AdvanceLocalEpoch(c)
    BY <1>2, <2>1 DEF AdvanceLocalEpoch, signerVars
  <2>2. CASE \/ StopLocal(c) \/ SendRevoke(c) \/ AdmitKeyRevocation(c)
             \/ (\E a \in Approvals : NextTarget(c, a)) \/ CompleteTargets(c) \/ ReadEpoch(c)
    BY <1>3, <2>2 DEF StopLocal, SendRevoke, AdmitKeyRevocation, NextTarget, CompleteTargets,
                      ReadEpoch, authorityVars, signerVars
  <2> QED
    BY <1>7, <2>1, <2>2 DEF RevokeStep
<1>8. ASSUME SignerStep
      PROVE  Rest
  <2>1. ASSUME NEW m \in wire, HandleRevoke(m)
        PROVE  Rest
    <3>1. m.approval \in Approvals
      BY <1>2, <2>1 DEF HandleRevoke, AuthorityType
    <3> QED
      BY <1>2, <2>1, <3>1 DEF HandleRevoke, AuthorityType, authorityVars
  <2>2. ASSUME NEW m \in wire, HandleRevokeAll(m)
        PROVE  Rest
    BY <1>2, <2>2 DEF HandleRevokeAll, authorityVars
  <2>3. ASSUME NEW a \in Approvals, SignerActivates(a) \/ SignerRevokesAlone(a)
        PROVE  Rest
    BY <1>2, <2>3 DEF SignerActivates, SignerRevokesAlone, AuthorityType, authorityVars
  <2>4. CASE SignerAdvancesAlone
    BY <1>2, <2>4 DEF SignerAdvancesAlone, authorityVars
  <2> QED
    BY <1>8, <2>1, <2>2, <2>3, <2>4 DEF SignerStep
<1>9. ASSUME \E a \in Approvals : ActivateSignerReceipt(a)
      PROVE  Rest
  BY <1>3, <1>9 DEF ActivateSignerReceipt, authorityVars, signerVars
<1>10. ASSUME UNCHANGED revocationVars
      PROVE  Rest
  BY <1>3, <1>10 DEF revocationVars, authorityVars, signerVars
<1>11. Rest
  BY <1>4, <1>5, <1>6, <1>7, <1>8, <1>9, <1>10 DEF RevocationNext, CallStep
<1> QED
  BY <1>1, <1>11 DEF Grows

\* The local wallet epoch never goes back (reconcile_revocation,
\* advance_local_epoch).
THEOREM EpochIsMonotone == RevocationSpec => EpochNeverGoesBack
<1>1. TypeInv /\ [RevocationNext]_revocationVars => wallet'.epoch >= wallet.epoch
  BY StepGrows DEF Grows
<1>2. TypeInv /\ [RevocationNext]_revocationVars => [wallet'.epoch >= wallet.epoch]_revocationVars
  BY <1>1
<1> QED
  BY <1>2, RevocationInitTypes, RevocationNextTypes, PTL DEF RevocationSpec, EpochNeverGoesBack

-----------------------------------------------------------------------------
(* Reconciled epochs, and what a late sign call has learned. *)

\* A snapshot the barrier works from is not ahead of the Signer.
SnapshotReached(c) ==
  step[c] \in {"reconcile", "stops"} => snapshot[c].epoch <= signerEpoch

\* The Broker's own tables show that a is revoked.
Known(a) == a \in tombstones \/ EpochOf[a] < wallet.epoch \/ Stopped(a)

\* A sign call for an approval revoked before it began: at each step up to
\* authorize the revocation is in the Signer, then in the snapshot, then in the
\* Broker's tables.
LateEvidence(c) ==
  LET a == request[c].approval IN
  request[c].kind = "sign" /\ late[c] =>
    /\ step[c] = "snapshot" =>
         Known(a) \/ signerApprovals[a] = "revoked" \/ EpochOf[a] < signerEpoch
    /\ step[c] = "reconcile" =>
         Known(a) \/ a \in snapshot[c].tombstones \/ EpochOf[a] < snapshot[c].epoch
    /\ step[c] = "stops" => Known(a) \/ EpochOf[a] < snapshot[c].epoch
    /\ step[c] \in {"older", "push", "await_revoke_all", "authorize"} => Known(a)
    /\ step[c] # "authorized"

RevocationInv ==
  /\ ReconciledIsKnown
  /\ \A c \in Calls : SnapshotReached(c) /\ LateEvidence(c)

\* What other calls and the Signer do takes no evidence away.
LEMMA KnownGrows ==
  ASSUME TypeInv, TypeInv', Grows, NEW a \in Approvals, Known(a)
  PROVE  Known(a)'
BY RevocationAssumption DEF Known, Grows, TypeInv, AuthorityType

LEMMA EvidenceKept ==
  ASSUME TypeInv, TypeInv', Grows, NEW c \in Calls, SnapshotReached(c), LateEvidence(c),
         step'[c] = step[c], snapshot'[c] = snapshot[c], request'[c] = request[c],
         late'[c] = late[c]
  PROVE  SnapshotReached(c)' /\ LateEvidence(c)'
<1>1. /\ signerEpoch \in Nat /\ signerEpoch' \in Nat /\ signerEpoch' >= signerEpoch
      /\ snapshot[c].epoch \in Nat
  BY RevocationAssumption DEF TypeInv, AuthorityType, SnapshotType, Grows
<1>2. SnapshotReached(c)'
  BY <1>1 DEF SnapshotReached
<1>3. LateEvidence(c)'
  <2>1. CASE step[c] = "idle"
    BY <2>1 DEF LateEvidence
  <2>2. CASE request[c].kind # "sign"
    BY <2>2 DEF LateEvidence
  <2>3. CASE step[c] # "idle" /\ request[c].kind = "sign"
    <3> DEFINE a == request[c].approval
    <3>1. a \in Approvals /\ EpochOf[a] \in Nat
      BY <2>3, RevocationAssumption DEF TypeInv, CallShape
    <3>2. Known(a) => Known(a)'
      BY <3>1, KnownGrows
    <3>3. signerApprovals[a] = "revoked" => signerApprovals'[a] = "revoked"
      BY <3>1 DEF Grows
    <3>4. EpochOf[a] < signerEpoch => EpochOf[a] < signerEpoch'
      BY <1>1, <3>1
    <3> QED
      BY <3>2, <3>3, <3>4 DEF LateEvidence, Known, Stopped
  <2> QED
    BY <2>1, <2>2, <2>3
<1> QED
  BY <1>2, <1>3

\* At the other steps there is nothing to show.
LEMMA QuietStep ==
  ASSUME NEW c \in Calls,
         step'[c] \notin {"snapshot", "reconcile", "stops", "older", "push", "await_revoke_all",
                         "authorize", "authorized"}
  PROVE  SnapshotReached(c)' /\ LateEvidence(c)'
BY DEF SnapshotReached, LateEvidence

\* Known carries a call from one step past the snapshot to the next.
LEMMA KnownStep ==
  ASSUME TypeInv, TypeInv', Grows, NEW c \in Calls,
         request'[c] = request[c], late'[c] = late[c],
         request[c].kind = "sign" /\ late[c] => Known(request[c].approval),
         request[c].kind = "sign" => request[c].approval \in Approvals,
         step'[c] \notin {"reconcile", "stops", "authorized"}
  PROVE  SnapshotReached(c)' /\ LateEvidence(c)'
<1>1. request[c].kind = "sign" /\ late[c] => Known(request[c].approval)'
  BY KnownGrows
<1> QED
  BY <1>1 DEF SnapshotReached, LateEvidence, Known, Stopped

LEMMA ReconcileEvidence ==
  ASSUME TypeInv, TypeInv', Grows, RevocationInv, NEW c \in Calls,
         ReconcileStep(c) \/ Timeout(c) \/ Fail(c)
  PROVE  SnapshotReached(c)' /\ LateEvidence(c)'
<1> USE StepNames
<1>0. /\ AuthorityType /\ CallShape(c) /\ SnapshotReached(c) /\ LateEvidence(c)
      /\ snapshot[c] \in SnapshotType /\ todo[c] \in SUBSET Approvals /\ step[c] \in Steps
      /\ snapshot[c].epoch \in Nat /\ signerEpoch \in Nat /\ wallet.epoch \in Nat
      /\ \A a \in Approvals : EpochOf[a] \in Nat
  BY RevocationAssumption DEF TypeInv, AuthorityType, SnapshotType, RevocationInv
<1>a. /\ request'[c] = request[c] /\ late'[c] = late[c]
  BY DEF ReconcileStep, Timeout, Fail, RevocationSnapshot, StoreSignerTombstones, StopNext,
         PushLocalEpoch, Converged, AdoptSignerEpoch, OlderDone, SendRevokeAll
<1>b. step[c] # "idle" /\ request[c].kind = "sign" => request[c].approval \in Approvals
  BY <1>0 DEF CallShape
<1>1. CASE Timeout(c) \/ Fail(c)
  BY <1>0, <1>1, GotoFrame, QuietStep DEF Timeout, Fail
<1>2. CASE RevocationSnapshot(c)
  <2> DEFINE state == [epoch |-> signerEpoch,
                       tombstones |-> {a \in Approvals : signerApprovals[a] = "revoked"}]
  <2>1. state \in SnapshotType
    BY <1>0 DEF AuthorityType, SnapshotType
  <2>a. Move(c, "reconcile", state, {}) /\ {} \in SUBSET Approvals
    BY <1>2 DEF RevocationSnapshot
  <2>2. step'[c] = "reconcile" /\ snapshot'[c] = state
    <3> HIDE DEF state
    <3> QED
      BY <1>0, <2>a, <2>1, MoveFrame DEF Ended
  <2>3. UNCHANGED <<wallet, tombstones, approvals, signerEpoch, signerApprovals>>
    BY <1>2 DEF RevocationSnapshot, authorityVars, signerVars, vars, approvalVars
  <2>4. SnapshotReached(c)'
    BY <1>0, <2>2, <2>3 DEF SnapshotReached
  <2>5. LateEvidence(c)'
    BY <1>0, <1>a, <1>b, <1>2, <2>2, <2>3
       DEF LateEvidence, Known, Stopped, RevocationSnapshot
  <2> QED
    BY <2>4, <2>5
<1>3. CASE StoreSignerTombstones(c)
  <2>1. CASE ~(tombstones \subseteq snapshot[c].tombstones)
    BY <1>0, <1>3, <2>1, GotoFrame, QuietStep DEF StoreSignerTombstones
  <2>2. CASE tombstones \subseteq snapshot[c].tombstones
    <3>1. snapshot[c].tombstones \in SUBSET Approvals
      BY <1>0 DEF SnapshotType
    <3>2. step'[c] = "stops" /\ snapshot'[c] = snapshot[c]
      BY <1>0, <1>3, <2>2, <3>1, MoveFrame DEF StoreSignerTombstones, Ended
    <3>3. /\ tombstones' = snapshot[c].tombstones
          /\ UNCHANGED <<wallet, approvals, signerEpoch>>
      BY <1>3, <2>2 DEF StoreSignerTombstones, signerVars, vars, approvalVars
    <3> QED
      BY <1>0, <1>a, <1>3, <2>2, <3>2, <3>3
         DEF SnapshotReached, LateEvidence, Known, Stopped, StoreSignerTombstones
  <2> QED
    BY <2>1, <2>2
<1>4. ASSUME NEW a \in Approvals, StopNext(c, a)
      PROVE  SnapshotReached(c)' /\ LateEvidence(c)'
  <2>1. todo[c] \ {a} \in SUBSET Approvals /\ step[c] \in {"stops", "older"}
    BY <1>0, <1>4 DEF StopNext, Held
  <2>2. step'[c] = step[c] /\ snapshot'[c] = snapshot[c]
    BY <1>0, <1>4, <2>1, MoveFrame DEF StopNext, Ended
  <2> QED
    BY <1>0, <1>a, <2>2, EvidenceKept
<1>5. CASE PushLocalEpoch(c)
  <2>1. step'[c] = "push"
    BY <1>0, <1>5, GotoFrame DEF PushLocalEpoch
  <2>2. request[c].kind = "sign" /\ late[c] => Known(request[c].approval)
    BY <1>0, <1>b, <1>5 DEF LateEvidence, Known, PushLocalEpoch
  <2> QED
    BY <1>a, <1>b, <1>5, <2>1, <2>2, KnownStep DEF PushLocalEpoch
<1>6. CASE Converged(c)
  <2>1. step'[c] \in {"authorize", "ceremony", "done"}
    BY <1>0, <1>6, AfterReconcileSteps, GotoFrame DEF Converged, CallShape
  <2>2. request[c].kind = "sign" /\ late[c] => Known(request[c].approval)
    BY <1>0, <1>b, <1>6 DEF LateEvidence, Known, Converged
  <2> QED
    BY <1>a, <1>b, <1>6, <2>1, <2>2, KnownStep DEF Converged
<1>7. CASE AdoptSignerEpoch(c)
  <2>1. older_approvals(snapshot[c].epoch) \in SUBSET Approvals
    BY DEF older_approvals
  <2>2. step'[c] = "older" /\ wallet'.epoch = snapshot[c].epoch
    BY <1>0, <1>7, <2>1, MoveFrame DEF AdoptSignerEpoch
  <2>3. /\ snapshot[c].epoch > wallet.epoch /\ step[c] = "stops"
        /\ UNCHANGED <<tombstones, approvals>>
    BY <1>7 DEF AdoptSignerEpoch, vars, approvalVars
  <2> QED
    BY <1>0, <1>a, <1>b, <2>2, <2>3 DEF SnapshotReached, LateEvidence, Known, Stopped
<1>8. CASE OlderDone(c)
  <2>1. request[c].kind \in ReconcileKinds \cup {"revoke_all"} /\ step[c] = "older"
    BY <1>0, <1>8 DEF OlderDone, CallShape
  <2>2. step'[c] \in {"push", "authorize", "ceremony", "done"}
    BY <1>0, <1>8, <2>1, AfterReconcileSteps, GotoFrame DEF OlderDone
  <2>3. request[c].kind = "sign" /\ late[c] => Known(request[c].approval)
    BY <1>0, <2>1 DEF LateEvidence
  <2> QED
    BY <1>a, <1>b, <2>1, <2>2, <2>3, KnownStep
<1>9. CASE SendRevokeAll(c)
  <2>1. step[c] = "push" /\ step'[c] \in {"await_revoke_all", "failed"}
    BY <1>0, <1>9, GotoFrame DEF SendRevokeAll
  <2>2. request[c].kind = "sign" /\ late[c] => Known(request[c].approval)
    BY <1>0, <2>1 DEF LateEvidence
  <2> QED
    BY <1>a, <1>b, <2>1, <2>2, KnownStep
<1> QED
  BY <1>1, <1>2, <1>3, <1>4, <1>5, <1>6, <1>7, <1>8, <1>9 DEF ReconcileStep

LEMMA ChokepointEvidence ==
  ASSUME TypeInv, TypeInv', Grows, RevocationInv, NEW c \in Calls, ChokepointStep(c)
  PROVE  SnapshotReached(c)' /\ LateEvidence(c)'
<1> USE StepNames
<1>0. AuthorityType /\ CallShape(c) /\ LateEvidence(c)
  BY DEF TypeInv, RevocationInv
<1>1. CASE Authorize(c)
  <2>1. step'[c] = "authorized" /\ step[c] = "authorize"
    BY <1>0, <1>1, GotoFrame DEF Authorize
  <2>2. request'[c] = request[c] /\ late'[c] = late[c] /\ request[c].approval \in Approvals
    BY <1>0, <1>1 DEF Authorize, CallShape
  <2>3. ~Known(request[c].approval)
    <3>1. EpochOf[request[c].approval] \in Nat
      BY <2>2, RevocationAssumption
    <3> QED
      BY <1>1, <3>1 DEF Authorize, Known, Stopped, CurrentEpoch
  <2>4. request[c].kind = "sign" => ~late[c]
    BY <1>0, <2>1, <2>3 DEF LateEvidence
  <2> QED
    BY <2>1, <2>2, <2>4 DEF SnapshotReached, LateEvidence
<1>2. CASE PrepareCeremony(c) \/ PrepareApproval(c) \/ Denied(c)
  <2>1. step'[c] \in {"record", "done", "failed"}
    BY <1>0, <1>2, GotoFrame DEF PrepareCeremony, PrepareApproval, Denied
  <2> QED
    BY <2>1, QuietStep
<1> QED
  BY <1>1, <1>2 DEF ChokepointStep

LEMMA RevokeEvidence ==
  ASSUME TypeInv, TypeInv', Grows, RevocationInv, NEW c \in Calls, RevokeStep(c)
  PROVE  SnapshotReached(c)' /\ LateEvidence(c)'
<1> USE StepNames
<1>0. /\ AuthorityType /\ CallShape(c) /\ snapshot[c] \in SnapshotType
      /\ todo[c] \in SUBSET Approvals
  BY DEF TypeInv, AuthorityType
<1>1. CASE AdvanceLocalEpoch(c)
  <2>1. request'[c] = request[c] /\ request[c].kind = "revoke_all"
    BY <1>0, <1>1 DEF AdvanceLocalEpoch, CallShape
  <2>2. older_approvals(wallet.epoch + 1) \in SUBSET Approvals
    BY DEF older_approvals
  <2>3. step'[c] \in {"older", "failed"}
    BY <1>0, <1>1, <2>2, MoveFrame, GotoFrame DEF AdvanceLocalEpoch
  <2> QED
    BY <2>1, <2>3 DEF SnapshotReached, LateEvidence
<1>2. CASE AdmitKeyRevocation(c)
  <2>1. request[c].op \in OperationIds
    BY <1>0, <1>2 DEF AdmitKeyRevocation, CallShape
  <2>2. targets[request[c].op] \in SUBSET Approvals /\ targets'[request[c].op] \in SUBSET Approvals
    BY <2>1 DEF TypeInv, TypeOK
  <2>3. step'[c] \in {"next_target", "failed"}
    BY <1>0, <1>2, <2>2, MoveFrame, GotoFrame DEF AdmitKeyRevocation
  <2> QED
    BY <2>3, QuietStep
<1>3. CASE StopLocal(c)
  <2>1. todo[c] \ {request[c].approval} \in SUBSET Approvals
    BY <1>0
  <2>2. step'[c] \in {"send_revoke", "next_target"}
    BY <1>0, <1>3, <2>1, MoveFrame DEF StopLocal
  <2> QED
    BY <2>2, QuietStep
<1>4. CASE ReadEpoch(c)
  <2>1. [NoSnapshot EXCEPT !.epoch = wallet.epoch] \in SnapshotType /\ {} \in SUBSET Approvals
    BY <1>0 DEF NoSnapshot, SnapshotType, AuthorityType
  <2>2. step'[c] = "advance"
    BY <1>0, <1>4, <2>1, MoveFrame DEF ReadEpoch
  <2> QED
    BY <2>2, QuietStep
<1>5. CASE SendRevoke(c) \/ (\E a \in Approvals : NextTarget(c, a)) \/ CompleteTargets(c)
  <2>1. step'[c] \in {"await_revoke", "done"}
    BY <1>0, <1>5, GotoFrame DEF SendRevoke, NextTarget, CompleteTargets
  <2> QED
    BY <2>1, QuietStep
<1> QED
  BY <1>1, <1>2, <1>3, <1>4, <1>5 DEF RevokeStep

\* The locals of one call are its own.
Others(c) ==
  \A d \in Calls \ {c} : /\ step'[d] = step[d] /\ snapshot'[d] = snapshot[d]
                          /\ todo'[d] = todo[d]
                          /\ request'[d] = request[d] /\ late'[d] = late[d]

LEMMA StepOfOneCall ==
  ASSUME TypeInv, TypeInv', NEW c \in Calls,
         (\E r \in Requests : Begin(c, r)) \/ CallStep(c) \/ Fail(c)
  PROVE  Others(c)
<1> USE StepNames
<1>0. /\ AuthorityType /\ CallShape(c) /\ snapshot[c] \in SnapshotType
      /\ todo[c] \in SUBSET Approvals /\ step[c] \in Steps
  BY DEF TypeInv, AuthorityType
<1>1. ASSUME NEW next \in Steps, Goto(c, next), UNCHANGED <<request, late>>
      PROVE  Others(c)
  BY <1>0, <1>1, GotoFrame DEF Others
<1>2. ASSUME NEW next \in Steps, NEW state \in SnapshotType, NEW list \in SUBSET Approvals,
             Move(c, next, state, list), UNCHANGED <<request, late>>
      PROVE  Others(c)
  BY <1>0, <1>2, MoveFrame DEF Others
<1>3. ASSUME NEW r \in Requests, Begin(c, r)
      PROVE  Others(c)
  <2>1. FirstStep(r.kind) \in Steps
    BY FirstSteps, RevocationAssumption
  <2> QED
    BY <1>0, <1>3, <2>1, GotoFrame DEF Begin, Others, AuthorityType
<1>4. CASE Fail(c) \/ Timeout(c) \/ PushLocalEpoch(c) \/ SendRevokeAll(c)
           \/ Authorize(c) \/ PrepareCeremony(c) \/ PrepareApproval(c) \/ Denied(c)
           \/ SendRevoke(c) \/ CompleteTargets(c)
  BY <1>1, <1>4 DEF Fail, Timeout, PushLocalEpoch, SendRevokeAll, Authorize, PrepareCeremony,
                    PrepareApproval, Denied, SendRevoke, CompleteTargets
<1>5. CASE RevocationSnapshot(c)
  <2> DEFINE state == [epoch |-> signerEpoch,
                       tombstones |-> {a \in Approvals : signerApprovals[a] = "revoked"}]
  <2>1. state \in SnapshotType /\ {} \in SUBSET Approvals
    BY <1>0 DEF AuthorityType, SnapshotType
  <2>2. Move(c, "reconcile", state, {}) /\ UNCHANGED <<request, late>>
    BY <1>5 DEF RevocationSnapshot
  <2> HIDE DEF state
  <2> QED
    BY <1>2, <2>1, <2>2
<1>6. CASE StoreSignerTombstones(c)
  <2>1. snapshot[c].tombstones \in SUBSET Approvals
    BY <1>0 DEF SnapshotType
  <2> QED
    BY <1>0, <1>1, <1>2, <1>6, <2>1 DEF StoreSignerTombstones
<1>7. ASSUME NEW a \in Approvals, StopNext(c, a)
      PROVE  Others(c)
  <2>1. todo[c] \ {a} \in SUBSET Approvals
    BY <1>0
  <2> QED
    BY <1>0, <1>2, <1>7, <2>1 DEF StopNext
<1>8. CASE Converged(c) \/ OlderDone(c)
  <2>1. request[c].kind \in ReconcileKinds \cup {"revoke_all"}
    BY <1>0, <1>8 DEF Converged, OlderDone, CallShape
  <2>2. CASE Converged(c)
    <3>1. AfterReconcile(request[c].kind) \in Steps
      BY <1>0, <2>2, AfterReconcileSteps DEF Converged, CallShape
    <3> QED
      BY <1>1, <2>2, <3>1 DEF Converged
  <2>3. CASE OlderDone(c)
    BY <1>1, <2>1, <2>3, AfterReconcileSteps DEF OlderDone
  <2> QED
    BY <1>8, <2>2, <2>3
<1>9. CASE AdoptSignerEpoch(c) \/ AdvanceLocalEpoch(c)
  <2>1. \A e : older_approvals(e) \in SUBSET Approvals
    BY DEF older_approvals
  <2> QED
    BY <1>0, <1>1, <1>2, <1>9, <2>1 DEF AdoptSignerEpoch, AdvanceLocalEpoch
<1>10. CASE StopLocal(c)
  <2>1. todo[c] \ {request[c].approval} \in SUBSET Approvals
    BY <1>0
  <2> QED
    BY <1>0, <1>2, <1>10, <2>1 DEF StopLocal
<1>11. CASE AdmitKeyRevocation(c)
  <2>1. request[c].op \in OperationIds
    BY <1>0, <1>11 DEF AdmitKeyRevocation, CallShape
  <2>2. targets[request[c].op] \in SUBSET Approvals /\ targets'[request[c].op] \in SUBSET Approvals
    BY <2>1 DEF TypeInv, TypeOK
  <2> QED
    BY <1>0, <1>1, <1>2, <1>11, <2>2 DEF AdmitKeyRevocation
<1>12. ASSUME NEW a \in Approvals, NextTarget(c, a)
       PROVE  Others(c)
  BY <1>0, <1>12, GotoFrame DEF NextTarget, Others, AuthorityType
<1>13. CASE ReadEpoch(c)
  <2>1. [NoSnapshot EXCEPT !.epoch = wallet.epoch] \in SnapshotType /\ {} \in SUBSET Approvals
    BY <1>0 DEF NoSnapshot, SnapshotType, AuthorityType
  <2> QED
    BY <1>2, <1>13, <2>1 DEF ReadEpoch
<1> QED
  BY <1>3, <1>4, <1>5, <1>6, <1>7, <1>8, <1>9, <1>10, <1>11, <1>12, <1>13
     DEF CallStep, ReconcileStep, ChokepointStep, RevokeStep

LEMMA BeginEvidence ==
  ASSUME TypeInv, TypeInv', Grows, NEW c \in Calls, NEW r \in Requests, Begin(c, r)
  PROVE  SnapshotReached(c)' /\ LateEvidence(c)'
<1>0. AuthorityType /\ r.kind \in Kinds
  BY RevocationAssumption DEF TypeInv
<1>1. FirstStep(r.kind) \in {"snapshot", "stop_local", "admit", "read_epoch"}
  BY <1>0, FirstSteps
<1>2. FirstStep(r.kind) \in Steps
  BY <1>1, StepNames
<1>3. step'[c] = FirstStep(r.kind) /\ request'[c] = r /\ late'[c] = (r.approval \in RevokedNow)
  BY <1>0, <1>2, GotoFrame DEF Begin, AuthorityType
<1>4. UNCHANGED <<wallet, tombstones, approvals, signerEpoch, signerApprovals>>
  BY DEF Begin, authorityVars, signerVars, vars, approvalVars
<1>5. r.approval \in RevokedNow =>
        (Known(r.approval) \/ signerApprovals[r.approval] = "revoked"
          \/ EpochOf[r.approval] < signerEpoch)'
  BY <1>4 DEF RevokedNow, Known, Stopped
<1> QED
  BY <1>1, <1>3, <1>5 DEF SnapshotReached, LateEvidence

LEMMA SignerEvidence ==
  ASSUME TypeInv, TypeInv', Grows, RevocationInv,
         SignerStep \/ (\E a \in Approvals : ActivateSignerReceipt(a)) \/ UNCHANGED revocationVars
  PROVE  \A c \in Calls : SnapshotReached(c)' /\ LateEvidence(c)'
<1> USE StepNames
<1>0. AuthorityType /\ \A c \in Calls : CallShape(c) /\ SnapshotReached(c) /\ LateEvidence(c)
  BY DEF TypeInv, RevocationInv
<1> SUFFICES ASSUME NEW c \in Calls
             PROVE  SnapshotReached(c)' /\ LateEvidence(c)'
  OBVIOUS
<1>1. ASSUME NEW m \in wire, HandleRevoke(m)
      PROVE  SnapshotReached(c)' /\ LateEvidence(c)'
  <2>1. m.call \in Calls /\ UNCHANGED <<request, late>>
    BY <1>0, <1>1 DEF HandleRevoke, AuthorityType
  <2>2. CASE step[m.call] # "await_revoke"
    BY <1>0, <1>1, <2>1, <2>2, EvidenceKept DEF HandleRevoke
  <2>3. CASE step[m.call] = "await_revoke"
    <3> DEFINE next == IF request[m.call].kind = "revoke_for_key" THEN "stop_local"
                       ELSE IF signerApprovals[m.approval] = "unknown" \/ approvals[m.approval] = "ABSENT"
                       THEN "failed" ELSE "done"
    <3>1. Goto(m.call, next) /\ next \in {"stop_local", "failed", "done"}
      BY <1>1, <2>3 DEF HandleRevoke
    <3>2. /\ step'[m.call] = next
          /\ \A d \in Calls \ {m.call} : step'[d] = step[d] /\ snapshot'[d] = snapshot[d]
      <4> HIDE DEF next
      <4> QED
        BY <1>0, <2>1, <3>1, GotoFrame
    <3>3. CASE c = m.call
      <4>1. step'[c] \in {"stop_local", "failed", "done"}
        BY <3>1, <3>2, <3>3
      <4> QED
        BY <4>1, QuietStep
    <3>4. CASE c # m.call
      BY <1>0, <2>1, <3>2, <3>4, EvidenceKept
    <3> QED
      BY <3>3, <3>4
  <2> QED
    BY <2>2, <2>3
<1>2. ASSUME NEW m \in wire, HandleRevokeAll(m)
      PROVE  SnapshotReached(c)' /\ LateEvidence(c)'
  <2>1. m.call \in Calls /\ UNCHANGED <<request, late>>
    BY <1>0, <1>2 DEF HandleRevokeAll, AuthorityType
  <2>2. CASE step[m.call] # "await_revoke_all"
    BY <1>0, <1>2, <2>1, <2>2, EvidenceKept DEF HandleRevokeAll
  <2>3. CASE step[m.call] = "await_revoke_all"
    <3> DEFINE next == IF signerEpoch = MaxEpoch THEN "failed"
                       ELSE IF request[m.call].kind = "revoke_all" THEN "done" ELSE "snapshot"
    <3>1. Goto(m.call, next) /\ next \in {"snapshot", "failed", "done"}
      BY <1>2, <2>3 DEF HandleRevokeAll
    <3>2. /\ step'[m.call] = next
          /\ \A d \in Calls \ {m.call} : step'[d] = step[d] /\ snapshot'[d] = snapshot[d]
      <4> HIDE DEF next
      <4> QED
        BY <1>0, <2>1, <3>1, GotoFrame
    <3>3. CASE c = m.call
      <4>1. /\ step'[c] \in {"snapshot", "failed", "done"}
            /\ request'[c] = request[c] /\ late'[c] = late[c]
        BY <2>1, <3>1, <3>2, <3>3
      <4>2. request[c].kind = "sign" => request[c].approval \in Approvals
        BY <1>0, <2>3, <3>3 DEF CallShape
      <4>3. request[c].kind = "sign" /\ late[c] => Known(request[c].approval)
        BY <1>0, <2>3, <3>3 DEF LateEvidence
      <4> QED
        BY <4>1, <4>2, <4>3, KnownStep
    <3>4. CASE c # m.call
      BY <1>0, <2>1, <3>2, <3>4, EvidenceKept
    <3> QED
      BY <3>3, <3>4
  <2> QED
    BY <2>2, <2>3
<1>3. CASE UNCHANGED callVars
  <2>1. /\ step'[c] = step[c] /\ snapshot'[c] = snapshot[c]
        /\ request'[c] = request[c] /\ late'[c] = late[c]
    BY <1>3 DEF callVars
  <2> QED
    BY <1>0, <2>1, EvidenceKept
<1> QED
  BY <1>1, <1>2, <1>3 DEF SignerStep, SignerActivates, SignerRevokesAlone, SignerAdvancesAlone,
                          ActivateSignerReceipt, revocationVars

\* The row becomes reconciled only under a snapshot that has its epoch.
LEMMA ReconciledStep ==
  ASSUME TypeInv, TypeInv', Grows, RevocationInv, [RevocationNext]_revocationVars
  PROVE  ReconciledIsKnown'
<1>0. /\ ReconciledIsKnown /\ wallet.epoch \in Nat /\ wallet'.epoch \in Nat
      /\ signerEpoch \in Nat /\ signerEpoch' \in Nat /\ signerEpoch' >= signerEpoch
      /\ \A c \in Calls : snapshot[c].epoch \in Nat /\ SnapshotReached(c)
      /\ wallet = [epoch |-> wallet.epoch, reconciled |-> wallet.reconciled]
  BY RevocationAssumption DEF TypeInv, AuthorityType, SnapshotType, RevocationInv, Grows
<1>1. CASE UNCHANGED wallet
  BY <1>0, <1>1 DEF ReconciledIsKnown
<1>2. ASSUME NEW c \in Calls, PushLocalEpoch(c) \/ AdvanceLocalEpoch(c)
      PROVE  ReconciledIsKnown'
  <2>1. UNCHANGED wallet \/ wallet'.reconciled = FALSE
    BY <1>0, <1>2 DEF PushLocalEpoch, AdvanceLocalEpoch
  <2> QED
    BY <1>1, <2>1 DEF ReconciledIsKnown
<1>3. ASSUME NEW c \in Calls, Converged(c) \/ AdoptSignerEpoch(c)
      PROVE  ReconciledIsKnown'
  <2>1. wallet'.epoch = snapshot[c].epoch /\ step[c] = "stops"
    BY <1>0, <1>3 DEF Converged, AdoptSignerEpoch
  <2>2. snapshot[c].epoch <= signerEpoch
    BY <1>0, <2>1 DEF SnapshotReached
  <2> QED
    BY <1>0, <2>1, <2>2 DEF ReconciledIsKnown
<1>4. ASSUME NEW c \in Calls,
             \/ \E r \in Requests : Begin(c, r)
             \/ Fail(c) \/ Timeout(c) \/ RevocationSnapshot(c) \/ StoreSignerTombstones(c)
             \/ (\E a \in Approvals : StopNext(c, a)) \/ OlderDone(c) \/ SendRevokeAll(c)
             \/ ChokepointStep(c) \/ StopLocal(c) \/ SendRevoke(c) \/ AdmitKeyRevocation(c)
             \/ (\E a \in Approvals : NextTarget(c, a)) \/ CompleteTargets(c) \/ ReadEpoch(c)
      PROVE  UNCHANGED wallet
  BY <1>4 DEF Begin, Fail, Timeout, RevocationSnapshot, StoreSignerTombstones, StopNext, OlderDone,
              SendRevokeAll, ChokepointStep, Authorize, PrepareCeremony, PrepareApproval, Denied,
              StopLocal, SendRevoke, AdmitKeyRevocation, NextTarget, CompleteTargets, ReadEpoch,
              authorityVars
<1>5. CASE SignerStep \/ \E a \in Approvals : ActivateSignerReceipt(a)
  BY <1>1, <1>5 DEF SignerStep, SignerActivates, SignerRevokesAlone, SignerAdvancesAlone,
                    HandleRevoke, HandleRevokeAll, ActivateSignerReceipt, authorityVars
<1>6. CASE UNCHANGED revocationVars
  BY <1>1, <1>6 DEF revocationVars, authorityVars
<1> QED
  BY <1>1, <1>2, <1>3, <1>4, <1>5, <1>6 DEF RevocationNext, CallStep, ReconcileStep, RevokeStep

LEMMA RevocationInvInit == RevocationInit => RevocationInv
BY DEF RevocationInit, RevocationInv, ReconciledIsKnown, SnapshotReached, LateEvidence, NoRequest

LEMMA RevocationInvStep ==
  TypeInv /\ TypeInv' /\ RevocationInv /\ [RevocationNext]_revocationVars => RevocationInv'
<1> SUFFICES ASSUME TypeInv, TypeInv', RevocationInv, [RevocationNext]_revocationVars
             PROVE  RevocationInv'
  OBVIOUS
<1>1. Grows
  BY StepGrows
<1>2. ReconciledIsKnown'
  BY <1>1, ReconciledStep
<1> DEFINE Evidence == \A c \in Calls : SnapshotReached(c)' /\ LateEvidence(c)'
<1>3. ASSUME NEW c \in Calls, (\E r \in Requests : Begin(c, r)) \/ CallStep(c) \/ Fail(c)
      PROVE  Evidence
  <2>1. SnapshotReached(c)' /\ LateEvidence(c)'
    BY <1>1, <1>3, BeginEvidence, ReconcileEvidence, ChokepointEvidence, RevokeEvidence DEF CallStep
  <2>2. ASSUME NEW d \in Calls \ {c}
        PROVE  SnapshotReached(d)' /\ LateEvidence(d)'
    <3>1. /\ step'[d] = step[d] /\ snapshot'[d] = snapshot[d]
          /\ request'[d] = request[d] /\ late'[d] = late[d]
      BY <1>3, StepOfOneCall DEF Others
    <3> QED
      BY <1>1, <3>1, EvidenceKept DEF RevocationInv
  <2> QED
    BY <2>1, <2>2
<1>4. CASE \/ SignerStep \/ (\E a \in Approvals : ActivateSignerReceipt(a))
           \/ UNCHANGED revocationVars
  BY <1>1, <1>2, <1>4, SignerEvidence DEF RevocationInv
<1>5. Evidence => RevocationInv'
  BY <1>2 DEF RevocationInv
<1> QED
  BY <1>3, <1>4, <1>5 DEF RevocationNext

LEMMA RevocationInvariance == RevocationSpec => [](TypeInv /\ RevocationInv)
BY RevocationInitTypes, RevocationNextTypes, RevocationInvInit, RevocationInvStep, PTL
   DEF RevocationSpec

\* A wallet epoch counts as reconciled only once the Signer has reached it, for
\* any number of calls, crashes and late or lost revocations.
THEOREM ReconciledEpochIsKnown == RevocationSpec => []ReconciledIsKnown
<1>1. RevocationInv => ReconciledIsKnown
  BY DEF RevocationInv
<1> QED
  BY <1>1, RevocationInvariance, PTL

\* A sign call never authorizes an approval that was revoked, at the Signer or in
\* the Broker, before the call began.
THEOREM NoLateAuthorization == RevocationSpec => []AuthorizedWasLive
<1>1. TypeInv /\ RevocationInv => AuthorizedWasLive
  BY DEF TypeInv, CallShape, RevocationInv, LateEvidence, AuthorizedWasLive
<1> QED
  BY <1>1, RevocationInvariance, PTL

-----------------------------------------------------------------------------
(* Key stops. *)

\* On a stopped key no automation waits for its ceremony: what the key stop does
\* not fence, no later preparation creates.
StopsFence ==
  \A a \in Automation : ~ensure_key_not_stopped(a) => approvals[a] # "AWAITING_CEREMONY"

\* How one step may move approval a: it starts to wait only past the key check, it
\* becomes active only from waiting, and a new stop of its key leaves it not waiting.
Moves(a) ==
  /\ approvals'[a] = "AWAITING_CEREMONY" =>
       \/ approvals[a] = "AWAITING_CEREMONY"
       \/ ensure_key_not_stopped(a) /\ UNCHANGED stops
  /\ approvals'[a] = "ACTIVE" => approvals[a] \in {"ACTIVE", "AWAITING_CEREMONY"}
  /\ \A key \in stops' \ stops : a \in KeyTargets[key] => approvals'[a] # "AWAITING_CEREMONY"

LEMMA StopMoves ==
  ASSUME TypeOK, NEW a \in Approvals, NEW b \in Approvals, stop_approval(b)
  PROVE  /\ approvals'[a] = "AWAITING_CEREMONY" => approvals[a] = "AWAITING_CEREMONY"
         /\ approvals'[a] = "ACTIVE" => approvals[a] = "ACTIVE"
BY DEF stop_approval, TransitionApproval, TypeOK, vars, approvalVars

LEMMA StepMoves ==
  ASSUME TypeInv, [RevocationNext]_revocationVars, NEW a \in Approvals
  PROVE  Moves(a)
<1>0. TypeOK /\ \A c \in Calls : CallShape(c)
  BY DEF TypeInv
<1>1. CASE UNCHANGED approvals /\ UNCHANGED stops
  BY <1>1 DEF Moves
<1>2. ASSUME NEW c \in Calls, NEW b \in Approvals, StopNext(c, b)
      PROVE  Moves(a)
  BY <1>0, <1>2, StopMoves DEF StopNext, authorityVars, Moves
<1>3. ASSUME NEW c \in Calls, StopLocal(c)
      PROVE  Moves(a)
  <2>1. request[c].approval \in Approvals
    BY <1>0, <1>3 DEF StopLocal, CallShape
  <2> QED
    BY <1>0, <1>3, <2>1, StopMoves DEF StopLocal, authorityVars, Moves
<1>4. ASSUME NEW c \in Calls, Authorize(c)
      PROVE  UNCHANGED approvals /\ UNCHANGED stops
  BY <1>4 DEF Authorize, Reserve, authorityVars, vars, approvalVars
<1>5. ASSUME NEW c \in Calls, PrepareApproval(c)
      PROVE  Moves(a)
  <2>1. UNCHANGED stops
    BY <1>5 DEF PrepareApproval, authorityVars
  <2>2. CASE UNCHANGED vars
    BY <1>1, <2>1, <2>2 DEF vars, approvalVars
  <2>3. CASE /\ CanPrepare(request[c].approval)
             /\ CreateApprovalRecord(request[c].approval, RenewalOf[request[c].approval])
    BY <1>0, <2>1, <2>3 DEF CanPrepare, CreateApprovalRecord, Moves, TypeOK
  <2> QED
    BY <1>5, <2>2, <2>3 DEF PrepareApproval
<1>6. ASSUME NEW b \in Approvals, ActivateSignerReceipt(b)
      PROVE  Moves(a)
  <2>1. UNCHANGED stops /\ ActivateApprovalRecord(b, ActivationOf[b])
    BY <1>6 DEF ActivateSignerReceipt, authorityVars
  <2> QED
    BY <2>1 DEF ActivateApprovalRecord, CanActivate, Moves
<1>7. ASSUME NEW c \in Calls, AdmitKeyRevocation(c)
      PROVE  Moves(a)
  <2>1. CASE UNCHANGED vars /\ UNCHANGED stops
    BY <1>1, <2>1 DEF vars, approvalVars
  <2>2. CASE /\ BeginKeyRevocation(request[c].op, request[c].key)
             /\ stops' = stops \cup {request[c].key}
    BY <2>2 DEF BeginKeyRevocation, Moves
  <2> QED
    BY <1>7, <2>1, <2>2 DEF AdmitKeyRevocation
<1>8. ASSUME NEW c \in Calls, CompleteTargets(c)
      PROVE  UNCHANGED approvals /\ UNCHANGED stops
  BY <1>8 DEF CompleteTargets, CompleteKeyRevocation, authorityVars, vars, approvalVars
<1>9. ASSUME NEW c \in Calls,
             \/ \E r \in Requests : Begin(c, r)
             \/ Fail(c) \/ Timeout(c) \/ RevocationSnapshot(c) \/ StoreSignerTombstones(c)
             \/ PushLocalEpoch(c) \/ Converged(c) \/ AdoptSignerEpoch(c) \/ OlderDone(c)
             \/ SendRevokeAll(c) \/ PrepareCeremony(c) \/ Denied(c) \/ SendRevoke(c)
             \/ (\E b \in Approvals : NextTarget(c, b)) \/ ReadEpoch(c) \/ AdvanceLocalEpoch(c)
      PROVE  UNCHANGED approvals /\ UNCHANGED stops
  BY <1>9 DEF Begin, Fail, Timeout, RevocationSnapshot, StoreSignerTombstones, PushLocalEpoch,
              Converged, AdoptSignerEpoch, OlderDone, SendRevokeAll, PrepareCeremony, Denied,
              SendRevoke, NextTarget, ReadEpoch, AdvanceLocalEpoch, authorityVars, vars, approvalVars
<1>10. CASE SignerStep
  BY <1>1, <1>10 DEF SignerStep, SignerActivates, SignerRevokesAlone, SignerAdvancesAlone,
                     HandleRevoke, HandleRevokeAll, authorityVars, vars, approvalVars
<1>11. CASE UNCHANGED revocationVars
  BY <1>1, <1>11 DEF revocationVars, authorityVars, vars, approvalVars
<1> QED
  BY <1>1, <1>2, <1>3, <1>4, <1>5, <1>6, <1>7, <1>8, <1>9, <1>10, <1>11
     DEF RevocationNext, CallStep, ReconcileStep, ChokepointStep, RevokeStep

LEMMA StopsFenceStep == TypeInv /\ StopsFence /\ [RevocationNext]_revocationVars => StopsFence'
<1> SUFFICES ASSUME TypeInv, StopsFence, [RevocationNext]_revocationVars,
                    NEW a \in Automation, (~ensure_key_not_stopped(a))'
             PROVE  approvals'[a] # "AWAITING_CEREMONY"
  BY DEF StopsFence
<1>1. Moves(a)
  BY StepMoves, RevocationAssumption
<1>2. PICK key \in stops' : a \in KeyTargets[key]
  BY DEF ensure_key_not_stopped
<1>3. CASE key \in stops
  BY <1>1, <1>2, <1>3 DEF Moves, StopsFence, ensure_key_not_stopped
<1>4. CASE key \notin stops
  BY <1>1, <1>2, <1>4 DEF Moves
<1> QED
  BY <1>3, <1>4

\* On a stopped key no reusable approval is prepared, waits for its ceremony or
\* becomes active, though activate_signer_receipt never reads key_stops.
THEOREM StoppedKeyIsFenced == RevocationSpec => StoppedKeyAdmitsNoAutomation
<1>1. RevocationInit => StopsFence
  BY DEF RevocationInit, StopsFence, ensure_key_not_stopped
<1> DEFINE Admits == \A a \in Automation :
             ~ensure_key_not_stopped(a) =>
               /\ approvals[a] # "AWAITING_CEREMONY"
               /\ approvals[a] # "ACTIVE" =>
                    approvals'[a] \notin {"AWAITING_CEREMONY", "ACTIVE"}
<1>2. TypeInv /\ StopsFence /\ [RevocationNext]_revocationVars => Admits
  <2> SUFFICES ASSUME TypeInv, StopsFence, [RevocationNext]_revocationVars,
                      NEW a \in Automation, ~ensure_key_not_stopped(a)
               PROVE  /\ approvals[a] # "AWAITING_CEREMONY"
                      /\ approvals[a] # "ACTIVE" =>
                           approvals'[a] \notin {"AWAITING_CEREMONY", "ACTIVE"}
    OBVIOUS
  <2>1. Moves(a)
    BY StepMoves, RevocationAssumption
  <2> QED
    BY <2>1 DEF Moves, StopsFence
<1>3. TypeInv /\ StopsFence /\ [RevocationNext]_revocationVars => [Admits]_revocationVars
  BY <1>2
<1> QED
  BY <1>1, <1>3, StopsFenceStep, RevocationInitTypes, RevocationNextTypes, PTL
     DEF RevocationSpec, StoppedKeyAdmitsNoAutomation

-----------------------------------------------------------------------------
(* By-key revocations.  A pass over the targets of a key stop may overlap      *)
(* others, fail half way and be retried; what it has passed stays revoked.     *)

\* No longer waiting for a ceremony: from here an approval can only be stopped.
Entered(a) == approvals[a] \notin {"ABSENT", "PREPARED", "AWAITING_CEREMONY"}

\* Stopped for good here and, if it was ever active, at the Signer.
Past(a) ==
  /\ Entered(a) /\ approvals[a] # "ACTIVE"
  /\ activation[a] # None => signerApprovals[a] = "revoked"

TargetsEntered == \A o \in OperationIds : \A a \in targets[o] : Entered(a)

\* The Broker activates what the Signer has activated.
ActivatedAtSigner == \A a \in Approvals : activation[a] # None => signerApprovals[a] # "unknown"

\* The revocation a running call waits for is the only one it has on the wire.
OneMessage(c) ==
  \A m \in wire :
    m.call = c /\ m.approval # None /\ step[c] \notin Ended =>
      step[c] = "await_revoke" /\ request[c].approval = m.approval

\* A pass of revoke_for_key has put behind it every target it no longer lists;
\* the one it is about to stop here is revoked at the Signer.
Sweeping(c) ==
  LET o == request[c].op
      a == request[c].approval
  IN
  request[c].kind = "revoke_for_key" /\ step[c] \in {"next_target", "await_revoke", "stop_local"} =>
    /\ operations[o].kind = "key_revocation"
    /\ todo[c] \subseteq targets[o]
    /\ \A b \in targets[o] \ todo[c] : Past(b)
    /\ step[c] \in {"await_revoke", "stop_local"} => a \in todo[c]
    /\ step[c] = "stop_local" => (activation[a] # None => signerApprovals[a] = "revoked")

KeyRevocationDone ==
  \A o \in OperationIds :
    operations[o].kind = "key_revocation" /\ operations[o].state = "SUCCEEDED" =>
      \A a \in targets[o] : Past(a)

TargetInv ==
  /\ TargetsEntered /\ ActivatedAtSigner /\ KeyRevocationDone
  /\ \A c \in Calls : OneMessage(c) /\ Sweeping(c)

LEMMA JournalKeepsEntered ==
  ASSUME TypeOK, [Next]_vars, NEW a \in Approvals, Entered(a)
  PROVE  /\ Entered(a)'
         /\ approvals'[a] = "ACTIVE" => approvals[a] = "ACTIVE"
         /\ activation'[a] = activation[a]
<1> DEFINE Kept == /\ Entered(a)'
                   /\ approvals'[a] = "ACTIVE" => approvals[a] = "ACTIVE"
                   /\ activation'[a] = activation[a]
<1>0. approvals[a] \in ApprovalState \cup {"ABSENT"}
  BY DEF TypeOK
<1>1. ASSUME UNCHANGED <<approvals, activation>>
      PROVE  Kept
  BY <1>1 DEF Entered
<1>2. CASE ApprovalStep
  <2>1. ASSUME NEW b \in Approvals, NEW p, CreateApprovalRecord(b, p)
        PROVE  Kept
    BY <2>1 DEF CreateApprovalRecord, Entered, TypeOK
  <2>2. ASSUME NEW b \in Approvals, NEW id, ActivateApprovalRecord(b, id)
        PROVE  Kept
    BY <2>2 DEF ActivateApprovalRecord, CanActivate, Entered, TypeOK
  <2>3. ASSUME NEW b \in Approvals, NEW next \in {"FAILED", "REVOKED"}, TransitionApproval(b, next)
        PROVE  Kept
    BY <2>3 DEF TransitionApproval, Entered, TypeOK
  <2> QED
    BY <1>2, <2>1, <2>2, <2>3 DEF ApprovalStep
<1>3. ASSUME NEW o \in OperationIds, NEW params \in DOMAIN KeyTargets, BeginKeyRevocation(o, params)
      PROVE  Kept
  BY <1>3 DEF BeginKeyRevocation, Entered, TypeOK
<1>4. CASE OperationStep
  <2>1. \A o \in OperationIds, next \in OperationState :
          TransitionOperation(o, next) => UNCHANGED <<approvals, activation>>
    BY DEF TransitionOperation, approvalVars
  <2>2. \A o \in OperationIds : CompleteKeyRevocation(o) => UNCHANGED <<approvals, activation>>
    BY DEF CompleteKeyRevocation, approvalVars
  <2>3. \A o \in OperationIds, b \in Approvals, d \in Digests, f \in Fields, batch \in BOOLEAN,
           attempt \in AttemptIds, envelope \in Envelopes :
          BeginSignAttempt(o, b, d, f, batch, attempt, envelope) => UNCHANGED <<approvals, activation>>
    BY DEF BeginSignAttempt, BeginFresh, BeginRetry, approvalVars
  <2> QED
    BY <1>1, <1>3, <1>4, <2>1, <2>2, <2>3 DEF OperationStep
<1>5. CASE LedgerStep
  <2>1. \A b \in Approvals, o \in OperationIds, result \in Results :
          \A n, event : Publish(b, o, result, n, event) => UNCHANGED <<approvals, activation>>
    BY DEF Publish, approvalVars
  <2>2. UNCHANGED <<approvals, activation>>
    BY <1>5, <2>1 DEF LedgerStep, Reserve, FinalizeReservation, PublishResult, PublishBatch, approvalVars
  <2> QED
    BY <1>1, <2>2
<1>6. CASE ClockStep \/ UNCHANGED vars
  BY <1>1, <1>6 DEF ClockStep, ObserveTime, RepairClock, approvalVars, vars
<1> QED
  BY <1>2, <1>4, <1>5, <1>6 DEF Next

\* What the steps do to the rows of by-key revocations: one begins, one completes,
\* or none changes.
LEMMA StepOnTargets ==
  ASSUME TypeInv, [RevocationNext]_revocationVars
  PROVE  \/ UNCHANGED <<operations, targets>>
         \/ \E c \in Calls :
              /\ AdmitKeyRevocation(c)
              /\ BeginKeyRevocation(request[c].op, request[c].key)
         \/ \E c \in Calls : CompleteTargets(c) /\ CompleteKeyRevocation(request[c].op)
<1> DEFINE Same == UNCHANGED <<operations, targets>>
<1>0. UNCHANGED vars => Same
  BY DEF vars, operationVars
<1>1. ASSUME NEW a, stop_approval(a)
      PROVE  Same
  BY <1>0, <1>1 DEF stop_approval, TransitionApproval, operationVars
<1>2. ASSUME NEW c \in Calls, NEW a \in Approvals, StopNext(c, a)
      PROVE  Same
  BY <1>1, <1>2 DEF StopNext
<1>3. ASSUME NEW c \in Calls, StopLocal(c)
      PROVE  Same
  BY <1>0, <1>3 DEF StopLocal, stop_approval, TransitionApproval, operationVars
<1>4. ASSUME NEW c \in Calls, Authorize(c) \/ PrepareApproval(c)
      PROVE  Same
  BY <1>0, <1>4 DEF Authorize, Reserve, PrepareApproval, CreateApprovalRecord, operationVars
<1>5. ASSUME NEW a \in Approvals, ActivateSignerReceipt(a)
      PROVE  Same
  BY <1>5 DEF ActivateSignerReceipt, ActivateApprovalRecord, operationVars
<1>6. ASSUME NEW c \in Calls, AdmitKeyRevocation(c)
      PROVE  Same \/ BeginKeyRevocation(request[c].op, request[c].key)
  BY <1>0, <1>6 DEF AdmitKeyRevocation
<1>7. ASSUME NEW c \in Calls, CompleteTargets(c)
      PROVE  Same \/ CompleteKeyRevocation(request[c].op)
  BY <1>0, <1>7 DEF CompleteTargets
<1>8. ASSUME NEW c \in Calls,
             \/ \E r \in Requests : Begin(c, r)
             \/ Fail(c) \/ Timeout(c) \/ RevocationSnapshot(c) \/ StoreSignerTombstones(c)
             \/ PushLocalEpoch(c) \/ Converged(c) \/ AdoptSignerEpoch(c) \/ OlderDone(c)
             \/ SendRevokeAll(c) \/ PrepareCeremony(c) \/ Denied(c) \/ SendRevoke(c)
             \/ (\E b \in Approvals : NextTarget(c, b)) \/ ReadEpoch(c) \/ AdvanceLocalEpoch(c)
      PROVE  Same
  BY <1>0, <1>8 DEF Begin, Fail, Timeout, RevocationSnapshot, StoreSignerTombstones, PushLocalEpoch,
              Converged, AdoptSignerEpoch, OlderDone, SendRevokeAll, PrepareCeremony, Denied,
              SendRevoke, NextTarget, ReadEpoch, AdvanceLocalEpoch
<1>9. CASE SignerStep
  BY <1>0, <1>9 DEF SignerStep, SignerActivates, SignerRevokesAlone, SignerAdvancesAlone,
                    HandleRevoke, HandleRevokeAll
<1>10. CASE UNCHANGED revocationVars
  BY <1>0, <1>10 DEF revocationVars
<1> QED
  BY <1>2, <1>3, <1>4, <1>5, <1>6, <1>7, <1>8, <1>9, <1>10
     DEF RevocationNext, CallStep, ReconcileStep, ChokepointStep, RevokeStep

\* A by-key revocation keeps its kind and its targets, and what is past stays past.
TargetsKept ==
  /\ \A o \in OperationIds :
       operations[o].kind = "key_revocation" =>
         operations'[o].kind = "key_revocation" /\ targets'[o] = targets[o]
  /\ \A a \in Approvals : Entered(a) => Entered(a)' /\ activation'[a] = activation[a]
  /\ \A a \in Approvals : Past(a) => Past(a)'

LEMMA StepKeepsTargets ==
  ASSUME TypeInv, [RevocationNext]_revocationVars
  PROVE  TargetsKept
<1>1. [Next]_vars /\ Grows /\ TypeOK
  BY StepIsJournal, StepGrows DEF TypeInv
<1>2. \A a \in Approvals : Entered(a) => Entered(a)' /\ activation'[a] = activation[a]
  BY <1>1, JournalKeepsEntered
<1>3. ASSUME NEW a \in Approvals, Past(a)
      PROVE  Past(a)'
  <2>1. Entered(a)' /\ approvals'[a] # "ACTIVE" /\ activation'[a] = activation[a]
    BY <1>1, <1>3, JournalKeepsEntered DEF Past
  <2> QED
    BY <1>1, <1>3, <2>1 DEF Past, Grows
<1>4. ASSUME NEW o \in OperationIds, operations[o].kind = "key_revocation"
      PROVE  operations'[o].kind = "key_revocation" /\ targets'[o] = targets[o]
  <2>1. CASE UNCHANGED <<operations, targets>>
    BY <1>4, <2>1
  <2>2. ASSUME NEW c \in Calls, BeginKeyRevocation(request[c].op, request[c].key)
        PROVE  operations'[o].kind = "key_revocation" /\ targets'[o] = targets[o]
    BY <1>1, <1>4, <2>2 DEF BeginKeyRevocation, TypeOK
  <2>3. ASSUME NEW c \in Calls, CompleteKeyRevocation(request[c].op)
        PROVE  operations'[o].kind = "key_revocation" /\ targets'[o] = targets[o]
    BY <1>1, <1>4, <2>3 DEF CompleteKeyRevocation, TypeOK, OperationRow
  <2> QED
    BY <2>1, <2>2, <2>3, StepOnTargets
<1> QED
  BY <1>2, <1>3, <1>4 DEF TargetsKept

\* A call that has sent nothing, or whose message was handled, has none on the wire.
LEMMA NoMessage ==
  ASSUME NEW c \in Calls, OneMessage(c), step[c] \notin Ended \cup {"await_revoke"},
         \A m \in wire' : m \in wire \/ m.approval = None
  PROVE  OneMessage(c)'
BY DEF OneMessage

\* The moving call: what it sends is its own, and its pass stays right.
LEMMA CallSweeps ==
  ASSUME TypeInv, TypeInv', TargetInv, TargetsKept, NEW c \in Calls,
         (\E r \in Requests : Begin(c, r)) \/ CallStep(c) \/ Fail(c)
  PROVE  /\ OneMessage(c)' /\ Sweeping(c)'
         /\ \A m \in wire' : m \in wire \/ m.call = c
<1> USE StepNames
<1> DEFINE Right == /\ OneMessage(c)' /\ Sweeping(c)'
                    /\ \A m \in wire' : m \in wire \/ m.call = c
<1>0. /\ AuthorityType /\ CallShape(c) /\ snapshot[c] \in SnapshotType
      /\ todo[c] \in SUBSET Approvals /\ step[c] \in Steps
      /\ OneMessage(c) /\ Sweeping(c)
  BY DEF TypeInv, AuthorityType, TargetInv
<1>1. ASSUME step[c] \notin Ended \cup {"await_revoke"},
             step'[c] \notin {"next_target", "await_revoke", "stop_local"}
                \/ request'[c].kind # "revoke_for_key",
             \A m \in wire' : m \in wire \/ (m.approval = None /\ m.call = c)
      PROVE  Right
  <2>1. OneMessage(c)'
    BY <1>0, <1>1, NoMessage
  <2>2. Sweeping(c)'
    BY <1>1 DEF Sweeping
  <2> QED
    BY <1>1, <2>1, <2>2
<1>2. ASSUME step'[c] \in Ended, UNCHANGED wire
      PROVE  Right
  BY <1>2 DEF OneMessage, Sweeping, Ended
<1>3. CASE \E r \in Requests : Begin(c, r)
  <2> PICK r \in Requests : Begin(c, r)
    BY <1>3
  <2>1. r.kind \in Kinds
    BY RevocationAssumption
  <2>2. FirstStep(r.kind) \in Steps /\ FirstStep(r.kind) \notin {"next_target", "await_revoke"}
        /\ (FirstStep(r.kind) = "stop_local" => r.kind = "revoke")
    BY <2>1, FirstSteps
  <2>3. step'[c] = FirstStep(r.kind) /\ request'[c] = r /\ step[c] = "idle" /\ UNCHANGED wire
    BY <1>0, <2>2, GotoFrame DEF Begin, signerVars, AuthorityType
  <2> QED
    BY <1>1, <2>2, <2>3 DEF Ended
<1>4. CASE Fail(c) \/ Timeout(c)
  <2>1. step'[c] = "failed" /\ UNCHANGED wire
    BY <1>0, <1>4, GotoFrame DEF Fail, Timeout, signerVars
  <2> QED
    BY <1>2, <2>1 DEF Ended
<1>5. CASE ReconcileStep(c)
  <2>1. /\ step[c] \in {"snapshot", "reconcile", "stops", "older", "push"}
        /\ \A m \in wire' : m \in wire \/ (m.approval = None /\ m.call = c)
        /\ UNCHANGED request
    <3>1. CASE SendRevokeAll(c)
      BY <3>1 DEF SendRevokeAll
    <3>2. ASSUME NEW a \in Approvals, StopNext(c, a)
          PROVE  step[c] \in {"stops", "older"} /\ UNCHANGED <<wire, request>>
      BY <3>2 DEF StopNext, Held, signerVars
    <3> QED
      BY <1>5, <3>1, <3>2 DEF ReconcileStep, RevocationSnapshot, StoreSignerTombstones,
         PushLocalEpoch, Converged, AdoptSignerEpoch, OlderDone, signerVars
  <2>2. request[c].kind # "revoke_for_key"
    BY <1>0, <2>1 DEF CallShape, ReconcileKinds
  <2> QED
    BY <1>1, <2>1, <2>2 DEF Ended
<1>6. CASE ChokepointStep(c)
  <2>1. /\ step[c] \in {"authorize", "ceremony", "record"}
        /\ UNCHANGED <<request, wire>>
    BY <1>6 DEF ChokepointStep, Authorize, PrepareCeremony, PrepareApproval, Denied, signerVars
  <2>2. request[c].kind # "revoke_for_key"
    BY <1>0, <2>1 DEF CallShape
  <2> QED
    BY <1>1, <2>1, <2>2 DEF Ended
<1>7. CASE ReadEpoch(c) \/ AdvanceLocalEpoch(c)
  <2>1. step[c] \in {"read_epoch", "advance"} /\ UNCHANGED <<request, wire>>
    BY <1>7 DEF ReadEpoch, AdvanceLocalEpoch, signerVars
  <2>2. request[c].kind # "revoke_for_key"
    BY <1>0, <2>1 DEF CallShape
  <2> QED
    BY <1>1, <2>1, <2>2 DEF Ended
<1>8. CASE CompleteTargets(c)
  <2>1. step'[c] = "done" /\ UNCHANGED wire
    BY <1>0, <1>8, GotoFrame DEF CompleteTargets, signerVars
  <2> QED
    BY <1>2, <2>1 DEF Ended
<1>9. ASSUME NEW a \in Approvals, step[c] \notin Ended \cup {"await_revoke"},
             step'[c] = "await_revoke", wire' = wire \cup {[call |-> c, approval |-> a]},
             request'[c].approval = a
      PROVE  OneMessage(c)' /\ \A m \in wire' : m \in wire \/ m.call = c
  <2>1. \A m \in wire : m.call = c => m.approval = None
    BY <1>0, <1>9 DEF OneMessage
  <2> QED
    BY <1>9, <2>1 DEF OneMessage
<1>10. CASE SendRevoke(c)
  <2>1. /\ step[c] = "send_revoke" /\ step'[c] = "await_revoke" /\ UNCHANGED request
        /\ wire' = wire \cup {[call |-> c, approval |-> request[c].approval]}
    BY <1>0, <1>10, GotoFrame DEF SendRevoke
  <2>2. request[c].kind = "revoke" /\ request[c].approval \in Approvals
    BY <1>0, <2>1 DEF CallShape
  <2>3. Sweeping(c)'
    BY <2>1, <2>2 DEF Sweeping
  <2> QED
    BY <1>9, <2>1, <2>2, <2>3 DEF Ended
<1>11. ASSUME NEW a \in Approvals, NextTarget(c, a)
       PROVE  Right
  <2>1. /\ step[c] = "next_target" /\ step'[c] = "await_revoke" /\ a \in todo[c]
        /\ request'[c] = [request[c] EXCEPT !.approval = a] /\ todo'[c] = todo[c]
        /\ wire' = wire \cup {[call |-> c, approval |-> a]}
    BY <1>0, <1>11, GotoFrame DEF NextTarget, Ended, AuthorityType
  <2>2. /\ request'[c].approval = a /\ request'[c].op = request[c].op
        /\ request'[c].kind = request[c].kind /\ request[c].kind = "revoke_for_key"
        /\ request[c].op \in OperationIds
    BY <1>0, <2>1 DEF CallShape, AuthorityType, RequestType
  <2>3. /\ operations'[request[c].op].kind = "key_revocation"
        /\ targets'[request[c].op] = targets[request[c].op]
        /\ todo[c] \subseteq targets[request[c].op]
        /\ \A b \in targets[request[c].op] \ todo[c] : Past(b)
    BY <1>0, <2>1, <2>2 DEF Sweeping, TargetsKept
  <2>4. targets[request[c].op] \subseteq Approvals
    BY <2>2 DEF TypeInv, TypeOK
  <2>5. Sweeping(c)'
    BY <2>1, <2>2, <2>3, <2>4 DEF Sweeping, TargetsKept
  <2> QED
    BY <1>9, <2>1, <2>2, <2>5 DEF Ended
<1>12. CASE AdmitKeyRevocation(c)
  <2> DEFINE o == request[c].op
  <2>1. /\ step[c] = "admit" /\ UNCHANGED <<request, wire>>
        /\ o \in OperationIds /\ request[c].key \in DOMAIN KeyTargets
    BY <1>0, <1>12 DEF AdmitKeyRevocation, signerVars, CallShape
  <2>2. targets[o] \in SUBSET Approvals /\ targets'[o] \in SUBSET Approvals
    BY <2>1 DEF TypeInv, TypeOK
  <2>3. OneMessage(c)'
    BY <1>0, <2>1, NoMessage DEF Ended
  <2>4. CASE Goto(c, "failed")
    BY <1>0, <1>2, <2>1, <2>4, GotoFrame DEF Ended
  <2>5. ASSUME operations'[o].kind = "key_revocation", Move(c, "next_target", snapshot[c], targets'[o])
        PROVE  Right
    <3>1. step'[c] = "next_target" /\ todo'[c] = targets'[o]
      <4>1. PICK list \in SUBSET Approvals : list = targets'[o]
        BY <2>2
      <4>2. Move(c, "next_target", snapshot[c], list)
        BY <2>5, <4>1 DEF Move
      <4> QED
        BY <1>0, <4>1, <4>2, MoveFrame DEF Ended
    <3>2. Sweeping(c)'
      BY <2>1, <2>5, <3>1 DEF Sweeping
    <3> QED
      BY <2>1, <2>3, <3>2
  <2>6. CASE BeginKeyRevocation(o, request[c].key) /\ Move(c, "next_target", snapshot[c], targets'[o])
    <3>1. operations'[o].kind = "key_revocation"
      BY <2>1, <2>6 DEF BeginKeyRevocation, KeyRevocationRow, TypeInv, TypeOK
    <3> QED
      BY <2>5, <2>6, <3>1
  <2>7. CASE /\ operations[o].kind = "key_revocation" /\ UNCHANGED vars
             /\ Move(c, "next_target", snapshot[c], targets[o])
    <3>1. operations' = operations /\ targets' = targets
      BY <2>7 DEF vars, operationVars
    <3> QED
      BY <2>5, <2>7, <3>1
  <2> QED
    BY <1>12, <2>4, <2>6, <2>7 DEF AdmitKeyRevocation
<1>13. CASE StopLocal(c)
  <2> DEFINE o == request[c].op
             a == request[c].approval
  <2>1. /\ step[c] = "stop_local" /\ UNCHANGED <<request, wire>> /\ stop_approval(a)
        /\ o \in OperationIds /\ a \in Approvals
        /\ request[c].kind \in {"revoke", "revoke_for_key"}
    BY <1>0, <1>13 DEF StopLocal, signerVars, CallShape
  <2>2. /\ step'[c] = IF request[c].kind = "revoke" THEN "send_revoke" ELSE "next_target"
        /\ todo'[c] = todo[c] \ {a}
    <3>1. todo[c] \ {a} \in SUBSET Approvals
      BY <1>0
    <3>2. PICK next \in {"send_revoke", "next_target"} :
            next = IF request[c].kind = "revoke" THEN "send_revoke" ELSE "next_target"
      OBVIOUS
    <3>3. Move(c, next, snapshot[c], todo[c] \ {a})
      BY <1>13, <3>2 DEF StopLocal
    <3> QED
      BY <1>0, <3>1, <3>2, <3>3, MoveFrame DEF Ended
  <2>3. CASE request[c].kind = "revoke"
    BY <1>1, <2>1, <2>2, <2>3 DEF Ended
  <2>4. CASE request[c].kind = "revoke_for_key"
    <3>1. /\ operations[o].kind = "key_revocation" /\ todo[c] \subseteq targets[o] /\ a \in todo[c]
          /\ \A b \in targets[o] \ todo[c] : Past(b)
          /\ activation[a] # None => signerApprovals[a] = "revoked"
      BY <1>0, <2>1, <2>4 DEF Sweeping
    <3>2. operations'[o].kind = "key_revocation" /\ targets'[o] = targets[o]
      BY <2>1, <3>1 DEF TargetsKept
    <3>3. Entered(a) /\ targets[o] \subseteq Approvals
      BY <2>1, <3>1 DEF TargetInv, TargetsEntered, TypeInv, TypeOK
    <3>4. Past(a)'
      <4>1. UNCHANGED <<activation, signerApprovals>>
        BY <1>13 DEF StopLocal, stop_approval, TransitionApproval, vars, approvalVars, signerVars
      <4>2. approvals'[a] # "ACTIVE"
        BY <2>1 DEF stop_approval, TransitionApproval, vars, approvalVars, TypeInv, TypeOK
      <4> QED
        BY <2>1, <3>1, <3>3, <4>1, <4>2 DEF Past, TargetsKept
    <3>5. OneMessage(c)'
      BY <1>0, <2>1, NoMessage DEF Ended
    <3>6. Sweeping(c)'
      BY <2>1, <2>2, <2>4, <3>1, <3>2, <3>3, <3>4 DEF Sweeping, TargetsKept
    <3> QED
      BY <2>1, <3>5, <3>6
  <2> QED
    BY <2>1, <2>3, <2>4
<1> QED
  BY <1>3, <1>4, <1>5, <1>6, <1>7, <1>8, <1>10, <1>11, <1>12, <1>13 DEF CallStep, RevokeStep

\* A call that does not move, when nobody sends in its name.
LEMMA OtherSweeps ==
  ASSUME TypeInv, TargetInv, TargetsKept, Grows, NEW d \in Calls,
         step'[d] = step[d], todo'[d] = todo[d], request'[d] = request[d],
         \A m \in wire' : m \in wire \/ m.call # d
  PROVE  OneMessage(d)' /\ Sweeping(d)'
<1> DEFINE o == request[d].op
           a == request[d].approval
<1>1. CallShape(d) /\ OneMessage(d) /\ Sweeping(d)
  BY DEF TypeInv, TargetInv
<1>2. OneMessage(d)'
  BY <1>1 DEF OneMessage
<1>3. CASE /\ request[d].kind = "revoke_for_key"
           /\ step[d] \in {"next_target", "await_revoke", "stop_local"}
  <2>1. o \in OperationIds
    BY <1>1, <1>3 DEF CallShape
  <2>2. targets[o] \subseteq Approvals
    BY <2>1 DEF TypeInv, TypeOK
  <2>3. /\ operations[o].kind = "key_revocation" /\ todo[d] \subseteq targets[o]
        /\ \A b \in targets[o] \ todo[d] : Past(b)
        /\ step[d] \in {"await_revoke", "stop_local"} => a \in todo[d]
        /\ step[d] = "stop_local" => (activation[a] # None => signerApprovals[a] = "revoked")
    BY <1>1, <1>3 DEF Sweeping
  <2>4. operations'[o].kind = "key_revocation" /\ targets'[o] = targets[o]
    BY <2>1, <2>3 DEF TargetsKept
  <2>5. \A b \in targets[o] \ todo[d] : Past(b)'
    BY <2>2, <2>3 DEF TargetsKept
  <2>6. step[d] = "stop_local" => (activation'[a] # None => signerApprovals'[a] = "revoked")
    <3>1. ASSUME a \in todo[d]
          PROVE  a \in Approvals /\ Entered(a)
      BY <2>1, <2>2, <2>3, <3>1 DEF TargetInv, TargetsEntered
    <3> QED
      BY <2>3, <3>1 DEF TargetsKept, Grows
  <2>7. Sweeping(d)'
    BY <2>3, <2>4, <2>5, <2>6 DEF Sweeping
  <2> QED
    BY <1>2, <2>7
<1>4. CASE ~(/\ request[d].kind = "revoke_for_key"
             /\ step[d] \in {"next_target", "await_revoke", "stop_local"})
  BY <1>2, <1>4 DEF Sweeping
<1> QED
  BY <1>3, <1>4

\* The Signer's answer ends the wait of the call that asked, and of no other.
LEMMA SignerSweeps ==
  ASSUME TypeInv, TypeInv', TargetInv, TargetsKept, Grows, SignerStep, NEW d \in Calls
  PROVE  OneMessage(d)' /\ Sweeping(d)'
<1> USE StepNames
<1>0. AuthorityType /\ CallShape(d) /\ OneMessage(d) /\ Sweeping(d) /\ ActivatedAtSigner
  BY DEF TypeInv, TargetInv
<1>1. ASSUME step'[d] = step[d], todo'[d] = todo[d], request'[d] = request[d], wire' \subseteq wire
      PROVE  OneMessage(d)' /\ Sweeping(d)'
  BY <1>1, OtherSweeps
<1>2. CASE \/ \E a \in Approvals : SignerActivates(a) \/ SignerRevokesAlone(a)
           \/ SignerAdvancesAlone
  <2>1. UNCHANGED <<step, todo, request, wire>>
    BY <1>2 DEF SignerActivates, SignerRevokesAlone, SignerAdvancesAlone, callVars
  <2> QED
    BY <1>1, <2>1
<1>3. ASSUME NEW m \in wire, HandleRevoke(m)
      PROVE  OneMessage(d)' /\ Sweeping(d)'
  <2>1. /\ m.call \in Calls /\ m.approval \in Approvals /\ UNCHANGED request
        /\ wire' = wire \ {m}
        /\ signerApprovals[m.approval] # "unknown" => signerApprovals'[m.approval] = "revoked"
    BY <1>0, <1>3 DEF HandleRevoke, AuthorityType
  <2>2. CASE step[m.call] # "await_revoke"
    BY <1>1, <1>3, <2>1, <2>2 DEF HandleRevoke
  <2>3. CASE step[m.call] = "await_revoke"
    <3> DEFINE next == IF request[m.call].kind = "revoke_for_key" THEN "stop_local"
                       ELSE IF \/ signerApprovals[m.approval] = "unknown"
                               \/ approvals[m.approval] = "ABSENT" THEN "failed" ELSE "done"
    <3>1. Goto(m.call, next)
      BY <1>3, <2>3 DEF HandleRevoke
    <3>2. PICK n \in Steps : n = next
      OBVIOUS
    <3>3. Goto(m.call, n)
      BY <3>1, <3>2
    <3> HIDE DEF next
    <3>4. /\ step'[m.call] = n
          /\ n \notin Ended \cup {"authorize", "ceremony"} => todo'[m.call] = todo[m.call]
          /\ \A e \in Calls \ {m.call} : step'[e] = step[e] /\ todo'[e] = todo[e]
      BY <1>0, <2>1, <3>3, GotoFrame
    <3>5. CASE d # m.call
      BY <1>1, <2>1, <3>4, <3>5
    <3>6. CASE d = m.call /\ request[d].kind = "revoke_for_key"
      <4> DEFINE o == request[d].op
      <4>1. n = "stop_local" /\ m.approval = request[d].approval
        BY <1>0, <1>3, <2>3, <3>2, <3>6 DEF next, OneMessage, HandleRevoke, Ended
      <4>2. step'[d] = "stop_local" /\ todo'[d] = todo[d]
        BY <3>4, <3>6, <4>1 DEF Ended
      <4>3. \A x \in wire : x.call = d /\ x.approval # None => x = m
        <5> TAKE x \in wire
        <5> HAVE x.call = d /\ x.approval # None
        <5>1. x.approval = m.approval
          BY <1>0, <2>3, <3>6, <4>1 DEF OneMessage, Ended
        <5>2. x \in [call: Calls, approval: Approvals \cup {None}] /\ m \in [call: Calls, approval: Approvals \cup {None}]
          BY <1>0 DEF AuthorityType
        <5> QED
          BY <3>6, <5>1, <5>2
      <4>4. OneMessage(d)'
        BY <2>1, <4>3 DEF OneMessage
      <4>5. /\ o \in OperationIds /\ operations[o].kind = "key_revocation"
            /\ todo[d] \subseteq targets[o] /\ request[d].approval \in todo[d]
            /\ \A b \in targets[o] \ todo[d] : Past(b)
        BY <1>0, <2>3, <3>6 DEF Sweeping, CallShape
      <4>6. targets[o] \subseteq Approvals
        BY <4>5 DEF TypeInv, TypeOK
      <4>7. operations'[o].kind = "key_revocation" /\ targets'[o] = targets[o]
        BY <4>5 DEF TargetsKept
      <4>8. \A b \in targets[o] \ todo[d] : Past(b)'
        BY <4>5, <4>6 DEF TargetsKept
      <4>9. activation'[m.approval] # None => signerApprovals'[m.approval] = "revoked"
        <5>1. activation' = activation
          BY <1>3 DEF HandleRevoke, vars, approvalVars
        <5> QED
          BY <1>0, <2>1, <5>1 DEF ActivatedAtSigner
      <4>10. Sweeping(d)'
        BY <2>1, <4>1, <4>2, <4>5, <4>7, <4>8, <4>9 DEF Sweeping
      <4> QED
        BY <4>4, <4>10
    <3>7. CASE d = m.call /\ request[d].kind # "revoke_for_key"
      <4>1. step'[d] \in Ended
        BY <3>2, <3>4, <3>7 DEF next, Ended
      <4> QED
        BY <4>1 DEF OneMessage, Sweeping, Ended
    <3> QED
      BY <3>5, <3>6, <3>7
  <2> QED
    BY <2>2, <2>3
<1>4. ASSUME NEW m \in wire, HandleRevokeAll(m)
      PROVE  OneMessage(d)' /\ Sweeping(d)'
  <2>1. m.call \in Calls /\ UNCHANGED request /\ wire' \subseteq wire
    BY <1>0, <1>4 DEF HandleRevokeAll, AuthorityType
  <2>2. CASE step[m.call] # "await_revoke_all"
    BY <1>1, <1>4, <2>1, <2>2 DEF HandleRevokeAll
  <2>3. CASE step[m.call] = "await_revoke_all"
    <3>1. PICK n \in {"failed", "done", "snapshot"} : Goto(m.call, n)
      BY <1>4, <2>3 DEF HandleRevokeAll
    <3>2. /\ step'[m.call] = n
          /\ \A e \in Calls \ {m.call} : step'[e] = step[e] /\ todo'[e] = todo[e]
      BY <1>0, <2>1, <3>1, GotoFrame
    <3>3. CASE d # m.call
      BY <1>1, <2>1, <3>2, <3>3
    <3>4. CASE d = m.call
      <4>1. OneMessage(d)'
        BY <1>0, <2>1, <2>3, <3>4, NoMessage DEF Ended
      <4>2. Sweeping(d)'
        BY <3>2, <3>4 DEF Sweeping
      <4> QED
        BY <4>1, <4>2
    <3> QED
      BY <3>3, <3>4
  <2> QED
    BY <2>2, <2>3
<1> QED
  BY <1>2, <1>3, <1>4 DEF SignerStep

\* A new revocation fences its targets, and completes only behind a whole pass.
LEMMA TargetRows ==
  ASSUME TypeInv, TargetInv, TargetsKept, [RevocationNext]_revocationVars
  PROVE  TargetsEntered' /\ KeyRevocationDone'
<1>0. TypeOK /\ TargetsEntered /\ KeyRevocationDone
  BY DEF TypeInv, TargetInv
<1>1. CASE UNCHANGED <<operations, targets>>
  <2>1. \A o \in OperationIds : targets[o] \subseteq Approvals
    BY <1>0 DEF TypeOK
  <2> QED
    BY <1>0, <1>1, <2>1 DEF TargetsEntered, KeyRevocationDone, TargetsKept
<1>2. ASSUME NEW c \in Calls, AdmitKeyRevocation(c), BeginKeyRevocation(request[c].op, request[c].key)
      PROVE  TargetsEntered' /\ KeyRevocationDone'
  <2> DEFINE op == request[c].op
  <2>1. op \in OperationIds /\ request[c].key \in DOMAIN KeyTargets
    BY <1>2 DEF AdmitKeyRevocation, TypeInv, CallShape
  <2>2. /\ operations' = [operations EXCEPT ![op] = KeyRevocationRow(request[c].key)]
        /\ \A o \in OperationIds \ {op} : targets'[o] = targets[o]
        /\ \A a \in targets'[op] : a \in Approvals /\ Entered(a)'
    BY <1>0, <1>2, <2>1, ConstantsAssumption DEF BeginKeyRevocation, Entered, TypeOK
  <2>3. operations'[op].state # "SUCCEEDED" /\ \A o \in OperationIds \ {op} : operations'[o] = operations[o]
    BY <1>0, <2>1, <2>2 DEF KeyRevocationRow, TypeOK
  <2>4. \A o \in OperationIds : targets[o] \subseteq Approvals
    BY <1>0 DEF TypeOK
  <2> QED
    BY <1>0, <2>2, <2>3, <2>4 DEF TargetsEntered, KeyRevocationDone, TargetsKept
<1>3. ASSUME NEW c \in Calls, CompleteTargets(c), CompleteKeyRevocation(request[c].op)
      PROVE  TargetsEntered' /\ KeyRevocationDone'
  <2> DEFINE op == request[c].op
  <2>1. step[c] = "next_target" /\ todo[c] = {} /\ CallShape(c) /\ Sweeping(c)
    BY <1>3 DEF CompleteTargets, TypeInv, TargetInv
  <2>2. op \in OperationIds /\ \A a \in targets[op] : Past(a)
    BY <2>1 DEF CallShape, Sweeping
  <2>3. UNCHANGED targets /\ \A o \in OperationIds \ {op} : operations'[o] = operations[o]
    BY <1>0, <1>3, <2>2 DEF CompleteKeyRevocation, TypeOK
  <2>4. \A o \in OperationIds : targets[o] \subseteq Approvals
    BY <1>0 DEF TypeOK
  <2> QED
    BY <1>0, <2>2, <2>3, <2>4 DEF TargetsEntered, KeyRevocationDone, TargetsKept
<1> QED
  BY <1>1, <1>2, <1>3, StepOnTargets

\* Only activate_signer_receipt activates, and the Signer forgets no approval.
LEMMA ActivatedStep ==
  ASSUME TypeInv, ActivatedAtSigner, [RevocationNext]_revocationVars
  PROVE  ActivatedAtSigner'
<1>0. TypeOK /\ AuthorityType
  BY DEF TypeInv
<1>1. \A a \in Approvals : signerApprovals[a] # "unknown" => signerApprovals'[a] # "unknown"
  <2>1. ASSUME NEW c \in Calls, (\E r \in Requests : Begin(c, r)) \/ CallStep(c) \/ Fail(c)
        PROVE  UNCHANGED signerApprovals
    BY <2>1 DEF Begin, Fail, CallStep, Timeout, ReconcileStep, ChokepointStep, RevokeStep,
       RevocationSnapshot, StoreSignerTombstones, StopNext, PushLocalEpoch, Converged,
       AdoptSignerEpoch, OlderDone, SendRevokeAll, Authorize, PrepareCeremony, PrepareApproval,
       Denied, StopLocal, SendRevoke, AdmitKeyRevocation, NextTarget, CompleteTargets, ReadEpoch,
       AdvanceLocalEpoch, signerVars
  <2>2. CASE SignerStep
    BY <1>0, <2>2 DEF SignerStep, SignerActivates, SignerRevokesAlone, SignerAdvancesAlone,
       HandleRevoke, HandleRevokeAll, AuthorityType
  <2>3. CASE (\E a \in Approvals : ActivateSignerReceipt(a)) \/ UNCHANGED revocationVars
    BY <2>3 DEF ActivateSignerReceipt, revocationVars, signerVars
  <2> QED
    BY <2>1, <2>2, <2>3 DEF RevocationNext
<1>2. ASSUME UNCHANGED activation
      PROVE  ActivatedAtSigner'
  BY <1>1, <1>2 DEF ActivatedAtSigner
<1>3. ASSUME NEW a \in Approvals, ActivateSignerReceipt(a)
      PROVE  ActivatedAtSigner'
  BY <1>0, <1>1, <1>3 DEF ActivateSignerReceipt, ActivateApprovalRecord, ActivatedAtSigner, TypeOK
<1>4. UNCHANGED vars => UNCHANGED activation
  BY DEF vars, approvalVars
<1>5. \A a : stop_approval(a) => UNCHANGED activation
  BY <1>4 DEF stop_approval, TransitionApproval
<1>6. ASSUME NEW c \in Calls, (\E r \in Requests : Begin(c, r)) \/ ReconcileStep(c) \/ Timeout(c) \/ Fail(c)
      PROVE  UNCHANGED activation
  BY <1>4, <1>5, <1>6 DEF Begin, Fail, Timeout, ReconcileStep,
     RevocationSnapshot, StoreSignerTombstones, StopNext, PushLocalEpoch, Converged,
     AdoptSignerEpoch, OlderDone, SendRevokeAll
<1>7. ASSUME NEW c \in Calls, ChokepointStep(c)
      PROVE  UNCHANGED activation
  BY <1>4, <1>7 DEF ChokepointStep, Authorize, Reserve, PrepareCeremony, PrepareApproval,
     CreateApprovalRecord, Denied, approvalVars
<1>8. ASSUME NEW c \in Calls, RevokeStep(c)
      PROVE  UNCHANGED activation
  <2>1. CASE StopLocal(c)
    BY <1>4, <2>1 DEF StopLocal, stop_approval, TransitionApproval
  <2> QED
    BY <1>4, <1>8, <2>1 DEF RevokeStep, SendRevoke, AdmitKeyRevocation, BeginKeyRevocation, NextTarget,
     CompleteTargets, CompleteKeyRevocation, ReadEpoch, AdvanceLocalEpoch, approvalVars
<1>9. CASE SignerStep
  BY <1>2, <1>4, <1>9 DEF SignerStep, SignerActivates, SignerRevokesAlone, SignerAdvancesAlone,
     HandleRevoke, HandleRevokeAll
<1>10. CASE UNCHANGED revocationVars
  BY <1>2, <1>4, <1>10 DEF revocationVars
<1> QED
  BY <1>2, <1>3, <1>6, <1>7, <1>8, <1>9, <1>10 DEF RevocationNext, CallStep

LEMMA TargetInvStep ==
  ASSUME TypeInv, TypeInv', TargetInv, [RevocationNext]_revocationVars
  PROVE  TargetInv'
<1>1. TargetsKept /\ Grows
  BY StepKeepsTargets, StepGrows
<1>2. TargetsEntered' /\ KeyRevocationDone' /\ ActivatedAtSigner'
  BY <1>1, TargetRows, ActivatedStep DEF TargetInv
<1>3. ASSUME NEW d \in Calls
      PROVE  OneMessage(d)' /\ Sweeping(d)'
  <2>1. ASSUME NEW c \in Calls, (\E r \in Requests : Begin(c, r)) \/ CallStep(c) \/ Fail(c)
        PROVE  OneMessage(d)' /\ Sweeping(d)'
    <3>1. OneMessage(c)' /\ Sweeping(c)' /\ \A m \in wire' : m \in wire \/ m.call = c
      BY <1>1, <2>1, CallSweeps
    <3>2. CASE d # c
      <4>1. Others(c)
        BY <2>1, StepOfOneCall
      <4>2. \A m \in wire' : m \in wire \/ m.call # d
        BY <3>1, <3>2
      <4>3. step'[d] = step[d] /\ todo'[d] = todo[d] /\ request'[d] = request[d]
        BY <3>2, <4>1 DEF Others
      <4> QED
        BY <1>1, <4>2, <4>3, OtherSweeps
    <3> QED
      BY <3>1, <3>2
  <2>2. CASE SignerStep
    BY <1>1, <2>2, SignerSweeps
  <2>3. CASE (\E a \in Approvals : ActivateSignerReceipt(a)) \/ UNCHANGED revocationVars
    <3>1. UNCHANGED <<step, todo, request, wire>>
      BY <2>3 DEF ActivateSignerReceipt, revocationVars, callVars, signerVars
    <3> QED
      BY <1>1, <3>1, OtherSweeps
  <2> QED
    BY <2>1, <2>2, <2>3 DEF RevocationNext
<1> QED
  BY <1>2, <1>3 DEF TargetInv

\* Nothing is targeted and nothing sent before the first call; what is seeded is
\* active at the Signer too.
LEMMA TargetInvInit == RevocationInit => TargetInv
<1> SUFFICES ASSUME RevocationInit PROVE TargetInv
  OBVIOUS
<1>1. TargetsEntered /\ ActivatedAtSigner
  BY DEF RevocationInit, TargetsEntered, ActivatedAtSigner
<1>2. KeyRevocationDone
  BY DEF RevocationInit, KeyRevocationDone
<1>3. \A c \in Calls : OneMessage(c) /\ Sweeping(c)
  BY DEF RevocationInit, OneMessage, Sweeping
<1> QED
  BY <1>1, <1>2, <1>3 DEF TargetInv

\* A by-key revocation that reports success has left no target pending or active
\* in the journal, and none that was ever active unrevoked at the Signer, however
\* many passes overlap, fail between two targets or are retried.
THEOREM KeyStopIsComplete == RevocationSpec => []KeyStopReachesEveryTarget
<1>1. TypeInv /\ TargetInv /\ [RevocationNext]_revocationVars => TypeInv' /\ TargetInv'
  BY RevocationNextTypes, TargetInvStep
<1>2. TargetInv => KeyStopReachesEveryTarget
  BY DEF TargetInv, KeyRevocationDone, Past, Entered, KeyStopReachesEveryTarget
<1> QED
  BY <1>1, <1>2, RevocationInitTypes, TargetInvInit, PTL DEF RevocationSpec
=============================================================================
