---------------------------- MODULE SigningService ----------------------------
(***************************************************************************)
(* BrokerService::sign, resolve_signer_operation, commit_signer_result and *)
(* operation.cancel (crates/bloom-broker/src/service.rs), run by several   *)
(* concurrent calls over one BrokerJournal and an external Signer.         *)
(*                                                                         *)
(* Each journal call is one action of BrokerJournal; between two of them a *)
(* call holds no lock, so calls interleave there and a crash may fall      *)
(* there.  A crash stops every call; the journal and the Signer survive.   *)
(* The Signer is modelled from how sign() uses it: it decides a signing    *)
(* request once, it may decide after the 30 s call timeout, and any answer *)
(* may be lost.                                                            *)
(***************************************************************************)
EXTENDS BrokerJournal

CONSTANTS
  Calls,        \* concurrent machine RPCs
  Requests,     \* [op, approval, digest, fields, batch, charge]
  SignerResult, \* operation id -> what the Signer returns when it signs
  MaxCrashes    \* bound on crashes

VARIABLES
  pc,      \* call -> the next step of sign() or of operation.cancel
  request, \* call -> its request
  signer,  \* the Signer's own operation table
  wire,    \* operations whose signing request the Signer has yet to handle
  answer,  \* operation -> the Signer's answer to the waiting call
  sends,   \* operation -> how many signing requests were sent (history)
  lapsed,  \* approvals past their validity, or whose frozen policy was replaced
  crashes

serviceVars == <<pc, request, signer, wire, answer, sends, lapsed, crashes>>
allVars == <<vars, serviceVars>>

ASSUME RequestsAssumption ==
  /\ Requests \subseteq [op: OperationIds, approval: Approvals, digest: Digests,
                         fields: Fields, batch: BOOLEAN, charge: Charges]
  /\ SignerResult \in [OperationIds -> Results]
  /\ Calls \subseteq AttemptIds
  /\ MaxCrashes \in Nat

\* A call at one of the first six is about to make that operation transition.
Steps ==
  {"VALIDATED", "RESERVED", "DISPATCHED", "DOWNSTREAM_ACCEPTED", "COMMITTED", "CANCELLED",
   "idle", "observe", "authorize", "begin", "send", "await", "resolve",
   "commit", "publish", "check_quarantine", "quarantine", "check_fail", "fail",
   "finalize_QUARANTINED", "finalize_RELEASED"}

SignerState == {"none", "succeeded", "quarantined", "failed"}

ServiceInit ==
  /\ Init
  /\ pc = [c \in Calls |-> "idle"]
  /\ request \in [Calls -> Requests]
  /\ signer = [o \in OperationIds |-> "none"]
  /\ wire = {}
  /\ answer = [o \in OperationIds |-> "none"]
  /\ sends = [o \in OperationIds |-> 0]
  /\ lapsed = {}
  /\ crashes = 0

-----------------------------------------------------------------------------
(* Steps of a call. *)

Goto(c, step) ==
  /\ pc' = [pc EXCEPT ![c] = step]
  /\ UNCHANGED <<request, signer, wire, answer, sends, lapsed, crashes>>

\* A journal call that returns an error, a read or a control step.
NoJournal == UNCHANGED vars

StartSign(c, r) ==
  /\ pc[c] = "idle"
  /\ pc' = [pc EXCEPT ![c] = "observe"]
  /\ request' = [request EXCEPT ![c] = r]
  /\ NoJournal /\ UNCHANGED <<signer, wire, answer, sends, lapsed, crashes>>

\* clock.observe: under the durable guard it moves the journal's clock.
Observe(c) ==
  /\ pc[c] = "observe"
  /\ \/ /\ DurableClockGuard
        /\ \E condition \in ClockCondition \ {"REPAIRED"}, now \in 1..MaxTime :
             ObserveTime(condition, now)
     \/ ~DurableClockGuard /\ NoJournal
  /\ Goto(c, "authorize")

\* Mutant of Authorize: the reservation is written past the journal's checks.
Authorize_Unchecked(c) ==
  LET r == request[c] IN
  /\ pc[c] = "authorize"
  /\ reservations' = [reservations EXCEPT ![r.approval][r.op] =
                        [state |-> "RESERVED", digest |-> r.digest, charge |-> r.charge, at |-> 1]]
  /\ UNCHANGED <<approvalVars, operationVars, clock, audit>>
  /\ Goto(c, "begin")

\* authorize_for_clock_profile refuses a lapsed approval, though its row stays
\* ACTIVE, and ends in the reservation; the same request finds its row again.
Authorize(c) ==
  LET r == request[c]
      row == reservations[r.approval][r.op]
  IN
  /\ pc[c] = "authorize"
  /\ r.approval \notin lapsed
  /\ \E at \in 1..MaxTime :
       \/ Reserve(r.approval, r.op, r.digest, r.charge, at)
       \/ /\ approvals[r.approval] = "ACTIVE"
          /\ validate_reservation_clock(r.approval, at)
          /\ row.state = "RESERVED" /\ row.digest = r.digest /\ row.charge = r.charge
          /\ NoJournal
  /\ Goto(c, "begin")

\* An approval, policy, provenance, claim or limit that refuses, a clock that
\* is not trusted, or an RPC failure while the wallet is reconciled.
Refuse(c) ==
  /\ pc[c] \in {"observe", "authorize"}
  /\ NoJournal /\ Goto(c, "idle")

\* Mutants of AfterBegin: a dispatched operation is sent again; it is left alone.
AfterBegin_Resend(op) ==
  CASE op.result # None -> "idle"
    [] op.result = None /\ op.state = "RECEIVED" -> "VALIDATED"
    [] op.result = None /\ op.state = "VALIDATED" -> "RESERVED"
    [] op.result = None /\ op.state = "RESERVED" -> "DISPATCHED"
    [] op.result = None /\ op.state \in {"DISPATCHED", "DOWNSTREAM_ACCEPTED", "COMMITTED"}
         -> "send"
    [] OTHER -> "idle"

AfterBegin_NoResolve(op) ==
  CASE op.result = None /\ op.state = "RECEIVED" -> "VALIDATED"
    [] op.result = None /\ op.state = "VALIDATED" -> "RESERVED"
    [] op.result = None /\ op.state = "RESERVED" -> "DISPATCHED"
    [] OTHER -> "idle"

\* begin_sign_attempt, then the match on the operation's state.
AfterBegin(op) ==
  CASE op.result # None -> "idle"
    [] op.result = None /\ op.state = "RECEIVED" -> "VALIDATED"
    [] op.result = None /\ op.state = "VALIDATED" -> "RESERVED"
    [] op.result = None /\ op.state = "RESERVED" -> "DISPATCHED"
    [] op.result = None /\ op.state \in {"DISPATCHED", "DOWNSTREAM_ACCEPTED", "COMMITTED"}
         -> "resolve"
    [] OTHER -> "idle"

Begin(c) ==
  LET r == request[c] IN
  /\ pc[c] = "begin"
  /\ \/ /\ \E envelope \in Envelopes :
             BeginSignAttempt(r.op, r.approval, r.digest, r.fields, r.batch, c, envelope)
        /\ Goto(c, AfterBegin(operations'[r.op]))
     \/ /\ operations[r.op].kind # "absent"
        /\ \A envelope \in Envelopes :
             ~CanRetry(r.op, r.approval, r.digest, r.fields, r.batch, c, envelope)
        /\ NoJournal /\ Goto(c, "idle")

\* Mutant of AfterTransition: a quarantined operation's budget is released.
AfterTransition_ReleaseQuarantined(state) ==
  CASE state = "VALIDATED" -> "RESERVED"
    [] state = "RESERVED" -> "DISPATCHED"
    [] state = "DISPATCHED" -> "send"
    [] state = "DOWNSTREAM_ACCEPTED" -> "COMMITTED"
    [] state = "COMMITTED" -> "publish"
    [] state = "CANCELLED" -> "idle"
    [] state \in {"QUARANTINED", "FAILED"} -> "finalize_RELEASED"

\* transition_operation in a row of them; the call ends where one is refused.
AfterTransition(state) ==
  CASE state = "VALIDATED" -> "RESERVED"
    [] state = "RESERVED" -> "DISPATCHED"
    [] state = "DISPATCHED" -> "send"
    [] state = "DOWNSTREAM_ACCEPTED" -> "COMMITTED"
    [] state = "COMMITTED" -> "publish"
    [] state = "CANCELLED" -> "idle"
    [] state = "QUARANTINED" -> "finalize_QUARANTINED"
    [] state = "FAILED" -> "finalize_RELEASED"

TransitionOrStop(c, state) ==
  LET o == request[c].op IN
  \/ TransitionOperation(o, state) /\ Goto(c, AfterTransition(state))
  \/ ~CanTransitionOperation(o, state) /\ NoJournal /\ Goto(c, "idle")

Advance(c) ==
  /\ pc[c] \in OperationState
  /\ TransitionOrStop(c, pc[c])

\* The Signer worker sends the request, or refuses it before it is sent (no
\* connection, no pre-dispatch checkpoint), which sign() takes for an unknown
\* outcome.
Send(c) ==
  LET o == request[c].op IN
  /\ pc[c] = "send"
  /\ NoJournal
  /\ \/ /\ pc' = [pc EXCEPT ![c] = "await"]
        /\ wire' = wire \cup {o}
        /\ sends' = [sends EXCEPT ![o] = @ + 1]
        /\ UNCHANGED <<request, signer, answer, lapsed, crashes>>
     \/ Goto(c, "resolve")

\* The match on the Signer's response.
AfterAnswer(outcome) ==
  CASE outcome = "succeeded" -> "commit"
    [] outcome = "quarantined" -> "quarantine"
    [] outcome = "refused" -> "fail"

Await(c) ==
  LET o == request[c].op IN
  /\ pc[c] = "await"
  /\ NoJournal
  /\ \/ answer[o] # "none" /\ Goto(c, AfterAnswer(answer[o]))
     \/ Goto(c, "resolve")

\* Mutant of AfterStatus: an operation the Signer has not decided counts as failed.
AfterStatus_UnknownFails(state) ==
  CASE state = "succeeded" -> "commit"
    [] state = "quarantined" -> "check_quarantine"
    [] state \in {"failed", "none"} -> "check_fail"

\* resolve_signer_operation: ask the Signer for the operation's status.  An
\* unreachable Signer, or one that has not decided, ends the call.
AfterStatus(state) ==
  CASE state = "succeeded" -> "commit"
    [] state = "quarantined" -> "check_quarantine"
    [] state = "failed" -> "check_fail"
    [] state = "none" -> "idle"

Resolve(c) ==
  /\ pc[c] = "resolve"
  /\ NoJournal /\ Goto(c, AfterStatus(signer[request[c].op]))

ResolveUnavailable(c) ==
  /\ pc[c] = "resolve"
  /\ NoJournal /\ Goto(c, "idle")

\* transition_to_quarantined and transition_to_failed read the state first.
Check(c) ==
  LET state == operations[request[c].op].state IN
  /\ NoJournal
  /\ \/ /\ pc[c] = "check_quarantine"
        /\ Goto(c, IF state = "QUARANTINED" THEN "finalize_QUARANTINED" ELSE "quarantine")
     \/ /\ pc[c] = "check_fail"
        /\ Goto(c, IF state \in {"FAILED", "DENIED", "CANCELLED"}
                   THEN "finalize_RELEASED" ELSE "fail")

Settle(c) ==
  \/ pc[c] = "quarantine" /\ TransitionOrStop(c, "QUARANTINED")
  \/ pc[c] = "fail" /\ TransitionOrStop(c, "FAILED")

Finalize(c) ==
  LET r == request[c] IN
  \E next \in {"QUARANTINED", "RELEASED"} :
    /\ pc[c] = AfterTransition(IF next = "RELEASED" THEN "FAILED" ELSE next)
    /\ \/ FinalizeReservation(r.approval, r.op, next)
       \/ reservations[r.approval][r.op].state # "RESERVED" /\ NoJournal
    /\ Goto(c, "idle")

\* commit_signer_result: a snapshot decides how far the operation still has to
\* go; the reservation must exist.
AfterSnapshot(state) ==
  CASE state = "DISPATCHED" -> "DOWNSTREAM_ACCEPTED"
    [] state = "DOWNSTREAM_ACCEPTED" -> "COMMITTED"
    [] state = "COMMITTED" -> "publish"
    [] OTHER -> "idle"

Commit(c) ==
  LET r == request[c] IN
  /\ pc[c] = "commit"
  /\ NoJournal
  /\ Goto(c, IF reservations[r.approval][r.op].state = "ABSENT" THEN "idle"
             ELSE AfterSnapshot(operations[r.op].state))

PublishSigned(c) ==
  LET r == request[c]
      result == SignerResult[r.op]
  IN
  /\ pc[c] = "publish"
  /\ \/ ~r.batch /\ PublishResult(r.approval, r.op, r.digest, result)
     \/ r.batch /\ PublishBatch(r.approval, r.op, r.digest, result, r.charge.signatures)
     \/ ~CanPublish(r.approval, r.op, r.digest) /\ NoJournal
  /\ Goto(c, "idle")

\* operation.cancel reads the state, then asks for the transition.
Cancel(c, r) ==
  /\ pc[c] = "idle"
  /\ operations[r.op].state \in {"RECEIVED", "VALIDATED", "RESERVED"}
  /\ pc' = [pc EXCEPT ![c] = "CANCELLED"]
  /\ request' = [request EXCEPT ![c] = r]
  /\ NoJournal /\ UNCHANGED <<signer, wire, answer, sends, lapsed, crashes>>

-----------------------------------------------------------------------------
(* The Signer, and the world. *)

\* The Signer decides a request once; a refusal may leave no operation behind.
SignerDecide(o) ==
  /\ o \in wire
  /\ wire' = wire \ {o}
  /\ \/ /\ signer[o] = "none"
        /\ \E outcome \in SignerState \ {"none", "failed"} :
             /\ signer' = [signer EXCEPT ![o] = outcome]
             /\ answer' = [answer EXCEPT ![o] = outcome]
     \/ /\ signer[o] = "none"
        /\ \E outcome \in {"none", "failed"} : signer' = [signer EXCEPT ![o] = outcome]
        /\ answer' = [answer EXCEPT ![o] = "refused"]
  /\ NoJournal /\ UNCHANGED <<pc, request, sends, lapsed, crashes>>

Crash ==
  /\ crashes < MaxCrashes
  /\ crashes' = crashes + 1
  /\ pc' = [c \in Calls |-> "idle"]
  /\ answer' = [o \in OperationIds |-> "none"]
  /\ NoJournal /\ UNCHANGED <<request, signer, wire, sends, lapsed>>

\* The validity of an approval ends, or the policy it was frozen with is
\* replaced: every later authorization refuses, while the row stays ACTIVE.
Lapse(a) ==
  /\ approvals[a] = "ACTIVE" /\ a \notin lapsed
  /\ lapsed' = lapsed \cup {a}
  /\ NoJournal /\ UNCHANGED <<pc, request, signer, wire, answer, sends, crashes>>

\* Ceremonies and revocations that go on beside the calls.
Lifecycle == ApprovalStep /\ UNCHANGED serviceVars

CallStep(c) ==
  \/ Observe(c) \/ Authorize(c) \/ Begin(c) \/ Advance(c) \/ Send(c)
  \/ Await(c) \/ Resolve(c) \/ Check(c) \/ Settle(c) \/ Finalize(c) \/ Commit(c)
  \/ PublishSigned(c)

ServiceNext ==
  \/ \E c \in Calls : CallStep(c) \/ Refuse(c) \/ ResolveUnavailable(c)
  \/ \E c \in Calls, r \in Requests : StartSign(c, r) \/ Cancel(c, r)
  \/ \E o \in OperationIds : SignerDecide(o)
  \/ \E a \in Approvals : Lapse(a)
  \/ Crash \/ Lifecycle

ServiceSpec == ServiceInit /\ [][ServiceNext]_allVars

-----------------------------------------------------------------------------
(* Properties. *)

ServiceTypeOK ==
  /\ pc \in [Calls -> Steps]
  /\ request \in [Calls -> Requests]
  /\ signer \in [OperationIds -> SignerState]
  /\ wire \subseteq OperationIds
  /\ answer \in [OperationIds -> {"none", "succeeded", "quarantined", "refused"}]
  /\ sends \in [OperationIds -> Nat]
  /\ lapsed \subseteq Approvals
  /\ crashes \in 0..MaxCrashes

\* An operation is sent to the Signer at most once, whatever calls race on it
\* and whatever crashes between DISPATCHED and the send: every later call finds
\* it DISPATCHED and asks for its status instead.
SentAtMostOnce == \A o \in OperationIds : sends[o] <= 1

\* Budget is never given back for an operation the Signer signed, not even by a
\* call that read the status before a late signature.
SignedIsNeverReleased ==
  \A a \in Approvals, o \in OperationIds :
    signer[o] = "succeeded" /\ operations[o].approval = a =>
      reservations[a][o].state \in {"RESERVED", "COMMITTED"}

\* A cancelled operation was never sent and never will be: cancel and dispatch
\* race for the same row and one of them loses.
CancelledIsNeverSent ==
  \A o \in OperationIds :
    operations[o].state = "CANCELLED" =>
      /\ sends[o] = 0
      /\ \A c \in Calls : request[c].op = o => pc[c] # "send"

\* What the Broker publishes, and the terminal states it records, are what the
\* Signer decided, also when a call acts on a status it read earlier; an
\* operation whose effect nobody knows keeps its charge.
OutcomeAgrees ==
  \A o \in OperationIds :
    /\ operations[o].result # None =>
         signer[o] = "succeeded" /\ operations[o].result = SignerResult[o]
    /\ operations[o].state = "FAILED" => signer[o] \in {"none", "failed"} /\ o \notin wire
    /\ operations[o].state = "QUARANTINED" =>
         /\ signer[o] = "quarantined"
         /\ reservations[operations[o].approval][o].state \in {"RESERVED", "QUARANTINED"}

\* Every step of the service, the Signer and the world is a step the journal
\* allows, or none: interleaved calls and crashes change the durable tables only
\* through the journal's own checked transactions.
ImplementsJournal == Spec

\* Under a caller that keeps retrying and a Signer that answers some retry, an
\* operation the Signer signed is published, or its approval is stopped or
\* lapses first.  A retry is authorized anew before it asks the Signer for the
\* outcome, so once the validity is over or the policy replaced it is refused
\* for good: the signature is then never published and its charge never settled.
SignedIsPublished ==
  \A r \in Requests :
    signer[r.op] = "succeeded" /\ operations[r.op].approval = r.approval
      ~> \/ operations[r.op].result # None
         \/ approvals[r.approval] # "ACTIVE"
         \/ r.approval \in lapsed

\* Strong fairness of Authorize: a caller that keeps asking is not refused every
\* time while its approval is ACTIVE and has not lapsed.  Nothing is assumed of
\* a lapsed approval, for which Authorize is disabled.
Retrying ==
  /\ \A c \in Calls : /\ WF_allVars(CallStep(c))
                      /\ SF_allVars(Observe(c)) /\ SF_allVars(Authorize(c))
                      /\ SF_allVars(Resolve(c))
  /\ \A c \in Calls, r \in Requests : WF_allVars(StartSign(c, r))

RetrySpec == ServiceSpec /\ Retrying
====
