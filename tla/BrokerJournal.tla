---------------------------- MODULE BrokerJournal ----------------------------
(***************************************************************************)
(* The durable tables of BrokerJournal (crates/bloom-broker/src/journal.rs)*)
(* and the calls that change them.  Every mutating call runs in one SQLite *)
(* transaction under the connection mutex, so a call is one atomic action; *)
(* a call that returns an error, or an idempotent replay, leaves the tables*)
(* as they are and is a stuttering step here.  The mutex, the audit chain's*)
(* head and the self-checkpoint are the subject of AuditCheckpoint.        *)
(*                                                                         *)
(* Identities are model values.  A request's `fields' stands for every     *)
(* signed field outside the permitted attempt envelope, `envelope' for the *)
(* boot epoch and validity times a retry may change.  The retained Broker  *)
(* validation receipt binds approval, digest and fields, so those three    *)
(* columns of an operation row are the receipt.                            *)
(***************************************************************************)
EXTENDS Integers, FiniteSets

CONSTANTS
  Approvals,         \* approval ids
  OperationIds,      \* caller-chosen operation ids
  ActivationIds,     \* operation ids of activation ceremonies
  Digests,           \* stable operation digests
  Fields,            \* canonical request fields bound across retries
  AttemptIds,        \* attempt ids
  Envelopes,         \* what a retry may change
  Results,           \* signing results (signatures and receipts)
  Assets,            \* declared assets
  Charges,           \* what a reservation may ask for: [signatures, values]
  MaxOperations,     \* approval -> lifetime operation limit
  MaxSignatures,     \* approval -> lifetime signature limit
  RateLimits,        \* approval -> set of [operations, signatures, duration]
  ValueLimits,       \* approval -> [approved assets -> lifetime maximum]
  RollingLimits,     \* approval -> set of [asset, maximum, duration]
  KeyTargets,        \* by-key revocation parameters -> approvals on that key
  DurableClockGuard, \* TRUE on profiles that keep the durable clock
  MaxTime,           \* bound on time
  MaxBatchChildren,  \* 32 in the code
  None

VARIABLES
  approvals,    \* approvals.state
  renewalOf,    \* approval_metadata.renewal_of
  activation,   \* approval_metadata.activation_operation_id and its grant
  operations,   \* the operations table
  attempts,     \* operation_attempts of signing operations
  targets,      \* operation_attempts of by-key revocations
  children,     \* number of batch_children rows
  reservations, \* reservations and reservation_values
  clock,        \* clock_state
  audit         \* audit entries that carry correlation_schema v1

approvalVars == <<approvals, renewalOf, activation>>
operationVars == <<operations, attempts, targets, children>>
vars == <<approvalVars, operationVars, reservations, clock, audit>>

\* Ids are fixed-width byte strings in the code.
ASSUME FinitenessAssumption == IsFiniteSet(Approvals) /\ IsFiniteSet(OperationIds)

ASSUME ConstantsAssumption ==
  /\ MaxOperations \in [Approvals -> Nat]
  /\ MaxSignatures \in [Approvals -> Nat]
  /\ DurableClockGuard \in BOOLEAN
  /\ MaxTime \in Nat \ {0}
  /\ MaxBatchChildren \in Nat \ {0}
  /\ KeyTargets \in [DOMAIN KeyTargets -> SUBSET Approvals]
  /\ \A c \in Charges : c.signatures \in Nat /\ c.values \in [DOMAIN c.values -> Nat]
  /\ \A a \in Approvals :
       /\ RateLimits[a] \subseteq [operations: Nat, signatures: Nat, duration: Nat]
       /\ ValueLimits[a] \in [DOMAIN ValueLimits[a] -> Nat]
       /\ \A limit \in RollingLimits[a] : limit.maximum \in Nat /\ limit.duration \in Nat
  /\ None \notin Approvals \cup ActivationIds \cup Digests \cup Fields \cup Results

-----------------------------------------------------------------------------
(* Row types and the two transition tables. *)

ApprovalState ==
  {"PREPARED", "AWAITING_CEREMONY", "ORPHANED", "ACTIVE", "EXHAUSTED",
   "EXPIRED", "REVOKED", "CANCELLED", "FAILED"}

OperationState ==
  {"RECEIVED", "VALIDATED", "RESERVED", "DISPATCHED", "DOWNSTREAM_ACCEPTED",
   "COMMITTED", "SUCCEEDED", "DENIED", "CANCELLED", "FAILED", "QUARANTINED"}

ReservationState == {"RESERVED", "COMMITTED", "RELEASED", "QUARANTINED"}

ClockCondition ==
  {"HEALTHY", "FORWARD_JUMP_REJECTED", "UNTRUSTED", "ROLLBACK_FROZEN", "REPAIRED"}

valid_approval_transition(current, next) ==
  \/ current = "PREPARED"
       /\ next \in {"AWAITING_CEREMONY", "CANCELLED", "FAILED", "EXPIRED"}
  \/ current = "AWAITING_CEREMONY"
       /\ next \in {"ACTIVE", "ORPHANED", "CANCELLED", "FAILED", "EXPIRED"}
  \/ current = "ORPHANED" /\ next \in {"ACTIVE", "REVOKED", "FAILED"}
  \/ current = "ACTIVE" /\ next \in {"EXHAUSTED", "EXPIRED", "REVOKED"}

valid_operation_transition(current, next) ==
  \/ current = "RECEIVED" /\ next \in {"VALIDATED", "DENIED", "CANCELLED", "FAILED"}
  \/ current = "VALIDATED" /\ next \in {"RESERVED", "DENIED", "CANCELLED", "FAILED"}
  \/ current = "RESERVED" /\ next \in {"DISPATCHED", "DENIED", "CANCELLED", "FAILED"}
  \/ current = "DISPATCHED" /\ next \in {"DOWNSTREAM_ACCEPTED", "FAILED", "QUARANTINED"}
  \/ current = "DOWNSTREAM_ACCEPTED" /\ next \in {"COMMITTED", "FAILED", "QUARANTINED"}
  \/ current = "COMMITTED" /\ next \in {"SUCCEEDED", "FAILED", "QUARANTINED"}

OperationRow ==
  [kind: {"operation", "key_revocation", "absent"},
   digest: Digests \cup DOMAIN KeyTargets \cup {None},
   approval: Approvals \cup {None},
   fields: Fields \cup {None},
   state: OperationState \cup {"ABSENT"},
   batch: BOOLEAN,
   result: Results \cup {None}]

NoOperation ==
  [kind |-> "absent", digest |-> None, approval |-> None, fields |-> None,
   state |-> "ABSENT", batch |-> FALSE, result |-> None]

KeyRevocationRow(params) ==
  [kind |-> "key_revocation", digest |-> params, approval |-> None, fields |-> None,
   state |-> "RECEIVED", batch |-> FALSE, result |-> None]

ReservationRow ==
  [state: ReservationState \cup {"ABSENT"}, digest: Digests \cup {None},
   charge: Charges \cup {None}, at: 0..MaxTime]

NoReservation == [state |-> "ABSENT", digest |-> None, charge |-> None, at |-> 0]

-----------------------------------------------------------------------------
(* What verify_audit_correlation recomputes from the rows for a v1 entry. *)

AuditEntries ==
  [event: {"operation.received", "operation.published", "batch.published",
           "approval.activated"},
   subject: OperationIds \cup Approvals,
   evidence: ((Approvals \cup {None}) \X (Digests \cup DOMAIN KeyTargets \cup {None})
               \X (Fields \cup {None}) \X (Results \cup {None}) \X (0..MaxBatchChildren))
             \cup ActivationIds]

ReceivedEvidence(op) == <<op.approval, op.digest, op.fields, None, 0>>

PublishedEvidence(op, n) == <<op.approval, op.digest, op.fields, op.result, n>>

AuditEvidence(event, subject) ==
  CASE event = "operation.received"  -> ReceivedEvidence(operations[subject])
    [] event = "operation.published" -> PublishedEvidence(operations[subject], 0)
    [] event = "batch.published"     -> PublishedEvidence(operations[subject], children[subject])
    [] event = "approval.activated"  -> activation[subject]

-----------------------------------------------------------------------------
Init ==
  /\ approvals = [a \in Approvals |-> "ABSENT"]
  /\ renewalOf = [a \in Approvals |-> None]
  /\ activation = [a \in Approvals |-> None]
  /\ operations = [o \in OperationIds |-> NoOperation]
  /\ attempts = [o \in OperationIds |-> {}]
  /\ targets = [o \in OperationIds |-> {}]
  /\ children = [o \in OperationIds |-> 0]
  /\ reservations = [a \in Approvals |-> [o \in OperationIds |-> NoReservation]]
  /\ clock = [effective |-> 0, condition |-> "ABSENT"]
  /\ audit = {}

-----------------------------------------------------------------------------
(* Approvals. *)

\* create_approval_record: the row starts AWAITING_CEREMONY.  The primary key
\* refuses a second record, the foreign key an unknown predecessor.
CreateApprovalRecord(a, predecessor) ==
  /\ approvals[a] = "ABSENT"
  /\ predecessor # None => approvals[predecessor] # "ABSENT"
  /\ approvals' = [approvals EXCEPT ![a] = "AWAITING_CEREMONY"]
  /\ renewalOf' = [renewalOf EXCEPT ![a] = predecessor]
  /\ UNCHANGED <<activation, operationVars, reservations, clock, audit>>

\* activate_approval_record: activation consumes the renewal predecessor,
\* which must still be ACTIVE, in the same transaction.  A replay with the
\* same activation operation changes nothing; activation_operation_id is UNIQUE.
CanActivate(a, activationId) ==
  /\ approvals[a] = "AWAITING_CEREMONY"
  /\ activation[a] = None
  /\ \A b \in Approvals : activation[b] # activationId
  /\ renewalOf[a] # None => approvals[renewalOf[a]] = "ACTIVE"

\* Mutant of ActivateApprovalRecord: the renewed approval stays as it is.
ActivateApprovalRecord_KeepsPredecessor(a, activationId) ==
  /\ CanActivate(a, activationId)
  /\ approvals' = [approvals EXCEPT ![a] = "ACTIVE"]
  /\ activation' = [activation EXCEPT ![a] = activationId]
  /\ audit' = audit \cup {[event |-> "approval.activated", subject |-> a,
                           evidence |-> activationId]}
  /\ UNCHANGED <<renewalOf, operationVars, reservations, clock>>

ActivateApprovalRecord(a, activationId) ==
  /\ CanActivate(a, activationId)
  /\ approvals' = [b \in Approvals |->
                     IF b = a THEN "ACTIVE"
                     ELSE IF b = renewalOf[a] THEN "REVOKED" ELSE approvals[b]]
  /\ activation' = [activation EXCEPT ![a] = activationId]
  /\ audit' = audit \cup {[event |-> "approval.activated", subject |-> a,
                           evidence |-> activationId]}
  /\ UNCHANGED <<renewalOf, operationVars, reservations, clock>>

\* transition_approval.  Its callers (stop_key, stop_approval) only ask for
\* FAILED and REVOKED; every other state change of an approval is an
\* activation or a by-key fence.
TransitionApproval(a, next) ==
  /\ valid_approval_transition(approvals[a], next)
  /\ approvals' = [approvals EXCEPT ![a] = next]
  /\ UNCHANGED <<renewalOf, activation, operationVars, reservations, clock, audit>>

-----------------------------------------------------------------------------
(* Operations. *)

\* Mutant of BeginFresh: an upsert, so a reused id rebinds the row.
BeginFresh_Upsert(o, a, d, f, batch, attempt, envelope) ==
  /\ operations[o].kind # "key_revocation"
  /\ operations[o].state \in {"ABSENT", "RECEIVED"}
  /\ LET op == [kind |-> "operation", digest |-> d, approval |-> a, fields |-> f,
                state |-> "RECEIVED", batch |-> batch, result |-> None]
     IN /\ operations' = [operations EXCEPT ![o] = op]
        /\ audit' = audit \cup {[event |-> "operation.received", subject |-> o,
                                 evidence |-> ReceivedEvidence(op)]}
  /\ attempts' = [attempts EXCEPT ![o] = {<<attempt, envelope>>}]
  /\ UNCHANGED <<approvalVars, targets, children, reservations, clock>>

\* begin_sign_attempt, first use of the id: insert the row and the attempt.
BeginFresh(o, a, d, f, batch, attempt, envelope) ==
  /\ operations[o].kind = "absent"
  /\ LET op == [kind |-> "operation", digest |-> d, approval |-> a, fields |-> f,
                state |-> "RECEIVED", batch |-> batch, result |-> None]
     IN /\ operations' = [operations EXCEPT ![o] = op]
        /\ audit' = audit \cup {[event |-> "operation.received", subject |-> o,
                                 evidence |-> ReceivedEvidence(op)]}
  /\ attempts' = [attempts EXCEPT ![o] = {<<attempt, envelope>>}]
  /\ UNCHANGED <<approvalVars, targets, children, reservations, clock>>

\* begin_sign_attempt on an existing row: digest, batch flag, retry binding and
\* retained receipt must all match, and an attempt id names one attempt digest.
CanRetry(o, a, d, f, batch, attempt, envelope) ==
  LET op == operations[o] IN
  /\ op.kind = "operation"
  /\ op.digest = d
  /\ op.batch = batch
  /\ op.approval = a /\ op.fields = f
  /\ \A prior \in attempts[o] : prior[1] = attempt => prior[2] = envelope

BeginRetry(o, a, d, f, batch, attempt, envelope) ==
  /\ CanRetry(o, a, d, f, batch, attempt, envelope)
  /\ attempts' = [attempts EXCEPT ![o] = @ \cup {<<attempt, envelope>>}]
  /\ UNCHANGED <<approvalVars, operations, targets, children, reservations, clock, audit>>

BeginSignAttempt(o, a, d, f, batch, attempt, envelope) ==
  \/ BeginFresh(o, a, d, f, batch, attempt, envelope)
  \/ BeginRetry(o, a, d, f, batch, attempt, envelope)

\* transition_operation: refused for by-key revocations and once a result is
\* published.
CanTransitionOperation(o, next) ==
  /\ operations[o].kind = "operation"
  /\ operations[o].result = None
  /\ valid_operation_transition(operations[o].state, next)

TransitionOperation(o, next) ==
  /\ CanTransitionOperation(o, next)
  /\ operations' = [operations EXCEPT ![o].state = next]
  /\ UNCHANGED <<approvalVars, attempts, targets, children, reservations, clock, audit>>

\* Mutant of BeginKeyRevocation: pending ceremonies are recorded, not fenced.
BeginKeyRevocation_NoFence(o, params) ==
  /\ operations[o].kind = "absent"
  /\ operations' = [operations EXCEPT ![o] = KeyRevocationRow(params)]
  /\ targets' = [targets EXCEPT ![o] = {a \in KeyTargets[params] : approvals[a] # "ABSENT"}]
  /\ UNCHANGED <<approvalVars, attempts, children, reservations, clock, audit>>

\* begin_key_revocation_with_effects as admit_key_revocation calls it: bind the
\* id to its parameters, record the approvals on that key, and fence the
\* ceremonies still pending on it, in one transaction.
BeginKeyRevocation(o, params) ==
  LET bound == {a \in KeyTargets[params] : approvals[a] # "ABSENT"} IN
  /\ operations[o].kind = "absent"
  /\ operations' = [operations EXCEPT ![o] = KeyRevocationRow(params)]
  /\ targets' = [targets EXCEPT ![o] = bound]
  /\ approvals' = [a \in Approvals |->
                     IF a \in bound /\ approvals[a] \in {"PREPARED", "AWAITING_CEREMONY"}
                     THEN "FAILED" ELSE approvals[a]]
  /\ UNCHANGED <<renewalOf, activation, attempts, children, reservations, clock, audit>>

\* complete_key_revocation: the UPDATE names the id and RECEIVED only; its one
\* caller reaches it after admit_key_revocation accepted the same id.
CompleteKeyRevocation(o) ==
  /\ operations[o].kind = "key_revocation"
  /\ operations[o].state = "RECEIVED"
  /\ operations' = [operations EXCEPT ![o].state = "SUCCEEDED"]
  /\ UNCHANGED <<approvalVars, attempts, targets, children, reservations, clock, audit>>

-----------------------------------------------------------------------------
(* Reservations: the accounting ledger. *)

\* The renewal chain of a, as the WITH RECURSIVE queries compute it: the least
\* set that holds a and the predecessor of each member.
Lineage(a) ==
  {b \in Approvals :
     \A S \in SUBSET Approvals :
       (a \in S /\ \A c \in S : renewalOf[c] # None => renewalOf[c] \in S) => b \in S}

\* The rows of some approvals that count against a limit (state != 'RELEASED').
Counted(owners) ==
  {row \in owners \X OperationIds :
     reservations[row[1]][row[2]].state \notin {"ABSENT", "RELEASED"}}

\* Those reserved in the window (at - duration, at]; the subtraction saturates.
InWindow(rows, at, duration) ==
  {row \in rows : LET t == reservations[row[1]][row[2]].at
                  IN  t > at - duration /\ t > 0 /\ t <= at}

\* A sum, counted unit by unit: a row charged n contributes n units of its own.
Units(amount) == UNION {{row} \X (1..amount[row]) : row \in DOMAIN amount}

Total(amount) == Cardinality(Units(amount))

SignaturesOf(rows) ==
  Total([row \in rows |-> reservations[row[1]][row[2]].charge.signatures])

Spending(rows, asset) ==
  {row \in rows : asset \in DOMAIN reservations[row[1]][row[2]].charge.values}

ValueOf(rows, asset) ==
  Total([row \in Spending(rows, asset) |-> reservations[row[1]][row[2]].charge.values[asset]])

TimeLimited(a) == RateLimits[a] # {} \/ RollingLimits[a] # {}

validate_reservation_clock(a, at) ==
  DurableClockGuard =>
    /\ TimeLimited(a) =>
         clock.condition \in {"HEALTHY", "FORWARD_JUMP_REJECTED", "REPAIRED"}
    /\ clock.condition # "ABSENT" => at = clock.effective

validate_lifetime_limits(a, charge) ==
  /\ Cardinality(Counted({a})) + 1 <= MaxOperations[a]
  /\ SignaturesOf(Counted({a})) + charge.signatures <= MaxSignatures[a]

\* Mutant of validate_rate_limits: a renewal starts with an empty window.
validate_rate_limits_NoLineage(a, charge, at) ==
  \A limit \in RateLimits[a] :
    LET rows == InWindow(Counted({a}), at, limit.duration) IN
    /\ limit.duration > 0 /\ limit.operations > 0 /\ limit.signatures > 0
    /\ Cardinality(rows) + 1 <= limit.operations
    /\ SignaturesOf(rows) + charge.signatures <= limit.signatures

validate_rate_limits(a, charge, at) ==
  \A limit \in RateLimits[a] :
    LET rows == InWindow(Counted(Lineage(a)), at, limit.duration) IN
    /\ limit.duration > 0 /\ limit.operations > 0 /\ limit.signatures > 0
    /\ Cardinality(rows) + 1 <= limit.operations
    /\ SignaturesOf(rows) + charge.signatures <= limit.signatures

\* Mutant of validate_value_limits: the amount alone is compared.
validate_value_limits_PerUse(a, charge) ==
  \A asset \in DOMAIN charge.values :
    /\ asset \in DOMAIN ValueLimits[a]
    /\ charge.values[asset] <= ValueLimits[a][asset]

validate_value_limits(a, charge) ==
  \A asset \in DOMAIN charge.values :
    /\ asset \in DOMAIN ValueLimits[a]
    /\ ValueOf(Counted({a}), asset) + charge.values[asset] <= ValueLimits[a][asset]

\* Mutant of validate_rolling_value_limits: a renewal starts with an empty window.
validate_rolling_value_limits_NoLineage(a, charge, at) ==
  \A limit \in RollingLimits[a] :
    /\ limit.duration > 0
    /\ limit.asset \in DOMAIN charge.values =>
         ValueOf(InWindow(Counted({a}), at, limit.duration), limit.asset)
           + charge.values[limit.asset] <= limit.maximum

validate_rolling_value_limits(a, charge, at) ==
  \A limit \in RollingLimits[a] :
    /\ limit.duration > 0
    /\ limit.asset \in DOMAIN charge.values =>
         ValueOf(InWindow(Counted(Lineage(a)), at, limit.duration), limit.asset)
           + charge.values[limit.asset] <= limit.maximum

\* reserve_for_clock_profile.  The budget is the caller's request, the limits
\* are those of the approval's sealed terms.  An existing row, whatever its
\* state, is either the same request (no change) or a conflict.
CanReserve(a, o, charge, at) ==
  /\ charge.signatures > 0
  /\ approvals[a] = "ACTIVE"
  /\ validate_reservation_clock(a, at)
  /\ reservations[a][o].state = "ABSENT"
  /\ validate_lifetime_limits(a, charge)
  /\ validate_rate_limits(a, charge, at)
  /\ validate_value_limits(a, charge)
  /\ validate_rolling_value_limits(a, charge, at)

Reserve(a, o, d, charge, at) ==
  /\ CanReserve(a, o, charge, at)
  /\ reservations' = [reservations EXCEPT ![a][o] =
                        [state |-> "RESERVED", digest |-> d, charge |-> charge, at |-> at]]
  /\ UNCHANGED <<approvalVars, operationVars, clock, audit>>

\* finalize_reservation.  Its callers ask for RELEASED and QUARANTINED only.
FinalizeReservation(a, o, next) ==
  /\ reservations[a][o].state = "RESERVED"
  /\ reservations' = [reservations EXCEPT ![a][o].state = next]
  /\ UNCHANGED <<approvalVars, operationVars, clock, audit>>

-----------------------------------------------------------------------------
(* Publication: the result, the SUCCEEDED state and the COMMITTED reservation *)
(* become durable in one transaction.                                         *)

\* Mutant of CanPublish: the retained receipt is not compared.
CanPublish_AnyApproval(a, o, d) ==
  /\ operations[o].kind = "operation"
  /\ operations[o].digest = d
  /\ operations[o].result = None
  /\ operations[o].state = "COMMITTED"
  /\ reservations[a][o].state = "RESERVED"

CanPublish(a, o, d) ==
  /\ operations[o].kind = "operation"
  /\ operations[o].digest = d
  /\ operations[o].result = None
  /\ operations[o].state = "COMMITTED"
  /\ reservations[a][o].state = "RESERVED"
  /\ operations[o].approval = a

Publish(a, o, result, n, event) ==
  /\ operations' = [operations EXCEPT ![o].state = "SUCCEEDED", ![o].result = result]
  /\ reservations' = [reservations EXCEPT ![a][o].state = "COMMITTED"]
  /\ children' = [children EXCEPT ![o] = n]
  /\ audit' = audit \cup
       {[event |-> event, subject |-> o,
         evidence |-> PublishedEvidence([operations[o] EXCEPT !.result = result], n)]}
  /\ UNCHANGED <<approvalVars, attempts, targets, clock>>

PublishResult(a, o, d, result) ==
  /\ CanPublish(a, o, d)
  /\ Publish(a, o, result, 0, "operation.published")

PublishBatch(a, o, d, result, n) ==
  /\ n \in 1..MaxBatchChildren
  /\ operations[o].batch
  /\ CanPublish(a, o, d)
  /\ Publish(a, o, result, n, "batch.published")

-----------------------------------------------------------------------------
(* The durable clock.  evaluate_durable_clock (bloom_trusted_time, external)  *)
(* picks the condition and the effective time; it never moves time back.      *)

ObserveTime(condition, effective) ==
  /\ condition \in {"UNTRUSTED", "ROLLBACK_FROZEN"} =>
       clock.condition # "ABSENT" /\ effective = clock.effective
  /\ effective >= clock.effective
  /\ clock' = [effective |-> effective, condition |-> condition]
  /\ UNCHANGED <<approvalVars, operationVars, reservations, audit>>

RepairClock(accepted) ==
  /\ clock.condition # "ABSENT"
  /\ accepted >= clock.effective
  /\ clock' = [effective |-> accepted, condition |-> "REPAIRED"]
  /\ UNCHANGED <<approvalVars, operationVars, reservations, audit>>

-----------------------------------------------------------------------------
ApprovalStep ==
  \E a \in Approvals :
    \/ \E predecessor \in (Approvals \ {a}) \cup {None} : CreateApprovalRecord(a, predecessor)
    \/ \E id \in ActivationIds : ActivateApprovalRecord(a, id)
    \/ \E next \in {"FAILED", "REVOKED"} : TransitionApproval(a, next)

OperationStep ==
  \E o \in OperationIds :
    \/ \E a \in Approvals, d \in Digests, f \in Fields, batch \in BOOLEAN,
          attempt \in AttemptIds, envelope \in Envelopes :
         BeginSignAttempt(o, a, d, f, batch, attempt, envelope)
    \/ \E next \in OperationState \ {"RECEIVED", "SUCCEEDED", "DENIED"} :
         TransitionOperation(o, next)
    \/ \E params \in DOMAIN KeyTargets : BeginKeyRevocation(o, params)
    \/ CompleteKeyRevocation(o)

LedgerStep ==
  \E a \in Approvals, o \in OperationIds :
    \/ \E d \in Digests, charge \in Charges, at \in 1..MaxTime :
         Reserve(a, o, d, charge, at)
    \/ \E next \in {"RELEASED", "QUARANTINED"} : FinalizeReservation(a, o, next)
    \/ \E d \in Digests, result \in Results : PublishResult(a, o, d, result)
    \/ \E d \in Digests, result \in Results, n \in 1..MaxBatchChildren :
         PublishBatch(a, o, d, result, n)

ClockStep ==
  \E effective \in 1..MaxTime :
    \/ \E condition \in ClockCondition \ {"REPAIRED"} : ObserveTime(condition, effective)
    \/ RepairClock(effective)

Next == ApprovalStep \/ OperationStep \/ LedgerStep \/ ClockStep

Spec == Init /\ [][Next]_vars

-----------------------------------------------------------------------------
(* Properties. *)

\* Every row is one the schema and the parsers of the journal accept.
TypeOK ==
  /\ approvals \in [Approvals -> ApprovalState \cup {"ABSENT"}]
  /\ renewalOf \in [Approvals -> Approvals \cup {None}]
  /\ activation \in [Approvals -> ActivationIds \cup {None}]
  /\ operations \in [OperationIds -> OperationRow]
  /\ attempts \in [OperationIds -> SUBSET (AttemptIds \X Envelopes)]
  /\ targets \in [OperationIds -> SUBSET Approvals]
  /\ children \in [OperationIds -> 0..MaxBatchChildren]
  /\ reservations \in [Approvals -> [OperationIds -> ReservationRow]]
  /\ clock \in [effective: 0..MaxTime, condition: ClockCondition \cup {"ABSENT"}]
  /\ audit \subseteq AuditEntries

\* The operations of an approval that were not released never exceed its
\* lifetime operation limit (reserve_for_clock_profile).
OperationBudget ==
  \A a \in Approvals : Cardinality(Counted({a})) <= MaxOperations[a]

\* ... nor do their signatures, nor the value of any asset they spend, whatever
\* the order of reservations, releases and publications.
SpendingBudget ==
  \A a \in Approvals :
    /\ SignaturesOf(Counted({a})) <= MaxSignatures[a]
    /\ \A asset \in Assets :
         IF asset \in DOMAIN ValueLimits[a]
         THEN ValueOf(Counted({a}), asset) <= ValueLimits[a][asset]
         ELSE ValueOf(Counted({a}), asset) = 0

\* A rate limit holds in every window that ends at a reservation of its
\* approval, counting the reservations of the approvals it renews: a renewal
\* does not refill the window (validate_rate_limits).
RollingOperations ==
  \A a \in Approvals, o \in OperationIds : \A limit \in RateLimits[a] :
    <<a, o>> \in Counted({a}) =>
      Cardinality(InWindow(Counted(Lineage(a)), reservations[a][o].at, limit.duration))
        <= limit.operations

\* The same for the signatures and for the assets with a rolling maximum that
\* the reservation spends (validate_rate_limits, validate_rolling_value_limits).
RollingSpending ==
  \A a \in Approvals, o \in OperationIds :
    <<a, o>> \in Counted({a}) =>
      /\ \A limit \in RateLimits[a] :
           SignaturesOf(InWindow(Counted(Lineage(a)), reservations[a][o].at, limit.duration))
             <= limit.signatures
      /\ \A limit \in RollingLimits[a] :
           limit.asset \in DOMAIN reservations[a][o].charge.values =>
             ValueOf(InWindow(Counted(Lineage(a)), reservations[a][o].at, limit.duration),
                     limit.asset) <= limit.maximum

\* An activated renewal has consumed every approval it descends from: none of
\* them can reserve again (activate_approval_record).
RenewalConsumesLineage ==
  \A a \in Approvals :
    activation[a] # None => \A b \in Lineage(a) \ {a} : approvals[b] = "REVOKED"

\* Two active approvals never share an ancestor.  The rolling limits sum over
\* ancestors only, so a forked lineage would spend the same window twice.
NoForkedLineage ==
  \A a, b \in Approvals :
    approvals[a] = "ACTIVE" /\ approvals[b] = "ACTIVE" /\ a # b =>
      Lineage(a) \cap Lineage(b) = {}

\* Once a by-key revocation has recorded an approval as its target, that
\* approval is never activated: a ceremony that completes late finds it FAILED.
NoActivationAfterKeyStop ==
  [][\A o \in OperationIds : \A a \in targets[o] :
       approvals[a] # "ACTIVE" => approvals'[a] # "ACTIVE"]_vars

\* A reservation is charged to its approval exactly when the operation's result
\* is published under that approval's receipt: no signature is handed out
\* uncharged, and no released or quarantined reservation has a result.
PublishedIsCharged ==
  \A a \in Approvals, o \in OperationIds :
    (reservations[a][o].state = "COMMITTED")
      <=> (operations[o].result # None /\ operations[o].approval = a)

\* A ledger row is written once and finalized once; what it charges and when
\* never changes, so a release cannot give back more than was reserved.
LedgerRowFinal ==
  [][\A a \in Approvals, o \in OperationIds :
       LET old == reservations[a][o]
           new == reservations'[a][o]
       IN  old.state # "ABSENT" =>
             /\ [new EXCEPT !.state = old.state] = old
             /\ old.state # "RESERVED" => new = old]_vars

\* Every retained v1 audit entry still agrees with the rows it is about, which
\* is what verify_audit_correlation requires before it serves a mutation.
AuditCorrelated ==
  \A entry \in audit : entry.evidence = AuditEvidence(entry.event, entry.subject)

\* An operation id is bound once: kind, digest, approval, request fields and
\* batch flag never change, and a published result is never replaced.
OperationBinding ==
  [][\A o \in OperationIds :
       LET old == operations[o]
           new == operations'[o]
       IN  old.kind # "absent" =>
             /\ [new EXCEPT !.state = old.state, !.result = old.result] = old
             /\ old.result # None => new = old /\ children'[o] = children[o]]_vars

\* Attempts exist for signing operations only, and an attempt id names one
\* attempt digest of its operation (begin_sign_attempt).
AttemptsOfOneOperation ==
  \A o \in OperationIds :
    /\ attempts[o] # {} => operations[o].kind = "operation"
    /\ \A p, q \in attempts[o] : p[1] = q[1] => p = q
====
