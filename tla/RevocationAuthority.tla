------------------------- MODULE RevocationAuthority -------------------------
(***************************************************************************)
(* How the Broker learns, records and enforces revocations of one wallet:  *)
(* the revocation handlers and reconcile_wallet of service.rs, and the     *)
(* calls of authority.rs that run under the authorization barrier, over    *)
(* one BrokerJournal and an external Signer.                               *)
(*                                                                         *)
(* A step is one SQLite transaction or one Signer RPC.  A call that holds  *)
(* the barrier over a single transaction is one action.  reconcile_        *)
(* revocation and advance_local_epoch hold it over several, so a crash may *)
(* fall between two of them; nobody else writes these tables meanwhile.    *)
(* A call slot is used once: it runs one request and ends.  A crash of the *)
(* Broker is the failure of every call that runs.                          *)
(*                                                                         *)
(* The Signer is modelled from how the Broker uses it.  It may handle a    *)
(* command after the call that sent it has timed out, or never, and an     *)
(* owner may revoke there without the Broker.                              *)
(***************************************************************************)
EXTENDS BrokerJournal

CONSTANTS
  Calls,       \* call slots
  Requests,    \* [kind, approval, op, key]
  EpochOf,     \* approval -> wallet_revocation_epoch of its terms
  RenewalOf,   \* approval -> renewal_of of its terms
  Automation,  \* approvals with a Petal selector, the others are Exact
  Seeded,      \* approvals activated before the behaviour starts
  ActivationOf,\* approval -> operation id of its ceremony
  MaxEpoch     \* bound on wallet epochs

VARIABLES
  step,            \* call -> where it is
  request,         \* call -> its request
  snapshot,        \* call -> the Signer snapshot it works from
  todo,            \* call -> approvals it has yet to stop
  late,            \* call -> its approval was revoked before it began (history)
  wallet,          \* the wallet_epochs row
  stops,           \* key_stops
  tombstones,      \* signer_approval_tombstones
  ceremonies,      \* approvals with a live ceremony
  signerEpoch,     \* the Signer's wallet epoch
  signerApprovals, \* the Signer's approvals
  wire             \* revocations sent that the Signer has not handled

callVars == <<step, request, snapshot, todo, late>>
authorityVars == <<wallet, stops, tombstones, ceremonies>>
signerVars == <<signerEpoch, signerApprovals, wire>>
revocationVars == <<vars, callVars, authorityVars, signerVars>>

Kinds == {"sign", "prepare", "reconcile", "revoke", "revoke_for_key", "revoke_all"}

ASSUME RevocationAssumption ==
  /\ Requests \subseteq [kind: Kinds, approval: Approvals \cup {None}, op: OperationIds,
                         key: DOMAIN KeyTargets \cup {None}]
  /\ \A r \in Requests :
       /\ r.kind \in {"sign", "prepare", "revoke"} => r.approval \in Approvals
       /\ r.kind = "revoke_for_key" => r.key \in DOMAIN KeyTargets
  /\ EpochOf \in [Approvals -> Nat]
  /\ RenewalOf \in [Approvals -> Approvals \cup {None}]
  /\ \A a \in Approvals : RenewalOf[a] # a
  /\ ActivationOf \in [Approvals -> ActivationIds]
  /\ \A a, b \in Approvals : ActivationOf[a] = ActivationOf[b] => a = b
  /\ Automation \subseteq Approvals
  /\ Seeded \subseteq {a \in Approvals : EpochOf[a] = 0 /\ RenewalOf[a] = None}
  /\ MaxEpoch \in Nat

Ended == {"authorized", "done", "failed"}

\* Between two transactions of one barrier hold.
Held == {"stops", "older"}

Awaiting == {"await_revoke", "await_revoke_all"}

Steps ==
  Ended \cup Held \cup Awaiting \cup
  {"idle", "snapshot", "reconcile", "push", "authorize", "ceremony", "record",
   "stop_local", "send_revoke", "admit", "next_target", "read_epoch", "advance"}

BarrierFree == \A c \in Calls : step[c] \notin Held

NoSnapshot == [epoch |-> 0, tombstones |-> {}]
NoRequest == [kind |-> "none", approval |-> None, op |-> None, key |-> None]

\* The wallet has a policy, whose install_policy wrote the epoch row.
RevocationInit ==
  /\ approvals = [a \in Approvals |-> IF a \in Seeded THEN "ACTIVE" ELSE "ABSENT"]
  /\ renewalOf = [a \in Approvals |-> None]
  /\ activation = [a \in Approvals |-> IF a \in Seeded THEN ActivationOf[a] ELSE None]
  /\ audit = {[event |-> "approval.activated", subject |-> a, evidence |-> ActivationOf[a]]
                : a \in Seeded}
  /\ operations = [o \in OperationIds |-> NoOperation]
  /\ attempts = [o \in OperationIds |-> {}]
  /\ targets = [o \in OperationIds |-> {}]
  /\ children = [o \in OperationIds |-> 0]
  /\ reservations = [a \in Approvals |-> [o \in OperationIds |-> NoReservation]]
  /\ clock = [effective |-> 0, condition |-> "ABSENT"]
  /\ step = [c \in Calls |-> "idle"]
  /\ request = [c \in Calls |-> NoRequest]
  /\ snapshot = [c \in Calls |-> NoSnapshot]
  /\ todo = [c \in Calls |-> {}]
  /\ late = [c \in Calls |-> FALSE]
  /\ wallet = [epoch |-> 0, reconciled |-> TRUE]
  /\ stops = {}
  /\ tombstones = {}
  /\ ceremonies = Seeded
  /\ signerEpoch = 0
  /\ signerApprovals = [a \in Approvals |-> IF a \in Seeded THEN "active" ELSE "unknown"]
  /\ wire = {}

-----------------------------------------------------------------------------
(* Helpers of authority.rs. *)

\* stop_approval: a pending approval fails, an effective one is revoked.
stop_approval(a) ==
  \/ /\ approvals[a] \in {"PREPARED", "AWAITING_CEREMONY"}
     /\ TransitionApproval(a, "FAILED")
  \/ /\ approvals[a] \in {"ORPHANED", "ACTIVE"}
     /\ TransitionApproval(a, "REVOKED")
  \/ /\ approvals[a] \notin {"PREPARED", "AWAITING_CEREMONY", "ORPHANED", "ACTIVE"}
     /\ UNCHANGED vars

\* What revoke_older_approvals walks over.
older_approvals(epoch) ==
  {a \in Approvals : approvals[a] # "ABSENT" /\ EpochOf[a] < epoch}

\* ensure_key_not_stopped: Exact approvals are exempt.
ensure_key_not_stopped(a) ==
  a \in Automation => \A key \in stops : a \notin KeyTargets[key]

\* Mutant of CurrentEpoch: a reconciled wallet is taken to have no older approval
\* left in effect.
CurrentEpoch_Reconciled(a) == wallet.reconciled

\* epoch_state as every chokepoint compares it with the approval's terms.
CurrentEpoch(a) == wallet.reconciled /\ wallet.epoch = EpochOf[a]

-----------------------------------------------------------------------------
(* A call begins and ends. *)

\* A call goes on at next.  Its snapshot and list are locals of the function it
\* is in, and gone when reconcile_wallet or the handler returns.
Move(c, next, state, list) ==
  LET gone == next \in Ended \cup {"authorize", "ceremony"} IN
  /\ step' = [step EXCEPT ![c] = next]
  /\ snapshot' = [snapshot EXCEPT ![c] = IF gone THEN NoSnapshot ELSE state]
  /\ todo' = [todo EXCEPT ![c] = IF gone THEN {} ELSE list]

Goto(c, next) == Move(c, next, snapshot[c], todo[c])

FirstStep(kind) ==
  CASE kind \in {"sign", "prepare", "reconcile"} -> "snapshot"
    [] kind = "revoke"         -> "stop_local"
    [] kind = "revoke_for_key" -> "admit"
    [] kind = "revoke_all"     -> "read_epoch"

\* Revoked, or older than an epoch, in some durable store.
RevokedNow ==
  {a \in Approvals :
     \/ signerApprovals[a] = "revoked"
     \/ EpochOf[a] < signerEpoch
     \/ EpochOf[a] < wallet.epoch
     \/ approvals[a] \in {"FAILED", "REVOKED"}}

\* A sign request for an approval without a record is refused at once.
Begin(c, r) ==
  /\ step[c] = "idle"
  /\ r.kind = "sign" => approvals[r.approval] # "ABSENT"
  /\ Goto(c, FirstStep(r.kind))
  /\ request' = [request EXCEPT ![c] = r]
  /\ late' = [late EXCEPT ![c] = r.approval \in RevokedNow]
  /\ UNCHANGED <<vars, authorityVars, signerVars>>

\* A storage error or a crash.
Fail(c) ==
  /\ step[c] \notin Ended \cup {"idle"}
  /\ Goto(c, "failed")
  /\ UNCHANGED <<vars, request, late, authorityVars, signerVars>>

\* An RPC that is not answered in 30 s; the command may still reach the Signer.
Timeout(c) ==
  /\ step[c] \in Awaiting \cup {"snapshot"}
  /\ Goto(c, "failed")
  /\ UNCHANGED <<vars, request, late, authorityVars, signerVars>>

-----------------------------------------------------------------------------
(* reconcile_wallet. *)

AfterReconcile(kind) ==
  CASE kind = "sign"      -> "authorize"
    [] kind = "prepare"   -> "ceremony"
    [] kind = "reconcile" -> "done"

\* revocation_snapshot: the Signer's signed epoch and tombstone union.
RevocationSnapshot(c) ==
  /\ step[c] = "snapshot"
  /\ Move(c, "reconcile",
          [epoch |-> signerEpoch,
           tombstones |-> {a \in Approvals : signerApprovals[a] = "revoked"}], {})
  /\ UNCHANGED <<vars, request, late, authorityVars, signerVars>>

\* store_signer_tombstones takes the barrier's first transaction.  A union that
\* lacks a stored tombstone is refused, which an overtaken snapshot may meet.
StoreSignerTombstones(c) ==
  /\ step[c] = "reconcile"
  /\ BarrierFree
  /\ IF tombstones \subseteq snapshot[c].tombstones
     THEN /\ tombstones' = snapshot[c].tombstones
          /\ Move(c, "stops", snapshot[c], snapshot[c].tombstones)
     ELSE Goto(c, "failed") /\ UNCHANGED tombstones
  /\ UNCHANGED <<vars, request, late, wallet, stops, ceremonies, signerVars>>

\* One stop of the loops over the tombstones and over the older approvals.
StopNext(c, a) ==
  /\ step[c] \in Held
  /\ a \in todo[c]
  /\ stop_approval(a)
  /\ Move(c, step[c], snapshot[c], todo[c] \ {a})
  /\ UNCHANGED <<request, late, authorityVars, signerVars>>

PushLocalEpoch(c) ==
  /\ step[c] = "stops" /\ todo[c] = {}
  /\ snapshot[c].epoch < wallet.epoch
  /\ wallet' = [wallet EXCEPT !.reconciled = FALSE]
  /\ Goto(c, "push")
  /\ UNCHANGED <<vars, request, late, stops, tombstones, ceremonies, signerVars>>

Converged(c) ==
  /\ step[c] = "stops" /\ todo[c] = {}
  /\ snapshot[c].epoch = wallet.epoch
  /\ wallet' = [wallet EXCEPT !.reconciled = TRUE]
  /\ Goto(c, AfterReconcile(request[c].kind))
  /\ UNCHANGED <<vars, request, late, stops, tombstones, ceremonies, signerVars>>

AdoptSignerEpoch(c) ==
  /\ step[c] = "stops" /\ todo[c] = {}
  /\ snapshot[c].epoch > wallet.epoch
  /\ wallet' = [epoch |-> snapshot[c].epoch, reconciled |-> TRUE]
  /\ Move(c, "older", snapshot[c], older_approvals(snapshot[c].epoch))
  /\ UNCHANGED <<vars, request, late, stops, tombstones, ceremonies, signerVars>>

\* The last older approval is stopped and the barrier released.
OlderDone(c) ==
  /\ step[c] = "older" /\ todo[c] = {}
  /\ Goto(c, IF request[c].kind = "revoke_all" THEN "push" ELSE AfterReconcile(request[c].kind))
  /\ UNCHANGED <<vars, request, late, authorityVars, signerVars>>

\* Mutant of SendRevokeAll: the loop asks for a new snapshot and sends nothing.
SendRevokeAll_NotSent(c) ==
  /\ step[c] = "push"
  /\ Goto(c, IF request[c].kind = "revoke_all" THEN "done" ELSE "snapshot")
  /\ UNCHANGED <<vars, request, late, authorityVars, signerVars>>

\* sealed_approval.revoke_all to the Signer.  reconcile_wallet checks first that
\* its snapshot is behind the local epoch.
SendRevokeAll(c) ==
  /\ step[c] = "push"
  /\ IF request[c].kind = "revoke_all" \/ snapshot[c].epoch < wallet.epoch
     THEN /\ wire' = wire \cup {[call |-> c, approval |-> None]}
          /\ Goto(c, "await_revoke_all")
     ELSE Goto(c, "failed") /\ UNCHANGED wire
  /\ UNCHANGED <<vars, request, late, authorityVars, signerEpoch, signerApprovals>>

-----------------------------------------------------------------------------
(* The chokepoints: one transaction each, under the barrier. *)

\* authorize_for_clock_profile; its last call makes the reservation or finds it.
Authorize(c) ==
  LET a == request[c].approval
      o == request[c].op
  IN
  /\ step[c] = "authorize"
  /\ BarrierFree
  /\ a \notin tombstones
  /\ approvals[a] = "ACTIVE"
  /\ CurrentEpoch(a)
  /\ \E d \in Digests, charge \in Charges, at \in 1..MaxTime :
       \/ Reserve(a, o, d, charge, at)
       \/ /\ reservations[a][o].state = "RESERVED"
          /\ reservations[a][o].digest = d /\ reservations[a][o].charge = charge
          /\ UNCHANGED vars
  /\ Goto(c, "authorized")
  /\ UNCHANGED <<request, late, authorityVars, signerVars>>

\* ceremony.prepare_approval registers the session before the record exists.
PrepareCeremony(c) ==
  /\ step[c] = "ceremony"
  /\ ceremonies' = ceremonies \cup {request[c].approval}
  /\ Goto(c, "record")
  /\ UNCHANGED <<vars, request, late, wallet, stops, tombstones, signerVars>>

CanPrepare(a) ==
  /\ ensure_key_not_stopped(a)
  /\ a \notin tombstones
  /\ CurrentEpoch(a)
  /\ RenewalOf[a] # None => approvals[RenewalOf[a]] = "ACTIVE"

\* prepare_approval_with_claim: a record with the same terms is found again
\* before the tombstones and the epoch are looked at.
PrepareApproval(c) ==
  LET a == request[c].approval IN
  /\ step[c] = "record"
  /\ BarrierFree
  /\ \/ CanPrepare(a) /\ CreateApprovalRecord(a, RenewalOf[a])
     \/ approvals[a] # "ABSENT" /\ ensure_key_not_stopped(a) /\ UNCHANGED vars
  /\ Goto(c, "done")
  /\ UNCHANGED <<request, late, authorityVars, signerVars>>

\* A check refuses: a policy, provenance or claim check may always.  A refused
\* preparation cancels its ceremony.
Denied(c) ==
  /\ step[c] \in {"authorize", "record"}
  /\ BarrierFree
  /\ ceremonies' = IF step[c] = "record" THEN ceremonies \ {request[c].approval} ELSE ceremonies
  /\ Goto(c, "failed")
  /\ UNCHANGED <<vars, request, late, wallet, stops, tombstones, signerVars>>

\* activate_signer_receipt, called when a ceremony completes; it relies on the
\* record alone for key stops.
ActivateSignerReceipt(a) ==
  /\ BarrierFree
  /\ signerApprovals[a] # "unknown"
  /\ a \notin tombstones
  /\ CurrentEpoch(a)
  /\ ActivateApprovalRecord(a, ActivationOf[a])
  /\ UNCHANGED <<callVars, authorityVars, signerVars>>

-----------------------------------------------------------------------------
(* sealed_approval.revoke, revoke_for_key and revoke_all. *)

\* revoke_local_approval.
StopLocal(c) ==
  /\ step[c] = "stop_local"
  /\ BarrierFree
  /\ stop_approval(request[c].approval)
  /\ Move(c, IF request[c].kind = "revoke" THEN "send_revoke" ELSE "next_target",
          snapshot[c], todo[c] \ {request[c].approval})
  /\ UNCHANGED <<request, late, authorityVars, signerVars>>

SendRevoke(c) ==
  /\ step[c] = "send_revoke"
  /\ wire' = wire \cup {[call |-> c, approval |-> request[c].approval]}
  /\ Goto(c, "await_revoke")
  /\ UNCHANGED <<vars, request, late, authorityVars, signerEpoch, signerApprovals>>

\* admit_key_revocation: the first use of the id records the stop and fences the
\* pending approvals, a replay works from the recorded targets.
AdmitKeyRevocation(c) ==
  LET o == request[c].op
      key == request[c].key
  IN
  /\ step[c] = "admit"
  /\ BarrierFree
  /\ \/ /\ BeginKeyRevocation(o, key)
        /\ stops' = stops \cup {key}
        /\ Move(c, "next_target", snapshot[c], targets'[o])
     \/ /\ operations[o].kind = "key_revocation" /\ operations[o].digest = key
        /\ Move(c, "next_target", snapshot[c], targets[o])
        /\ UNCHANGED <<vars, stops>>
     \/ /\ operations[o].kind # "absent" /\ operations[o].digest # key
        /\ Goto(c, "failed")
        /\ UNCHANGED <<vars, stops>>
  /\ UNCHANGED <<request, late, wallet, tombstones, ceremonies, signerVars>>

\* Mutant of NextTarget: a target that is no longer active locally is skipped.
NextTarget_ActiveOnly(c, a) ==
  /\ step[c] = "next_target"
  /\ a \in todo[c]
  /\ IF approvals[a] = "ACTIVE"
     THEN /\ request' = [request EXCEPT ![c].approval = a]
          /\ wire' = wire \cup {[call |-> c, approval |-> a]}
          /\ Goto(c, "await_revoke")
     ELSE /\ Move(c, step[c], snapshot[c], todo[c] \ {a})
          /\ UNCHANGED <<request, wire>>
  /\ UNCHANGED <<vars, late, authorityVars, signerEpoch, signerApprovals>>

\* The next target is revoked at the Signer first, whatever its local state.
NextTarget(c, a) ==
  /\ step[c] = "next_target"
  /\ a \in todo[c]
  /\ request' = [request EXCEPT ![c].approval = a]
  /\ wire' = wire \cup {[call |-> c, approval |-> a]}
  /\ Goto(c, "await_revoke")
  /\ UNCHANGED <<vars, late, authorityVars, signerEpoch, signerApprovals>>

\* Every target is revoked: complete_key_revocation, idempotent.
CompleteTargets(c) ==
  /\ step[c] = "next_target" /\ todo[c] = {}
  /\ \/ CompleteKeyRevocation(request[c].op)
     \/ operations[request[c].op].state # "RECEIVED" /\ UNCHANGED vars
  /\ Goto(c, "done")
  /\ UNCHANGED <<request, late, authorityVars, signerVars>>

\* wallet_epoch is read without the barrier; advance_local_epoch compares again.
ReadEpoch(c) ==
  /\ step[c] = "read_epoch"
  /\ Move(c, "advance", [NoSnapshot EXCEPT !.epoch = wallet.epoch], {})
  /\ UNCHANGED <<vars, request, late, authorityVars, signerVars>>

AdvanceLocalEpoch(c) ==
  /\ step[c] = "advance"
  /\ BarrierFree
  /\ IF wallet.epoch = snapshot[c].epoch /\ wallet.epoch < MaxEpoch
     THEN /\ wallet' = [epoch |-> wallet.epoch + 1, reconciled |-> FALSE]
          /\ Move(c, "older", snapshot[c], older_approvals(wallet.epoch + 1))
     ELSE Goto(c, "failed") /\ UNCHANGED wallet
  /\ UNCHANGED <<vars, request, late, stops, tombstones, ceremonies, signerVars>>

-----------------------------------------------------------------------------
(* The Signer (external). *)

\* A ceremony the owner completes at the Signer, under its current epoch.
SignerActivates(a) ==
  /\ a \in ceremonies
  /\ signerApprovals[a] = "unknown"
  /\ EpochOf[a] = signerEpoch
  /\ signerApprovals' = [signerApprovals EXCEPT ![a] = "active"]
  /\ UNCHANGED <<vars, callVars, authorityVars, signerEpoch, wire>>

\* The owner revokes an approval, or the wallet, without the Broker.
SignerRevokesAlone(a) ==
  /\ signerApprovals[a] = "active"
  /\ signerApprovals' = [signerApprovals EXCEPT ![a] = "revoked"]
  /\ UNCHANGED <<vars, callVars, authorityVars, signerEpoch, wire>>

SignerAdvancesAlone ==
  /\ signerEpoch < MaxEpoch
  /\ signerEpoch' = signerEpoch + 1
  /\ UNCHANGED <<vars, callVars, authorityVars, signerApprovals, wire>>

\* An approval the Signer never activated answers ApprovalNotFound, which only
\* the by-key handler tolerates; the other one fails too when it reads back the
\* status of an approval without a record.
HandleRevoke(m) ==
  /\ m \in wire /\ m.approval # None
  /\ wire' = wire \ {m}
  /\ signerApprovals' = [signerApprovals EXCEPT ![m.approval] =
                           IF @ = "unknown" THEN @ ELSE "revoked"]
  /\ IF step[m.call] = "await_revoke"
     THEN Goto(m.call, IF request[m.call].kind = "revoke_for_key" THEN "stop_local"
                       ELSE IF \/ signerApprovals[m.approval] = "unknown"
                               \/ approvals[m.approval] = "ABSENT" THEN "failed" ELSE "done")
     ELSE UNCHANGED <<step, snapshot, todo>>
  /\ UNCHANGED <<vars, request, late, authorityVars, signerEpoch>>

\* Each command advances the epoch by one, up to the bound.
HandleRevokeAll(m) ==
  /\ m \in wire /\ m.approval = None
  /\ wire' = wire \ {m}
  /\ signerEpoch' = IF signerEpoch < MaxEpoch THEN signerEpoch + 1 ELSE signerEpoch
  /\ IF step[m.call] = "await_revoke_all"
     THEN Goto(m.call, IF signerEpoch = MaxEpoch THEN "failed"
                       ELSE IF request[m.call].kind = "revoke_all" THEN "done" ELSE "snapshot")
     ELSE UNCHANGED <<step, snapshot, todo>>
  /\ UNCHANGED <<vars, request, late, authorityVars, signerApprovals>>

-----------------------------------------------------------------------------
ReconcileStep(c) ==
  \/ RevocationSnapshot(c)
  \/ StoreSignerTombstones(c)
  \/ \E a \in Approvals : StopNext(c, a)
  \/ PushLocalEpoch(c)
  \/ Converged(c)
  \/ AdoptSignerEpoch(c)
  \/ OlderDone(c)
  \/ SendRevokeAll(c)

ChokepointStep(c) == Authorize(c) \/ PrepareCeremony(c) \/ PrepareApproval(c) \/ Denied(c)

RevokeStep(c) ==
  \/ StopLocal(c)
  \/ SendRevoke(c)
  \/ AdmitKeyRevocation(c)
  \/ \E a \in Approvals : NextTarget(c, a)
  \/ CompleteTargets(c)
  \/ ReadEpoch(c)
  \/ AdvanceLocalEpoch(c)

CallStep(c) == ReconcileStep(c) \/ ChokepointStep(c) \/ RevokeStep(c) \/ Timeout(c)

SignerStep ==
  \/ \E a \in Approvals : SignerActivates(a) \/ SignerRevokesAlone(a)
  \/ SignerAdvancesAlone
  \/ \E m \in wire : HandleRevoke(m) \/ HandleRevokeAll(m)

RevocationNext ==
  \/ \E c \in Calls :
       \/ \E r \in Requests : Begin(c, r)
       \/ CallStep(c)
       \/ Fail(c)
  \/ \E a \in Approvals : ActivateSignerReceipt(a)
  \/ SignerStep

RevocationSpec == RevocationInit /\ [][RevocationNext]_revocationVars

\* A running thread goes on, and an RPC is answered or times out.  Nothing is
\* assumed of the Signer.
FairRevocationSpec ==
  RevocationSpec /\ \A c \in Calls : WF_revocationVars(CallStep(c))

-----------------------------------------------------------------------------
(* Properties. *)

\* Calls are at a step of their handler, and the rows are ones the schema knows.
RevocationTypeOK ==
  /\ TypeOK
  /\ step \in [Calls -> Steps]
  /\ request \in [Calls -> [kind: Kinds \cup {"none"}, approval: Approvals \cup {None},
                            op: OperationIds \cup {None}, key: DOMAIN KeyTargets \cup {None}]]
  /\ snapshot \in [Calls -> [epoch: 0..MaxEpoch, tombstones: SUBSET Approvals]]
  /\ todo \in [Calls -> SUBSET Approvals]
  /\ late \in [Calls -> BOOLEAN]
  /\ wallet \in [epoch: 0..MaxEpoch, reconciled: BOOLEAN]
  /\ stops \subseteq DOMAIN KeyTargets
  /\ tombstones \subseteq Approvals
  /\ ceremonies \subseteq Approvals
  /\ signerEpoch \in 0..MaxEpoch
  /\ signerApprovals \in [Approvals -> {"unknown", "active", "revoked"}]
  /\ wire \subseteq [call: Calls, approval: Approvals \cup {None}]

\* A sign call never authorizes an approval that was revoked before the call
\* began: at the Signer by tombstone or epoch, or locally, whatever calls,
\* crashes and stale snapshots of other calls come in between.
AuthorizedWasLive ==
  \A c \in Calls : step[c] = "authorized" => ~late[c]

\* A wallet epoch counts as reconciled only once the Signer has reached it: no
\* approval is used under a local wallet stop the Signer has not learned of.
ReconciledIsKnown == wallet.reconciled => wallet.epoch <= signerEpoch

\* The local wallet epoch never goes back, so an approval of an older epoch
\* never becomes current again (reconcile_revocation, advance_local_epoch).
EpochNeverGoesBack == [][wallet'.epoch >= wallet.epoch]_revocationVars

\* A by-key revocation that reports success has left no target pending or active
\* locally, and none that was ever active unrevoked at the Signer, also when
\* passes overlap, fail half way or are retried.
KeyStopReachesEveryTarget ==
  \A o \in OperationIds :
    operations[o].kind = "key_revocation" /\ operations[o].state = "SUCCEEDED" =>
      \A a \in targets[o] :
        /\ approvals[a] \notin {"PREPARED", "AWAITING_CEREMONY", "ACTIVE"}
        /\ activation[a] # None => signerApprovals[a] = "revoked"

\* On a stopped key no reusable approval is prepared, waits for its ceremony or
\* becomes active, though activate_signer_receipt never reads key_stops.
StoppedKeyAdmitsNoAutomation ==
  [][\A a \in Automation :
       ~ensure_key_not_stopped(a) =>
         /\ approvals[a] # "AWAITING_CEREMONY"
         /\ approvals[a] # "ACTIVE" =>
              approvals'[a] \notin {"AWAITING_CEREMONY", "ACTIVE"}]_revocationVars

\* Every call ends: the barrier is always released, and the loop of
\* reconcile_wallet makes progress while other calls move both epochs.
CallsEnd ==
  \A c \in Calls : (step[c] # "idle") ~> (step[c] \in Ended)
=============================================================================
