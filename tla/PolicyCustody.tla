---------------------------- MODULE PolicyCustody ----------------------------
(***************************************************************************)
(* The Broker's copy of a wallet's policy and of what custody ceremonies   *)
(* leave behind (crates/bloom-broker/src/authority.rs), with the requests  *)
(* of service.rs that change them.                                         *)
(*                                                                         *)
(* The Signer owns the policy.  The Broker reads it, installs the answer   *)
(* later, stages an update the owner reviews, asks the Signer to swap it   *)
(* in and reads it back.  Account and key-derivation ceremonies freeze     *)
(* their terms first and are adopted, perhaps more than once, when the     *)
(* Signer has completed them.                                              *)
(*                                                                         *)
(* One wallet.  A session is the Broker's durable record of one ceremony;  *)
(* CeremonySessions has its details.  Signatures are not forged.           *)
(***************************************************************************)
EXTENDS Integers, FiniteSets

CONSTANTS
  Calls,      \* requests and finalizers that may run at once
  Kind,       \* the kind of ceremony of each custody operation
  Worlds,     \* the operations the caller starts in a behaviour
  Policies,   \* policy documents
  Legacy,     \* one whose verifier this build retains but never signs with
  MaxVersion, \* bound on the Signer's policy versions
  Terms,      \* account terms: [derivations, retire, version]
  Receipts,   \* sequences of children a Signer receipt may list
  Scopes,     \* Petal key scopes
  Permits,    \* the scopes a policy permits
  Keys,       \* keys the Signer may derive
  MaxFaults,  \* bound on process ends and on lost Signer answers
  None        \* an absent row, value or answer

Ops == DOMAIN Kind
Kinds == {"register", "update", "delete", "allocate", "retire", "derive"}

ASSUME CustodyAssumption ==
  /\ Kind \in [Ops -> Kinds] /\ Worlds \subseteq SUBSET Ops
  /\ Legacy \in Policies /\ Permits \in [Policies -> SUBSET Scopes]
  /\ MaxVersion \in Nat \ {0} /\ MaxFaults \in Nat

\* None is no state of a session and no row of a table.
ASSUME NoneAssumption ==
  /\ None \notin {"prepared", "completed", "succeeded", "failed"}
  /\ \A t \in Terms, state \in {"COMMITTED", "ADOPTED"} : [terms |-> t, state |-> state] # None
  /\ \A op \in Ops, scope \in Scopes : [op |-> op, scope |-> scope] # None

VARIABLES
  world,   \* the operations of this behaviour
  signer,  \* the Signer: wallet state, signed[v] for each version, receipts
  row,     \* the policies row
  pinned,  \* the wallet's policy key is in the registry in memory
  session, \* ceremony sessions
  terms,   \* committed_account_terms: terms and state
  adopted, \* adopted_account_terms
  pending, \* pending_petal_key_scopes
  bound,   \* petal_key_scopes
  call, faults

vars == <<world, signer, row, pinned, session, terms, adopted, pending, bound, call, faults>>

Idle == [at |-> "idle"]
NoSession == [state |-> None]

Version == 1..MaxVersion
Snapshot == [version: Version, policy: Policies]

\* The Signer's current snapshot.
Current == [version |-> signer.version, policy |-> signer.signed[signer.version]]

Init ==
  /\ world \in Worlds
  /\ LET registered == \A op \in world : Kind[op] # "register" IN
     /\ signer \in [wallet: {IF registered THEN "live" ELSE None}, version: {1},
                    signed: {[v \in {1} |-> p] : p \in Policies},
                    swapped: {[op \in Ops |-> None]}]
     /\ row = IF registered THEN Current ELSE None
     /\ pinned = registered
  /\ session = [op \in Ops |-> NoSession]
  /\ terms = [op \in Ops |-> None]
  /\ adopted = [op \in Ops |-> None]
  /\ pending = [op \in Ops |-> None]
  /\ bound = [k \in Keys |-> None]
  /\ call = [c \in Calls |-> Idle]
  /\ faults = 0

-----------------------------------------------------------------------------
\* Installing a snapshot.  The barrier is held; a deletion does not take it,
\* but both reads of the row decide alike.

ensure_policy_signing_enabled(p) == p # Legacy

\* The row after persist_verified_policy; None when it is refused.
\* Mutant: the last answer wins.
persist_verified_policy_LastWins(s) == s

persist_verified_policy(s) ==
  IF row = None \/ s = row THEN s ELSE IF s.version > row.version THEN s ELSE None

\* install_policy: only under a key that is pinned.
install_policy(s) == IF pinned THEN persist_verified_policy(s) ELSE None

Goto(c, r) == call' = [call EXCEPT ![c] = r]
Return(c) == Goto(c, Idle)
At(c, at) == call[c].at = at

\* A read of the Signer's policy, continued at "at".
signer_policy_read(c, at) ==
  IF signer.wallet = "live" THEN Goto(c, [call[c] EXCEPT !.at = at, !.seen = Current])
                            ELSE Return(c)

\* Install what was read.
Installs(c) == install_policy(call[c].seen) # None
Install(c) == row' = IF Installs(c) THEN install_policy(call[c].seen) ELSE row

\* What a call keeps between its awaits: its operation and request, the policy
\* it has read, the difference to review and the swap to commit.
Request(op, req) == [at |-> "read", op |-> op, req |-> req, seen |-> None, diff |-> None, swap |-> None]

policy_read(c) ==
  /\ At(c, "idle") /\ signer.wallet = "live"
  /\ Goto(c, [Request(None, None) EXCEPT !.at = "install", !.seen = Current])
  /\ UNCHANGED <<world, signer, row, pinned, session, terms, adopted, pending, bound, faults>>

policy_install(c) ==
  /\ At(c, "install")
  /\ Install(c) /\ Return(c)
  /\ UNCHANGED <<world, signer, pinned, session, terms, adopted, pending, bound, faults>>

-----------------------------------------------------------------------------
\* A policy update: [base, from, to] names the version and digest it starts
\* from and the policy it proposes.

Updates == [base: Version, from: Policies, to: Policies]

\* Mutant: a row behind the baseline the request names is accepted.
validate_policy_update_Behind(req) ==
  /\ row # None /\ (row.version < req.base \/ row = [version |-> req.base, policy |-> req.from])
  /\ ensure_policy_signing_enabled(req.to)

validate_policy_update(req) ==
  /\ row # None /\ row.version = req.base /\ row.policy = req.from
  /\ ensure_policy_signing_enabled(req.to)

\* The difference the owner reviews is derived from the Broker's row.
prepare_policy_update(c, op, req) ==
  /\ At(c, "idle") /\ Kind[op] = "update" /\ op \in world
  /\ session[op] = NoSession
  /\ validate_policy_update(req)
  /\ Goto(c, [Request(op, req) EXCEPT !.diff = [from |-> row.policy, to |-> req.to]])
  /\ UNCHANGED <<world, signer, row, pinned, session, terms, adopted, pending, bound, faults>>

\* read: the Signer answers a policy read on the way.
request_policy_read(c) ==
  /\ At(c, "read")
  /\ signer_policy_read(c, "checked")
  /\ UNCHANGED <<world, signer, row, pinned, session, terms, adopted, pending, bound, faults>>

\* The ceremony is prepared once per operation, under the admission lock.
update_ceremony(c) ==
  LET op == call[c].op  req == call[c].req IN
  /\ At(c, "checked") /\ Kind[op] = "update"
  /\ Install(c) /\ Return(c)
  /\ session' = IF /\ Installs(c) /\ session[op] = NoSession
                    /\ call[c].seen = [version |-> req.base, policy |-> req.from]
                  THEN [session EXCEPT ![op] = [state |-> "prepared", req |-> req,
                                                diff |-> call[c].diff, receipt |-> None]]
                  ELSE session
  /\ UNCHANGED <<world, signer, pinned, terms, adopted, pending, bound, faults>>

\* completed_policy_update, then the swap at the Signer, which repeats its
\* receipt for an operation it has already swapped in.
commit_policy_update(c, op) ==
  /\ At(c, "idle") /\ Kind[op] = "update" /\ session[op].state = "succeeded"
  /\ LET req == session[op].req
         fresh == signer.wallet = "live" /\ Current = [version |-> req.base, policy |-> req.from]
         next == [version |-> req.base + 1, policy |-> req.to] IN
     /\ \/ /\ fresh /\ req.base < MaxVersion
           /\ signer' = [signer EXCEPT !.version = req.base + 1,
                                       !.signed = [v \in DOMAIN @ \cup {req.base + 1} |->
                                                    IF v = req.base + 1 THEN req.to ELSE @[v]],
                                       !.swapped[op] = next]
        \/ signer.swapped[op] # None /\ UNCHANGED signer
     /\ \/ /\ Goto(c, [Request(op, req) EXCEPT !.at = "reread", !.swap = next])
           /\ UNCHANGED faults
        \/ /\ faults < MaxFaults /\ faults' = faults + 1
           /\ UNCHANGED call
  /\ UNCHANGED <<world, row, pinned, session, terms, adopted, pending, bound>>

commit_reread(c) ==
  /\ At(c, "reread")
  /\ signer_policy_read(c, "verify")
  /\ UNCHANGED <<world, signer, row, pinned, session, terms, adopted, pending, bound, faults>>

verify_policy_commit_receipt(receipt, req, reread) ==
  /\ receipt = reread
  /\ receipt.version = req.base + 1 /\ receipt.policy = req.to

commit_install(c) ==
  /\ At(c, "verify")
  /\ IF pinned /\ verify_policy_commit_receipt(call[c].swap, call[c].req, call[c].seen)
       THEN Install(c) ELSE UNCHANGED row
  /\ Return(c)
  /\ UNCHANGED <<world, signer, pinned, session, terms, adopted, pending, bound, faults>>

-----------------------------------------------------------------------------
\* Account and key-derivation ceremonies: freeze the terms, then prepare.

EvmProfile == "evm"

\* The account number a child's path encodes: the EVM address index under
\* account zero, the Solana account.
committed_path_number(child) ==
  IF child.profile # EvmProfile THEN child.account ELSE IF child.account = 0 THEN child.index ELSE None

path_matches_committed_account(child, account) ==
  IF account # None THEN child.account = account
  ELSE child.profile = EvmProfile => child.account = 0

Rows(receipt) == {receipt[i] : i \in DOMAIN receipt}

\* adopt_account_allocation's checks of a receipt's children, a sequence.
allocation_matches(t, receipt) ==
  /\ t.derivations # {} /\ Cardinality(DOMAIN receipt) = Cardinality(t.derivations)
  /\ \A i, j \in DOMAIN receipt : receipt[i].profile = receipt[j].profile => i = j
  /\ \A d \in t.derivations : \E k \in Rows(receipt) :
       /\ k.profile = d.profile /\ path_matches_committed_account(k, d.account)
       /\ committed_path_number(k) # None
  /\ \A k, l \in Rows(receipt) : committed_path_number(k) = committed_path_number(l)

\* Two adoptions of one operation may both have read COMMITTED; the second
\* insert is a storage error.
AccountKinds == {"allocate", "retire"}

account_prepare(c, op, t) ==
  /\ At(c, "idle") /\ op \in world /\ Kind[op] \in AccountKinds
  /\ (Kind[op] = "allocate") = (t.derivations # {})
  /\ Goto(c, Request(op, t))
  /\ UNCHANGED <<world, signer, row, pinned, session, terms, adopted, pending, bound, faults>>

\* verify_account_terms_baseline, then record_account_terms.  Epoch and expiry
\* are compared the same way; the wallet's accounts are only read.
\* Mutant: new terms replace the committed ones.
record_account_terms_Upsert(op, t) == [terms EXCEPT ![op] = [terms |-> t, state |-> "COMMITTED"]]

record_account_terms(op, t) ==
  IF terms[op] = None THEN [terms EXCEPT ![op] = [terms |-> t, state |-> "COMMITTED"]] ELSE terms

account_terms(c) ==
  LET op == call[c].op  t == call[c].req IN
  /\ At(c, "checked") /\ Kind[op] \in AccountKinds
  /\ Install(c)
  /\ IF Installs(c) /\ call[c].seen.version = t.version
       THEN /\ terms' = record_account_terms(op, t)
            /\ IF terms'[op].terms = t THEN Goto(c, [call[c] EXCEPT !.at = "ceremony"]) ELSE Return(c)
       ELSE Return(c) /\ UNCHANGED terms
  /\ UNCHANGED <<world, signer, pinned, session, adopted, pending, bound, faults>>

\* An exact repeat of a prepared request answers as before.
prepare_custody(c) ==
  LET op == call[c].op IN
  /\ At(c, "ceremony")
  /\ session' = IF session[op] = NoSession
                  THEN [session EXCEPT ![op] = [state |-> "prepared", req |-> call[c].req,
                                                diff |-> None, receipt |-> None]]
                  ELSE session
  /\ Return(c)
  /\ UNCHANGED <<world, signer, row, pinned, terms, adopted, pending, bound, faults>>

prepare_petal_key_scope(op, scope) ==
  /\ row # None /\ ensure_policy_signing_enabled(row.policy)
  /\ scope \in Permits[row.policy]

\* key.derive: a scoped request freezes its scope; the rest is the ceremony.
derive_prepare(c, op, scope) ==
  /\ At(c, "idle") /\ op \in world /\ Kind[op] = "derive"
  /\ IF scope = None THEN UNCHANGED pending
     ELSE /\ prepare_petal_key_scope(op, scope)
          /\ pending[op] \in {None, scope}
          /\ pending' = [pending EXCEPT ![op] = scope]
  /\ Goto(c, [Request(op, scope) EXCEPT !.at = "ceremony"])
  /\ UNCHANGED <<world, signer, row, pinned, session, terms, adopted, bound, faults>>

\* Registration and deletion carry no terms of the Broker's.
plain_prepare(c, op) ==
  /\ At(c, "idle") /\ op \in world /\ Kind[op] \in {"register", "delete"}
  /\ session[op] = NoSession
  /\ Goto(c, [Request(op, None) EXCEPT !.at = "ceremony"])
  /\ UNCHANGED <<world, signer, row, pinned, session, terms, adopted, pending, bound, faults>>

-----------------------------------------------------------------------------
\* The owner completes a ceremony at the Signer.  What the receipt of an
\* allocation lists is not taken on trust.

Prepared(op) == session[op].state = "prepared"

Complete(op, receipt) == session' = [session EXCEPT ![op].state = "completed", ![op].receipt = receipt]

signer_completes(op) ==
  /\ Prepared(op)
  /\ \/ /\ Kind[op] = "register" /\ signer.wallet = None
        /\ signer' = [signer EXCEPT !.wallet = "live"]
        /\ Complete(op, Current)
     \/ /\ Kind[op] = "delete" /\ signer.wallet = "live"
        /\ signer' = [signer EXCEPT !.wallet = "deleted"]
        /\ Complete(op, None)
     \/ /\ Kind[op] \in {"update", "retire"} /\ signer.wallet = "live"
        /\ Complete(op, None) /\ UNCHANGED signer
     \/ /\ Kind[op] = "allocate" /\ signer.wallet = "live"
        /\ \E receipt \in Receipts : Complete(op, receipt)
        /\ UNCHANGED signer
     \/ /\ Kind[op] = "derive" /\ signer.wallet = "live"
        /\ \E k \in Keys : Complete(op, k)
        /\ UNCHANGED signer
  /\ UNCHANGED <<world, row, pinned, terms, adopted, pending, bound, call, faults>>

\* A finalizer takes up a completed session; others may do so too.
finalize(c, op) ==
  /\ At(c, "idle") /\ session[op].state = "completed"
  /\ Goto(c, [Request(op, session[op].receipt) EXCEPT !.at = "adopt"])
  /\ UNCHANGED <<world, signer, row, pinned, session, terms, adopted, pending, bound, faults>>

\* It ends the session unless another finalizer has.
End(op, state) ==
  session' = IF session[op].state = "completed" THEN [session EXCEPT ![op].state = state] ELSE session
Succeed(c, op) == End(op, "succeeded") /\ Return(c)
Refuse(c, op) == End(op, "failed") /\ Return(c)

\* The receipt is the completed session's own, so its signature and its state
\* verify; the kind selects what is adopted.
Adopting(c, kinds) == At(c, "adopt") /\ Kind[call[c].op] \in kinds

\* The key is pinned only when the policy was persisted.
adopt_registration(c) ==
  LET next == persist_verified_policy(call[c].req) IN
  /\ Adopting(c, {"register"})
  /\ IF next # None
       THEN row' = next /\ pinned' = TRUE /\ Succeed(c, call[c].op)
       ELSE Refuse(c, call[c].op) /\ UNCHANGED <<row, pinned>>
  /\ UNCHANGED <<world, signer, terms, adopted, pending, bound, faults>>

adopt_deletion(c) ==
  /\ Adopting(c, {"delete"})
  /\ row' = None
  /\ Succeed(c, call[c].op)
  /\ UNCHANGED <<world, signer, pinned, terms, adopted, pending, bound, faults>>

\* A policy update is committed by a request of its own.
adopt_update(c) ==
  /\ Adopting(c, {"update"})
  /\ Succeed(c, call[c].op)
  /\ UNCHANGED <<world, signer, row, pinned, terms, adopted, pending, bound, faults>>

committed_account_terms(c) ==
  LET op == call[c].op IN
  /\ Adopting(c, AccountKinds)
  /\ IF terms[op] = None THEN Refuse(c, op)
     ELSE IF terms[op].state = "ADOPTED" THEN Succeed(c, op)
     ELSE IF Kind[op] = "allocate" => allocation_matches(terms[op].terms, call[c].req)
       THEN Goto(c, [call[c] EXCEPT !.at = "adopt_write"]) /\ UNCHANGED session
       ELSE Refuse(c, op)
  /\ UNCHANGED <<world, signer, row, pinned, terms, adopted, pending, bound, faults>>

adopt_account(c) ==
  LET op == call[c].op IN
  /\ At(c, "adopt_write")
  /\ IF adopted[op] = None
       THEN /\ terms' = [terms EXCEPT ![op].state = "ADOPTED"]
            /\ adopted' = [adopted EXCEPT ![op] = [terms |-> terms[op].terms, receipt |-> call[c].req]]
            /\ Succeed(c, op)
       ELSE Return(c) /\ UNCHANGED <<terms, adopted, session>>
  /\ UNCHANGED <<world, signer, row, pinned, pending, bound, faults>>

\* Mutant: a later derivation of the same key takes over its scope.
scope_binds_TakesOver(op, key) == TRUE

\* A key keeps the scope and receipt of its first adoption.
scope_binds(op, key) == bound[key] = None \/ bound[key] = [op |-> op, scope |-> pending[op]]

adopt_petal_key_scope(c) ==
  LET op == call[c].op  key == call[c].req IN
  /\ Adopting(c, {"derive"})
  /\ IF pending[op] = None THEN Succeed(c, op) /\ UNCHANGED bound
     ELSE IF scope_binds(op, key)
       THEN bound' = [bound EXCEPT ![key] = [op |-> op, scope |-> pending[op]]] /\ Succeed(c, op)
       ELSE Refuse(c, op) /\ UNCHANGED bound
  /\ UNCHANGED <<world, signer, row, pinned, terms, adopted, pending, faults>>

\* The process ends and starts: calls and the key registry are gone, and the
\* keys are enrolled again from the policies rows.
restart ==
  /\ faults < MaxFaults /\ faults' = faults + 1
  /\ call' = [c \in Calls |-> Idle]
  /\ pinned' = (row # None)
  /\ UNCHANGED <<world, signer, row, session, terms, adopted, pending, bound>>

-----------------------------------------------------------------------------
Step(c) ==
  \/ policy_read(c) \/ policy_install(c)
  \/ \E op \in Ops, req \in Updates : prepare_policy_update(c, op, req)
  \/ request_policy_read(c) \/ update_ceremony(c)
  \/ \E op \in Ops : commit_policy_update(c, op)
  \/ commit_reread(c) \/ commit_install(c)
  \/ \E op \in Ops, t \in Terms : account_prepare(c, op, t)
  \/ account_terms(c) \/ prepare_custody(c)
  \/ \E op \in Ops, scope \in Scopes \cup {None} : derive_prepare(c, op, scope)
  \/ \E op \in Ops : plain_prepare(c, op)
  \/ \E op \in Ops : finalize(c, op)
  \/ adopt_registration(c) \/ adopt_deletion(c) \/ adopt_update(c)
  \/ committed_account_terms(c) \/ adopt_account(c) \/ adopt_petal_key_scope(c)

Next ==
  \/ \E c \in Calls : Step(c)
  \/ \E op \in Ops : signer_completes(op)
  \/ restart

Spec == Init /\ [][Next]_vars

-----------------------------------------------------------------------------
\* Every policy the Signer swapped in was reviewed by the owner as exactly the
\* difference from the policy it replaced, although the Broker derives that
\* difference from its own copy, before it reads the Signer's
\* (service.rs prepare_policy_update, authority.rs validate_policy_update).
SwapWasReviewed ==
  \A op \in Ops : signer.swapped[op] # None =>
    LET v == signer.swapped[op].version IN
    session[op].diff = [from |-> signer.signed[v - 1], to |-> signer.signed[v]]

\* The Broker's policy never goes back: an answer installed late, a commit, a
\* start or a registration adopted again never replaces a version by an older
\* one or by another policy of the same version (persist_verified_policy).
PolicyNeverGoesBack ==
  [][row # None /\ row' # None /\ row' # row => row'.version > row.version]_vars

\* An account ceremony ends well only if its receipt gives what the owner
\* reviewed: one child per requested profile, under the same account number,
\* and the terms of that review are the adopted ones, also when another request
\* under the same operation carries other terms (adopt_account_allocation).
AccountsAsReviewed ==
  \A op \in Ops :
    Kind[op] = "allocate" /\ session[op].state = "succeeded" =>
      LET asked == session[op].req.derivations  given == session[op].receipt IN
      /\ adopted[op] = [terms |-> session[op].req, receipt |-> given]
      /\ \E number \in {committed_path_number(given[i]) : i \in DOMAIN given} \ {None} :
           /\ Cardinality(DOMAIN given) = Cardinality(asked)
           /\ \A d \in asked : \E i \in DOMAIN given :
                given[i].profile = d.profile /\ committed_path_number(given[i]) = number

\* A derivation the owner reviewed under a scope ends well only with its key
\* bound to that scope, whatever other operations derive the same key and
\* however often it is adopted (adopt_petal_key_scope).
ScopedKeyKeepsScope ==
  \A op \in Ops :
    Kind[op] = "derive" /\ session[op].state = "succeeded" /\ session[op].req # None =>
      bound[session[op].receipt] = [op |-> op, scope |-> session[op].req]
=============================================================================
