------------------------- MODULE PolicyCustody_proofs -------------------------
(* For any operations, calls, policies, terms and restarts: the Broker's policy *)
(* never goes back, every swap at the Signer was reviewed as the difference it  *)
(* made, a scoped key keeps its scope and an account is what was reviewed.      *)
EXTENDS PolicyCustody, TLAPS

-----------------------------------------------------------------------------
(* The policies row. *)

LEMMA InstallGoesForward ==
  ASSUME NEW c \in Calls, Install(c), row # None, row' # None, row' # row
  PROVE  row'.version > row.version
BY DEF Install, Installs, install_policy, persist_verified_policy

\* The Broker's policy never goes back: an answer installed late, a commit, a
\* start or a registration adopted again never replaces a version by an older
\* one or by another policy of the same version (persist_verified_policy).
THEOREM PolicyGoesForward == Spec => PolicyNeverGoesBack
<1> DEFINE Forward == row # None /\ row' # None /\ row' # row => row'.version > row.version
<1>1. ASSUME NEW c \in Calls, Step(c)
      PROVE  Forward
  <2>1. CASE policy_install(c) \/ update_ceremony(c) \/ account_terms(c)
    BY <2>1, InstallGoesForward DEF policy_install, update_ceremony, account_terms
  <2>2. CASE commit_install(c)
    BY <2>2, InstallGoesForward DEF commit_install
  <2>3. CASE adopt_registration(c)
    BY <2>3 DEF adopt_registration, persist_verified_policy
  <2>4. CASE adopt_deletion(c)
    BY <2>4 DEF adopt_deletion
  <2>5. ASSUME \/ policy_read(c) \/ request_policy_read(c) \/ commit_reread(c) \/ prepare_custody(c)
               \/ adopt_update(c) \/ committed_account_terms(c) \/ adopt_account(c) \/ adopt_petal_key_scope(c)
               \/ \E op \in Ops, req \in Updates : prepare_policy_update(c, op, req)
               \/ \E op \in Ops : commit_policy_update(c, op) \/ plain_prepare(c, op) \/ finalize(c, op)
               \/ \E op \in Ops, t \in Terms : account_prepare(c, op, t)
               \/ \E op \in Ops, scope \in Scopes \cup {None} : derive_prepare(c, op, scope)
        PROVE  UNCHANGED row
    BY <2>5 DEF policy_read, request_policy_read, commit_reread, prepare_custody, adopt_update,
       committed_account_terms, adopt_account, adopt_petal_key_scope, prepare_policy_update,
       commit_policy_update, plain_prepare, finalize, account_prepare, derive_prepare
  <2> QED
    BY <1>1, <2>1, <2>2, <2>3, <2>4, <2>5 DEF Step
<1>2. (\E op \in Ops : signer_completes(op)) \/ restart => UNCHANGED row
  BY DEF signer_completes, restart
<1>3. Next => Forward
  BY <1>1, <1>2 DEF Next
<1> QED
  BY <1>3, PTL DEF Spec, PolicyNeverGoesBack

-----------------------------------------------------------------------------
(* What the durable rows and the calls agree on. *)

CallFields == {"at", "op", "req", "seen", "diff", "swap"}
SessionFields == {"state", "req", "diff", "receipt"}

\* The tables have their keys, and the Signer has signed every version so far.
Shapes ==
  /\ DOMAIN session = Ops /\ DOMAIN terms = Ops /\ DOMAIN adopted = Ops /\ DOMAIN pending = Ops
  /\ DOMAIN bound = Keys /\ DOMAIN call = Calls
  /\ DOMAIN signer = {"wallet", "version", "signed", "swapped"}
  /\ signer.version \in Nat \ {0}
  /\ DOMAIN signer.signed = 1..signer.version /\ DOMAIN signer.swapped = Ops

Done == {"completed", "succeeded", "failed"}

\* The review of an update shows the difference its request names.
Reviewed(req, diff) == req \in Updates /\ diff = [from |-> req.from, to |-> req.to]

\* What a request froze before its ceremony was prepared.
Frozen(op, req) ==
  /\ Kind[op] \in AccountKinds => terms[op] # None /\ terms[op].terms = req
  /\ Kind[op] = "derive" /\ req # None => pending[op] = req

\* The adopted account is the committed terms' and the session's receipt.
Adopted(op) ==
  /\ session[op].state \in Done /\ terms[op] # None
  /\ adopted[op] = [terms |-> terms[op].terms, receipt |-> session[op].receipt]
  /\ allocation_matches(terms[op].terms, session[op].receipt)

CallInv(c) ==
  LET op == call[c].op  req == call[c].req IN
  /\ call[c].at # "idle" => DOMAIN call[c] = CallFields
  /\ call[c].at \in {"read", "checked"} =>
       /\ op \in Ops /\ Kind[op] \in {"update"} \cup AccountKinds
       /\ Kind[op] = "update" => Reviewed(req, call[c].diff)
       /\ Kind[op] \in AccountKinds => req \in Terms
  /\ call[c].at = "ceremony" => op \in Ops /\ Kind[op] # "update" /\ Frozen(op, req)
  /\ call[c].at \in {"adopt", "adopt_write"} =>
       op \in Ops /\ session[op].state \in Done /\ req = session[op].receipt
  /\ call[c].at = "adopt_write" =>
       /\ Kind[op] \in AccountKinds /\ terms[op] # None
       /\ Kind[op] = "allocate" => allocation_matches(terms[op].terms, req)

SessionInv(op) ==
  LET s == session[op] IN
  s # NoSession =>
    /\ DOMAIN s = SessionFields /\ s.state \in {"prepared"} \cup Done
    /\ Kind[op] = "update" => Reviewed(s.req, s.diff)
    /\ Frozen(op, s.req)
    /\ Kind[op] = "derive" /\ s.state \in Done => s.receipt \in Keys
    /\ Kind[op] = "allocate" /\ s.state = "succeeded" => Adopted(op)
    /\ Kind[op] = "derive" /\ s.state = "succeeded" /\ s.req # None =>
         bound[s.receipt] = [op |-> op, scope |-> s.req]

TermsInv(op) ==
  /\ terms[op] # None => terms[op] \in [terms: Terms, state: {"COMMITTED", "ADOPTED"}]
  /\ Kind[op] = "allocate" /\ terms[op] # None /\ terms[op].state = "ADOPTED" => Adopted(op)
  /\ pending[op] \in Scopes \cup {None}

\* A swap made the difference its session reviewed.
SwapInv(op) ==
  signer.swapped[op] # None =>
    LET v == signer.swapped[op].version IN
    /\ session[op] # NoSession /\ v \in 2..signer.version
    /\ session[op].diff = [from |-> signer.signed[v - 1], to |-> signer.signed[v]]

CustodyInv ==
  /\ Shapes
  /\ \A c \in Calls : CallInv(c)
  /\ \A op \in Ops : SessionInv(op) /\ TermsInv(op) /\ SwapInv(op)

-----------------------------------------------------------------------------
(* Which steps write which table. *)

LEMMA OnSession ==
  ASSUME CustodyInv, [Next]_vars
  PROVE  \/ UNCHANGED session
         \/ \E c \in Calls : update_ceremony(c) \/ prepare_custody(c)
         \/ \E op \in Ops : signer_completes(op)
         \/ \E op \in Ops, state \in {"succeeded", "failed"} : End(op, state)
<1> DEFINE Ends == \E op \in Ops, state \in {"succeeded", "failed"} : End(op, state)
<1>1. ASSUME NEW c \in Calls, At(c, "adopt") \/ At(c, "adopt_write"),
             Succeed(c, call[c].op) \/ Refuse(c, call[c].op)
      PROVE  Ends
  <2>1. call[c].op \in Ops
    BY <1>1 DEF CustodyInv, CallInv, At
  <2> QED
    BY <1>1, <2>1 DEF Succeed, Refuse
<1>2. ASSUME NEW c \in Calls,
             \/ adopt_registration(c) \/ adopt_deletion(c) \/ adopt_update(c)
             \/ committed_account_terms(c) \/ adopt_account(c) \/ adopt_petal_key_scope(c)
      PROVE  Ends \/ UNCHANGED session
  <2>1. CASE adopt_account(c)
    BY <1>1, <2>1 DEF adopt_account
  <2>2. CASE committed_account_terms(c)
    BY <1>1, <2>2 DEF committed_account_terms, Adopting
  <2>3. CASE adopt_petal_key_scope(c)
    BY <1>1, <2>3 DEF adopt_petal_key_scope, Adopting
  <2>4. CASE adopt_registration(c) \/ adopt_deletion(c) \/ adopt_update(c)
    BY <1>1, <2>4 DEF adopt_registration, adopt_deletion, adopt_update, Adopting
  <2> QED
    BY <1>2, <2>1, <2>2, <2>3, <2>4
<1>3. ASSUME NEW c \in Calls,
             \/ policy_read(c) \/ policy_install(c) \/ request_policy_read(c) \/ commit_reread(c)
             \/ commit_install(c) \/ account_terms(c)
             \/ \E op \in Ops, req \in Updates : prepare_policy_update(c, op, req)
             \/ \E op \in Ops : commit_policy_update(c, op) \/ plain_prepare(c, op) \/ finalize(c, op)
             \/ \E op \in Ops, t \in Terms : account_prepare(c, op, t)
             \/ \E op \in Ops, scope \in Scopes \cup {None} : derive_prepare(c, op, scope)
      PROVE  UNCHANGED session
  BY <1>3 DEF policy_read, policy_install, request_policy_read, commit_reread, commit_install, account_terms,
     prepare_policy_update, commit_policy_update, plain_prepare, finalize, account_prepare, derive_prepare
<1>4. restart \/ UNCHANGED vars => UNCHANGED session
  BY DEF restart, vars
<1> QED
  BY <1>2, <1>3, <1>4 DEF Next, Step

LEMMA OnTables ==
  ASSUME [Next]_vars
  PROVE  /\ UNCHANGED terms \/ \E c \in Calls : account_terms(c) \/ adopt_account(c)
         /\ UNCHANGED adopted \/ \E c \in Calls : adopt_account(c)
         /\ \/ UNCHANGED pending
            \/ \E c \in Calls, op \in Ops, scope \in Scopes \cup {None} : derive_prepare(c, op, scope)
         /\ UNCHANGED bound \/ \E c \in Calls : adopt_petal_key_scope(c)
         /\ \/ UNCHANGED signer
            \/ \E c \in Calls, op \in Ops : commit_policy_update(c, op)
            \/ \E op \in Ops : signer_completes(op)
<1> DEFINE Same == UNCHANGED <<signer, terms, adopted, pending, bound>>
<1>1. ASSUME NEW c \in Calls,
             \/ policy_read(c) \/ policy_install(c) \/ request_policy_read(c) \/ commit_reread(c)
             \/ commit_install(c) \/ update_ceremony(c) \/ prepare_custody(c) \/ adopt_registration(c)
             \/ adopt_deletion(c) \/ adopt_update(c) \/ committed_account_terms(c)
             \/ \E op \in Ops, req \in Updates : prepare_policy_update(c, op, req)
             \/ \E op \in Ops : plain_prepare(c, op) \/ finalize(c, op)
             \/ \E op \in Ops, t \in Terms : account_prepare(c, op, t)
      PROVE  Same
  BY <1>1 DEF policy_read, policy_install, request_policy_read, commit_reread, commit_install,
     update_ceremony, prepare_custody, adopt_registration, adopt_deletion, adopt_update,
     committed_account_terms, prepare_policy_update, plain_prepare, finalize, account_prepare
<1>2. restart \/ UNCHANGED vars => Same
  BY DEF restart, vars
<1>3. \A op \in Ops : signer_completes(op) => UNCHANGED <<terms, adopted, pending, bound>>
  BY DEF signer_completes
<1>4. \A c \in Calls, op \in Ops : commit_policy_update(c, op) => UNCHANGED <<terms, adopted, pending, bound>>
  BY DEF commit_policy_update
<1>5. \A c \in Calls : /\ account_terms(c) => UNCHANGED <<signer, adopted, pending, bound>>
                       /\ adopt_account(c) => UNCHANGED <<signer, pending, bound>>
                       /\ adopt_petal_key_scope(c) => UNCHANGED <<signer, terms, adopted, pending>>
  BY DEF account_terms, adopt_account, adopt_petal_key_scope
<1>6. \A c \in Calls, op \in Ops, scope \in Scopes \cup {None} :
        derive_prepare(c, op, scope) => UNCHANGED <<signer, terms, adopted, bound>>
  BY DEF derive_prepare
<1> QED
  BY <1>1, <1>2, <1>3, <1>4, <1>5, <1>6 DEF Next, Step

-----------------------------------------------------------------------------
(* What no step takes back: a session's request and review, the receipt of a   *)
(* completed one, frozen terms and scopes, and a key's scope.                  *)

SessionKept(op) ==
  session[op] # NoSession =>
    /\ session'[op] # NoSession
    /\ session'[op].req = session[op].req /\ session'[op].diff = session[op].diff
    /\ session[op].state \in Done => session'[op].state \in Done /\ session'[op].receipt = session[op].receipt

TermsKept(op) ==
  /\ terms[op] # None => terms'[op] # None /\ terms'[op].terms = terms[op].terms
  /\ pending[op] # None => pending'[op] = pending[op]
  /\ Adopted(op) => Adopted(op)'

Kept ==
  /\ \A op \in Ops : SessionKept(op) /\ TermsKept(op)
  /\ \A k \in Keys : bound[k] # None => bound'[k] = bound[k]

\* A state in Done or "prepared" is not the state of an absent session.
LEMMA SessionPresent ==
  ASSUME NEW s, s.state \in {"prepared"} \cup Done
  PROVE  s # NoSession
BY NoneAssumption DEF NoSession, Done

LEMMA SessionsStep ==
  ASSUME CustodyInv, [Next]_vars
  PROVE  DOMAIN session' = Ops /\ \A op \in Ops : SessionKept(op)
<1>0. DOMAIN session = Ops /\ \A op \in Ops : SessionInv(op)
  BY DEF CustodyInv, Shapes
<1>1. CASE UNCHANGED session
  BY <1>0, <1>1 DEF SessionKept
<1>2. ASSUME NEW o, session[o] = NoSession, NEW r, session' = [session EXCEPT ![o] = r]
      PROVE  DOMAIN session' = Ops /\ \A op \in Ops : SessionKept(op)
  BY <1>0, <1>2 DEF SessionKept
<1>3. ASSUME NEW c \in Calls, update_ceremony(c) \/ prepare_custody(c)
      PROVE  DOMAIN session' = Ops /\ \A op \in Ops : SessionKept(op)
  <2>1. \/ UNCHANGED session
        \/ \E r : session[call[c].op] = NoSession /\ session' = [session EXCEPT ![call[c].op] = r]
    BY <1>3 DEF update_ceremony, prepare_custody
  <2> QED
    BY <1>1, <1>2, <2>1
<1>4. ASSUME NEW o \in Ops, session[o].state \in {"prepared", "completed"}, NEW state \in Done, NEW receipt,
             \/ /\ session' = [session EXCEPT ![o].state = state, ![o].receipt = receipt]
                /\ session[o].state = "prepared"
             \/ session' = [session EXCEPT ![o].state = state]
      PROVE  DOMAIN session' = Ops /\ \A op \in Ops : SessionKept(op)
  <2>1. session[o] # NoSession /\ DOMAIN session[o] = SessionFields
    BY <1>0, <1>4, SessionPresent DEF SessionInv, Done
  <2>2. /\ DOMAIN session' = Ops /\ \A op \in Ops \ {o} : session'[op] = session[op]
        /\ session'[o].state = state /\ session'[o].req = session[o].req
        /\ session'[o].diff = session[o].diff
        /\ session[o].state = "completed" => session'[o].receipt = session[o].receipt
    BY <1>0, <1>4, <2>1 DEF SessionFields
  <2>3. session'[o] # NoSession
    BY <2>2, SessionPresent
  <2> QED
    BY <1>0, <1>4, <2>2, <2>3 DEF SessionKept, Done
<1>5. ASSUME NEW o \in Ops, signer_completes(o)
      PROVE  DOMAIN session' = Ops /\ \A op \in Ops : SessionKept(op)
  <2>1. \E receipt : session[o].state = "prepared" /\ Complete(o, receipt)
    BY <1>5 DEF signer_completes, Prepared
  <2> QED
    BY <1>4, <2>1 DEF Complete, Done
<1>6. ASSUME NEW o \in Ops, NEW state \in {"succeeded", "failed"}, End(o, state)
      PROVE  DOMAIN session' = Ops /\ \A op \in Ops : SessionKept(op)
  BY <1>1, <1>4, <1>6 DEF End, Done
<1> QED
  BY <1>1, <1>3, <1>5, <1>6, OnSession

LEMMA TermsStep ==
  ASSUME CustodyInv, [Next]_vars, NEW op \in Ops
  PROVE  /\ DOMAIN terms' = Ops /\ DOMAIN adopted' = Ops /\ DOMAIN pending' = Ops
         /\ TermsKept(op)
         /\ terms'[op] # None => terms'[op] \in [terms: Terms, state: {"COMMITTED", "ADOPTED"}]
         /\ pending'[op] \in Scopes \cup {None}
<1>0. /\ DOMAIN terms = Ops /\ DOMAIN adopted = Ops /\ DOMAIN pending = Ops
      /\ \A o \in Ops : TermsInv(o) /\ SessionInv(o)
  BY DEF CustodyInv, Shapes
<1>1. /\ DOMAIN pending' = Ops /\ (pending[op] # None => pending'[op] = pending[op])
      /\ pending'[op] \in Scopes \cup {None}
  <2>1. CASE UNCHANGED pending
    BY <1>0, <2>1 DEF TermsInv
  <2>2. ASSUME NEW c \in Calls, NEW o \in Ops, NEW scope \in Scopes \cup {None}, derive_prepare(c, o, scope)
        PROVE  /\ DOMAIN pending' = Ops /\ (pending[op] # None => pending'[op] = pending[op])
               /\ pending'[op] \in Scopes \cup {None}
    BY <1>0, <2>2 DEF derive_prepare, TermsInv
  <2> QED
    BY <2>1, <2>2, OnTables
<1>2. /\ DOMAIN terms' = Ops
      /\ terms[op] # None => terms'[op] # None /\ terms'[op].terms = terms[op].terms
      /\ terms'[op] # None => terms'[op] \in [terms: Terms, state: {"COMMITTED", "ADOPTED"}]
  <2> DEFINE Goal == /\ DOMAIN terms' = Ops
                     /\ terms[op] # None => terms'[op] # None /\ terms'[op].terms = terms[op].terms
                     /\ terms'[op] # None => terms'[op] \in [terms: Terms, state: {"COMMITTED", "ADOPTED"}]
  <2>1. ASSUME UNCHANGED terms PROVE Goal
    BY <1>0, <2>1 DEF TermsInv
  <2>2. ASSUME NEW c \in Calls, account_terms(c) PROVE Goal
    <3>1. call[c].op \in Ops /\ call[c].req \in Terms
      BY <2>2 DEF account_terms, At, CustodyInv, CallInv
    <3>2. \/ UNCHANGED terms
          \/ terms' = record_account_terms(call[c].op, call[c].req)
      BY <2>2 DEF account_terms
    <3> QED
      BY <1>0, <2>1, <3>1, <3>2 DEF record_account_terms, TermsInv
  <2>3. ASSUME NEW c \in Calls, adopt_account(c) PROVE Goal
    <3>1. call[c].op \in Ops /\ terms[call[c].op] # None
      BY <2>3 DEF adopt_account, At, CustodyInv, CallInv
    <3>2. terms[call[c].op] \in [terms: Terms, state: {"COMMITTED", "ADOPTED"}]
      BY <1>0, <3>1 DEF TermsInv
    <3>3. CASE terms' = [terms EXCEPT ![call[c].op].state = "ADOPTED"]
      <4>1. terms'[call[c].op] = [terms |-> terms[call[c].op].terms, state |-> "ADOPTED"]
        BY <1>0, <3>1, <3>2, <3>3
      <4>2. terms'[call[c].op] # None
        BY <3>2, <4>1, NoneAssumption
      <4> QED
        BY <1>0, <3>1, <3>2, <3>3, <4>1, <4>2 DEF TermsInv
    <3> QED
      BY <2>1, <2>3, <3>3 DEF adopt_account
  <2> QED
    BY <2>1, <2>2, <2>3, OnTables
<1>3. DOMAIN adopted' = Ops /\ (Adopted(op) => Adopted(op)')
  <2>1. ASSUME Adopted(op)
        PROVE  /\ session'[op].state \in Done /\ session'[op].receipt = session[op].receipt
               /\ terms'[op] # None /\ terms'[op].terms = terms[op].terms
    BY <1>2, <2>1, SessionsStep, SessionPresent DEF Adopted, SessionKept
  <2>2. DOMAIN adopted' = Ops /\ (Adopted(op) => adopted'[op] = adopted[op])
    <3>1. CASE UNCHANGED adopted
      BY <1>0, <3>1
    <3>2. ASSUME NEW c \in Calls, adopt_account(c)
          PROVE  DOMAIN adopted' = Ops /\ (Adopted(op) => adopted'[op] = adopted[op])
      <4>1. call[c].op \in Ops /\ call[c].req = session[call[c].op].receipt
        BY <3>2 DEF adopt_account, At, CustodyInv, CallInv
      <4>2. \/ UNCHANGED adopted
            \/ adopted' = [adopted EXCEPT ![call[c].op] =
                             [terms |-> terms[call[c].op].terms, receipt |-> call[c].req]]
        BY <3>2 DEF adopt_account
      <4> QED
        BY <1>0, <4>1, <4>2 DEF Adopted
    <3> QED
      BY <3>1, <3>2, OnTables
  <2>3. ASSUME Adopted(op)
        PROVE  Adopted(op)'
    BY <2>1, <2>2, <2>3 DEF Adopted
  <2> QED
    BY <2>2, <2>3
<1> QED
  BY <1>1, <1>2, <1>3 DEF TermsKept

LEMMA BoundStep ==
  ASSUME CustodyInv, [Next]_vars
  PROVE  DOMAIN bound' = Keys /\ \A k \in Keys : bound[k] # None => bound'[k] = bound[k]
<1>0. DOMAIN bound = Keys
  BY DEF CustodyInv, Shapes
<1>1. CASE UNCHANGED bound
  BY <1>0, <1>1
<1>2. ASSUME NEW c \in Calls, adopt_petal_key_scope(c)
      PROVE  DOMAIN bound' = Keys /\ \A k \in Keys : bound[k] # None => bound'[k] = bound[k]
  BY <1>0, <1>1, <1>2 DEF adopt_petal_key_scope, scope_binds
<1> QED
  BY <1>1, <1>2, OnTables

LEMMA StepKeeps ==
  ASSUME CustodyInv, [Next]_vars
  PROVE  Kept
BY SessionsStep, TermsStep, BoundStep DEF Kept

\* A call that does not move keeps what it relies on.
LEMMA OtherCall ==
  ASSUME CustodyInv, Kept, NEW d \in Calls, call'[d] = call[d]
  PROVE  CallInv(d)'
<1> DEFINE op == call[d].op  req == call[d].req
<1>1. CallInv(d)
  BY DEF CustodyInv
<1>2. ASSUME op \in Ops, Frozen(op, req)
      PROVE  Frozen(op, req)'
  BY <1>2 DEF Frozen, Kept, TermsKept
<1>3. ASSUME op \in Ops, session[op].state \in Done
      PROVE  session'[op].state \in Done /\ session'[op].receipt = session[op].receipt
  BY <1>3, SessionPresent DEF Kept, SessionKept
<1>4. ASSUME op \in Ops, terms[op] # None
      PROVE  terms'[op] # None /\ terms'[op].terms = terms[op].terms
  BY <1>4 DEF Kept, TermsKept
<1>5. call'[d].at = "ceremony" => op \in Ops /\ Kind[op] # "update" /\ Frozen(op, req)'
  BY <1>1, <1>2 DEF CallInv
<1>6. call'[d].at \in {"adopt", "adopt_write"} =>
        op \in Ops /\ session'[op].state \in Done /\ req = session'[op].receipt
  BY <1>1, <1>3 DEF CallInv
<1>7. call'[d].at = "adopt_write" =>
        /\ Kind[op] \in AccountKinds /\ terms'[op] # None
        /\ Kind[op] = "allocate" => allocation_matches(terms'[op].terms, req)
  BY <1>1, <1>4 DEF CallInv
<1> QED
  BY <1>1, <1>5, <1>6, <1>7 DEF CallInv, Frozen

\* A scope that was frozen is a scope.
LEMMA FrozenScope ==
  ASSUME CustodyInv, NEW op \in Ops, Kind[op] = "derive", session[op] # NoSession, session[op].req # None
  PROVE  pending[op] = session[op].req /\ session[op].req \in Scopes
BY DEF CustodyInv, SessionInv, TermsInv, Frozen

\* A session that is not written, and one whose state is.
LEMMA SameSession ==
  ASSUME CustodyInv, Kept, NEW op \in Ops, session'[op] = session[op]
  PROVE  SessionInv(op)'
<1> SUFFICES ASSUME session[op] # NoSession PROVE SessionInv(op)'
  BY DEF SessionInv
<1>1. SessionInv(op)
  BY DEF CustodyInv
<1>2. Frozen(op, session[op].req)'
  BY <1>1 DEF SessionInv, Frozen, Kept, TermsKept
<1>3. Kind[op] = "allocate" /\ session[op].state = "succeeded" => Adopted(op)'
  BY <1>1 DEF SessionInv, Kept, TermsKept
<1>4. Kind[op] = "derive" /\ session[op].state = "succeeded" /\ session[op].req # None =>
        bound'[session[op].receipt] = [op |-> op, scope |-> session[op].req]
  <2> SUFFICES ASSUME Kind[op] = "derive", session[op].state = "succeeded", session[op].req # None
               PROVE  bound'[session[op].receipt] = [op |-> op, scope |-> session[op].req]
    OBVIOUS
  <2>1. /\ session[op].receipt \in Keys
        /\ bound[session[op].receipt] = [op |-> op, scope |-> session[op].req]
    BY <1>1 DEF SessionInv, Done
  <2>2. bound[session[op].receipt] # None
    BY <2>1, FrozenScope, NoneAssumption
  <2> QED
    BY <2>1, <2>2 DEF Kept
<1> QED
  BY <1>1, <1>2, <1>3, <1>4 DEF SessionInv, Frozen

LEMMA EndedSession ==
  ASSUME CustodyInv, Kept, NEW o \in Ops, NEW state \in {"succeeded", "failed"}, End(o, state),
         state = "succeeded" /\ session[o].state = "completed" =>
           /\ Kind[o] = "allocate" => Adopted(o)'
           /\ Kind[o] = "derive" /\ session[o].req # None =>
                bound'[session[o].receipt] = [op |-> o, scope |-> session[o].req]
  PROVE  \A op \in Ops : SessionInv(op)'
<1> TAKE op \in Ops
<1>0. DOMAIN session = Ops /\ SessionInv(o)
  BY DEF CustodyInv, Shapes
<1>1. CASE session'[op] = session[op]
  BY <1>1, SameSession
<1>2. CASE session'[op] # session[op]
  <2>1. op = o /\ session[o].state = "completed" /\ session' = [session EXCEPT ![o].state = state]
    BY <1>0, <1>2 DEF End
  <2>2. session[o] # NoSession /\ DOMAIN session[o] = SessionFields
    BY <1>0, <2>1, SessionPresent DEF SessionInv, Done
  <2>3. /\ DOMAIN session'[o] = SessionFields /\ session'[o].state = state
        /\ session'[o].req = session[o].req /\ session'[o].diff = session[o].diff
        /\ session'[o].receipt = session[o].receipt
    BY <1>0, <2>1, <2>2 DEF SessionFields
  <2>4. Frozen(o, session[o].req)'
    BY <1>0, <2>2, <2>3 DEF SessionInv, Frozen, Kept, TermsKept
  <2> QED
    BY <1>0, <2>1, <2>2, <2>3, <2>4 DEF SessionInv, Frozen, Done
<1> QED
  BY <1>1, <1>2

\* Sessions: prepared once, completed with a receipt, ended by a finalizer.
LEMMA SessionInvStep ==
  ASSUME CustodyInv, Kept, [Next]_vars
  PROVE  \A op \in Ops : SessionInv(op)'
<1>0. DOMAIN session = Ops /\ \A op \in Ops : SessionInv(op) /\ TermsInv(op)
  BY DEF CustodyInv, Shapes
<1>1. ASSUME UNCHANGED session
      PROVE  \A op \in Ops : SessionInv(op)'
  BY <1>1, SameSession
<1>2. ASSUME NEW o \in Ops, session[o] = NoSession, NEW req, NEW diff,
             session' = [session EXCEPT ![o] = [state |-> "prepared", req |-> req, diff |-> diff, receipt |-> None]],
             Kind[o] = "update" => Reviewed(req, diff), Frozen(o, req)'
      PROVE  \A op \in Ops : SessionInv(op)'
  <2> TAKE op \in Ops
  <2>1. CASE op # o
    BY <1>0, <1>2, <2>1, SameSession
  <2>2. CASE op = o
    <3>1. session'[o] = [state |-> "prepared", req |-> req, diff |-> diff, receipt |-> None]
      BY <1>0, <1>2
    <3> QED
      BY <1>2, <2>2, <3>1 DEF SessionInv, SessionFields, Done, Frozen
  <2> QED
    BY <2>1, <2>2
<1>3. ASSUME NEW c \in Calls, update_ceremony(c)
      PROVE  \A op \in Ops : SessionInv(op)'
  <2>0. PICK o \in Ops : o = call[c].op
    BY <1>3 DEF update_ceremony, At, CustodyInv, CallInv
  <2>1. PICK req, diff : req = call[c].req /\ diff = call[c].diff
    OBVIOUS
  <2>2. Kind[o] = "update" /\ Reviewed(req, diff)
    BY <1>3, <2>0, <2>1 DEF update_ceremony, At, CustodyInv, CallInv
  <2>3. \/ UNCHANGED session
        \/ /\ session[o] = NoSession
           /\ session' = [session EXCEPT ![o] = [state |-> "prepared", req |-> req,
                                                 diff |-> diff, receipt |-> None]]
    BY <1>3, <2>0, <2>1 DEF update_ceremony
  <2>4. Frozen(o, req)'
    BY <2>2 DEF Frozen, AccountKinds
  <2> QED
    BY <1>1, <1>2, <2>2, <2>3, <2>4
<1>4. ASSUME NEW c \in Calls, prepare_custody(c)
      PROVE  \A op \in Ops : SessionInv(op)'
  <2>0. PICK o \in Ops : o = call[c].op
    BY <1>4 DEF prepare_custody, At, CustodyInv, CallInv
  <2>1. PICK req : req = call[c].req
    OBVIOUS
  <2>2. Kind[o] # "update" /\ Frozen(o, req)
    BY <1>4, <2>0, <2>1 DEF prepare_custody, At, CustodyInv, CallInv
  <2>3. \/ UNCHANGED session
        \/ /\ session[o] = NoSession
           /\ session' = [session EXCEPT ![o] = [state |-> "prepared", req |-> req,
                                                 diff |-> None, receipt |-> None]]
    BY <1>4, <2>0, <2>1 DEF prepare_custody
  <2>4. Frozen(o, req)'
    BY <2>2 DEF Frozen, Kept, TermsKept
  <2> QED
    BY <1>1, <1>2, <2>2, <2>3, <2>4
<1>5. ASSUME NEW o \in Ops, signer_completes(o)
      PROVE  \A op \in Ops : SessionInv(op)'
  <2> TAKE op \in Ops
  <2>1. PICK receipt : /\ session[o].state = "prepared" /\ Complete(o, receipt)
                       /\ Kind[o] = "derive" => receipt \in Keys
    BY <1>5 DEF signer_completes, Prepared
  <2>2. CASE op # o
    BY <1>0, <2>1, <2>2, SameSession DEF Complete
  <2>3. CASE op = o
    <3>1. session[o] # NoSession /\ DOMAIN session[o] = SessionFields
      BY <1>0, <2>1, SessionPresent DEF SessionInv
    <3>2. /\ DOMAIN session'[o] = SessionFields /\ session'[o].state = "completed"
          /\ session'[o].req = session[o].req /\ session'[o].diff = session[o].diff
          /\ session'[o].receipt = receipt
      BY <1>0, <2>1, <3>1 DEF Complete, SessionFields
    <3>3. Frozen(o, session[o].req)'
      BY <1>0, <3>1, <3>2 DEF SessionInv, Frozen, Kept, TermsKept
    <3> QED
      BY <1>0, <2>1, <2>3, <3>1, <3>2, <3>3 DEF SessionInv, Frozen, Done
  <2> QED
    BY <2>2, <2>3
<1>6. ASSUME NEW c \in Calls, At(c, "adopt") \/ At(c, "adopt_write"),
             Kind[call[c].op] \notin {"allocate", "derive"},
             Succeed(c, call[c].op)
      PROVE  \A op \in Ops : SessionInv(op)'
  <2>1. PICK o \in Ops : o = call[c].op
    BY <1>6 DEF At, CustodyInv, CallInv
  <2> QED
    BY <1>6, <2>1, EndedSession DEF Succeed
<1>7. ASSUME NEW c \in Calls, At(c, "adopt") \/ At(c, "adopt_write"), Refuse(c, call[c].op)
      PROVE  \A op \in Ops : SessionInv(op)'
  <2>1. PICK o \in Ops : o = call[c].op
    BY <1>7 DEF At, CustodyInv, CallInv
  <2> QED
    BY <1>7, <2>1, EndedSession DEF Refuse
<1>8. ASSUME NEW c \in Calls, adopt_registration(c) \/ adopt_deletion(c) \/ adopt_update(c)
      PROVE  \A op \in Ops : SessionInv(op)'
  BY <1>6, <1>7, <1>8 DEF adopt_registration, adopt_deletion, adopt_update, Adopting
<1>9. ASSUME NEW c \in Calls, committed_account_terms(c)
      PROVE  \A op \in Ops : SessionInv(op)'
  <2>1. PICK o \in Ops : o = call[c].op
    BY <1>9 DEF committed_account_terms, Adopting, At, CustodyInv, CallInv
  <2>2. CASE Succeed(c, o) /\ terms[o] # None /\ terms[o].state = "ADOPTED"
    <3>1. Kind[o] = "allocate" => Adopted(o)'
      BY <1>0, <2>2 DEF TermsInv, Kept, TermsKept
    <3>2. Kind[o] # "derive"
      BY <1>9, <2>1 DEF committed_account_terms, Adopting, AccountKinds
    <3> QED
      BY <2>2, <3>1, <3>2, EndedSession DEF Succeed
  <2> QED
    BY <1>1, <1>7, <1>9, <2>1, <2>2 DEF committed_account_terms, Adopting
<1>10. ASSUME NEW c \in Calls, adopt_account(c)
       PROVE  \A op \in Ops : SessionInv(op)'
  <2>1. PICK o \in Ops : o = call[c].op
    BY <1>10 DEF adopt_account, At, CustodyInv, CallInv
  <2>2. /\ session[o].state \in Done /\ call[c].req = session[o].receipt /\ Kind[o] \in AccountKinds
        /\ terms[o] # None /\ (Kind[o] = "allocate" => allocation_matches(terms[o].terms, call[c].req))
    BY <1>10, <2>1 DEF adopt_account, At, CustodyInv, CallInv
  <2>3. CASE /\ adopted' = [adopted EXCEPT ![o] = [terms |-> terms[o].terms, receipt |-> call[c].req]]
             /\ Succeed(c, o)
    <3>1. /\ session'[o].state \in Done /\ session'[o].receipt = session[o].receipt
          /\ terms'[o] # None /\ terms'[o].terms = terms[o].terms
      BY <2>2, SessionPresent DEF Kept, SessionKept, TermsKept
    <3>2. adopted'[o] = [terms |-> terms[o].terms, receipt |-> call[c].req]
      BY <2>3 DEF CustodyInv, Shapes
    <3>3. Kind[o] = "allocate" => Adopted(o)'
      BY <2>2, <3>1, <3>2 DEF Adopted
    <3> QED
      BY <2>2, <2>3, <3>3, EndedSession DEF Succeed, AccountKinds
  <2> QED
    BY <1>1, <1>10, <2>1, <2>3 DEF adopt_account
<1>11. ASSUME NEW c \in Calls, adopt_petal_key_scope(c)
       PROVE  \A op \in Ops : SessionInv(op)'
  <2>1. PICK o \in Ops : o = call[c].op
    BY <1>11 DEF adopt_petal_key_scope, Adopting, At, CustodyInv, CallInv
  <2>2. session[o].state \in Done /\ call[c].req = session[o].receipt /\ Kind[o] = "derive"
    BY <1>11, <2>1 DEF adopt_petal_key_scope, Adopting, At, CustodyInv, CallInv
  <2>3. session[o].receipt \in Keys
    BY <1>0, <2>2, SessionPresent DEF SessionInv
  <2>4. CASE pending[o] = None /\ Succeed(c, o)
    <3>1. session[o].req = None
      BY <2>2, <2>4, FrozenScope, SessionPresent
    <3> QED
      BY <2>2, <2>4, <3>1, EndedSession DEF Succeed
  <2>5. CASE bound' = [bound EXCEPT ![call[c].req] = [op |-> o, scope |-> pending[o]]] /\ Succeed(c, o)
    <3>1. bound'[session[o].receipt] = [op |-> o, scope |-> pending[o]]
      BY <2>2, <2>3, <2>5 DEF CustodyInv, Shapes
    <3>2. session[o].req # None => pending[o] = session[o].req
      BY <2>2, FrozenScope, SessionPresent
    <3> QED
      BY <2>2, <2>5, <3>1, <3>2, EndedSession DEF Succeed
  <2> QED
    BY <1>7, <1>11, <2>1, <2>4, <2>5 DEF adopt_petal_key_scope, Adopting
<1>12. ASSUME NEW c \in Calls,
             \/ policy_read(c) \/ policy_install(c) \/ request_policy_read(c) \/ commit_reread(c)
             \/ commit_install(c) \/ account_terms(c)
             \/ \E op \in Ops, req \in Updates : prepare_policy_update(c, op, req)
             \/ \E op \in Ops : commit_policy_update(c, op) \/ plain_prepare(c, op) \/ finalize(c, op)
             \/ \E op \in Ops, t \in Terms : account_prepare(c, op, t)
             \/ \E op \in Ops, scope \in Scopes \cup {None} : derive_prepare(c, op, scope)
      PROVE  UNCHANGED session
  BY <1>12 DEF policy_read, policy_install, request_policy_read, commit_reread, commit_install, account_terms,
     prepare_policy_update, commit_policy_update, plain_prepare, finalize, account_prepare, derive_prepare
<1>13. restart \/ UNCHANGED vars => UNCHANGED session
  BY DEF restart, vars
<1> QED
  BY <1>1, <1>3, <1>4, <1>5, <1>8, <1>9, <1>10, <1>11, <1>12, <1>13 DEF Next, Step

LEMMA TermsInvStep ==
  ASSUME CustodyInv, Kept, [Next]_vars, NEW op \in Ops
  PROVE  TermsInv(op)'
<1>1. /\ DOMAIN terms = Ops /\ TermsInv(op)
      /\ terms'[op] # None => terms'[op] \in [terms: Terms, state: {"COMMITTED", "ADOPTED"}]
      /\ pending'[op] \in Scopes \cup {None}
  BY TermsStep DEF CustodyInv, Shapes
<1>2. Kind[op] = "allocate" /\ terms'[op] # None /\ terms'[op].state = "ADOPTED" => Adopted(op)'
  <2> SUFFICES ASSUME Kind[op] = "allocate", terms'[op] # None, terms'[op].state = "ADOPTED"
               PROVE  Adopted(op)'
    OBVIOUS
  <2>1. CASE terms'[op] = terms[op]
    BY <1>1, <2>1 DEF TermsInv, Kept, TermsKept
  <2>2. ASSUME NEW c \in Calls, account_terms(c), terms'[op] # terms[op]
        PROVE  FALSE
    BY <1>1, <2>2 DEF account_terms, record_account_terms
  <2>3. ASSUME NEW c \in Calls, adopt_account(c), terms'[op] # terms[op]
        PROVE  Adopted(op)'
    <3>1. /\ op = call[c].op
          /\ adopted' = [adopted EXCEPT ![op] = [terms |-> terms[op].terms, receipt |-> call[c].req]]
      BY <1>1, <2>3 DEF adopt_account
    <3>2. /\ session[op].state \in Done /\ call[c].req = session[op].receipt
          /\ terms[op] # None /\ allocation_matches(terms[op].terms, call[c].req)
      BY <2>3, <3>1 DEF adopt_account, At, CustodyInv, CallInv
    <3>3. /\ session'[op].state \in Done /\ session'[op].receipt = session[op].receipt
          /\ terms'[op] # None /\ terms'[op].terms = terms[op].terms
      BY <3>2, SessionPresent DEF Kept, SessionKept, TermsKept
    <3>4. adopted'[op] = [terms |-> terms[op].terms, receipt |-> call[c].req]
      BY <3>1 DEF CustodyInv, Shapes
    <3> QED
      BY <3>2, <3>3, <3>4 DEF Adopted
  <2> QED
    BY <2>1, <2>2, <2>3, OnTables
<1> QED
  BY <1>1, <1>2 DEF TermsInv

\* The Signer signs each version once, and a swap is of the version it signed.
LEMMA SignerInvStep ==
  ASSUME CustodyInv, Kept, [Next]_vars
  PROVE  /\ DOMAIN signer' = {"wallet", "version", "signed", "swapped"}
         /\ signer'.version \in Nat \ {0}
         /\ DOMAIN signer'.signed = 1..signer'.version /\ DOMAIN signer'.swapped = Ops
         /\ \A op \in Ops : SwapInv(op)'
<1> DEFINE Signed == /\ DOMAIN signer' = {"wallet", "version", "signed", "swapped"}
                     /\ signer'.version \in Nat \ {0}
                     /\ DOMAIN signer'.signed = 1..signer'.version /\ DOMAIN signer'.swapped = Ops
                     /\ \A op \in Ops : SwapInv(op)'
<1>0. /\ DOMAIN signer = {"wallet", "version", "signed", "swapped"}
      /\ signer.version \in Nat \ {0}
      /\ DOMAIN signer.signed = 1..signer.version /\ DOMAIN signer.swapped = Ops
      /\ \A op \in Ops : SwapInv(op) /\ SessionKept(op) /\ SessionInv(op)
  BY DEF CustodyInv, Shapes, Kept
<1>1. ASSUME DOMAIN signer' = DOMAIN signer, signer'.version = signer.version,
             signer'.signed = signer.signed, signer'.swapped = signer.swapped
      PROVE  Signed
  BY <1>0, <1>1 DEF SwapInv, SessionKept
<1>2. ASSUME NEW o \in Ops, signer_completes(o)
      PROVE  Signed
  BY <1>0, <1>1, <1>2 DEF signer_completes
<1>3. ASSUME NEW c \in Calls, NEW o \in Ops, commit_policy_update(c, o), signer' # signer
      PROVE  Signed
  <2>1. PICK req : req = session[o].req
    OBVIOUS
  <2> DEFINE next == [version |-> req.base + 1, policy |-> req.to]
  <2>2. /\ Kind[o] = "update" /\ session[o].state = "succeeded"
        /\ Current = [version |-> req.base, policy |-> req.from]
        /\ signer' = [signer EXCEPT !.version = req.base + 1,
                                    !.signed = [v \in DOMAIN @ \cup {req.base + 1} |->
                                                  IF v = req.base + 1 THEN req.to ELSE @[v]],
                                    !.swapped[o] = next]
    BY <1>3, <2>1 DEF commit_policy_update
  <2>3. signer.version = req.base /\ signer.signed[req.base] = req.from
    BY <2>2 DEF Current
  <2>4. /\ DOMAIN signer' = {"wallet", "version", "signed", "swapped"}
        /\ signer'.version = signer.version + 1
        /\ signer'.signed = [v \in 1..(signer.version + 1) |->
                               IF v = signer.version + 1 THEN req.to ELSE signer.signed[v]]
        /\ signer'.swapped = [signer.swapped EXCEPT ![o] = next]
    <3>1. (1..signer.version) \cup {signer.version + 1} = 1..(signer.version + 1)
      BY <1>0
    <3> QED
      BY <1>0, <2>2, <2>3, <3>1
  <2>5. session[o] # NoSession /\ session[o].diff = [from |-> req.from, to |-> req.to]
    BY <1>0, <2>1, <2>2, SessionPresent DEF SessionInv, Reviewed, Done
  <2>6. \A v \in 1..signer.version : signer'.signed[v] = signer.signed[v]
    BY <1>0, <2>4
  <2>7. ASSUME NEW op \in Ops, op # o
        PROVE  SwapInv(op)'
    <3> SUFFICES ASSUME signer.swapped[op] # None PROVE SwapInv(op)'
      BY <1>0, <2>4, <2>7 DEF SwapInv
    <3>1. signer'.swapped[op] = signer.swapped[op]
      BY <1>0, <2>4, <2>7
    <3>2. PICK v : v = signer.swapped[op].version
      OBVIOUS
    <3>3. /\ session[op] # NoSession /\ v \in 2..signer.version
          /\ session[op].diff = [from |-> signer.signed[v - 1], to |-> signer.signed[v]]
      BY <1>0, <3>2 DEF SwapInv
    <3>4. v \in 2..signer'.version /\ signer'.signed[v - 1] = signer.signed[v - 1] /\ signer'.signed[v] = signer.signed[v]
      BY <1>0, <2>4, <2>6, <3>3
    <3>5. session'[op] # NoSession /\ session'[op].diff = session[op].diff
      BY <1>0, <3>3 DEF SessionKept
    <3> QED
      BY <3>1, <3>2, <3>3, <3>4, <3>5 DEF SwapInv
  <2>8. SwapInv(o)'
    <3>1. signer'.swapped[o].version = signer.version + 1
      BY <1>0, <2>3, <2>4
    <3>2. signer'.signed[signer.version + 1] = req.to /\ signer'.signed[signer.version] = req.from
      BY <1>0, <2>3, <2>4, <2>6
    <3>3. session'[o] # NoSession /\ session'[o].diff = [from |-> req.from, to |-> req.to]
      BY <1>0, <2>5 DEF SessionKept
    <3>4. signer.version + 1 \in 2..signer'.version /\ (signer.version + 1) - 1 = signer.version
      BY <1>0, <2>4
    <3> QED
      BY <3>1, <3>2, <3>3, <3>4 DEF SwapInv
  <2>9. DOMAIN signer'.signed = 1..signer'.version /\ DOMAIN signer'.swapped = Ops /\ signer'.version \in Nat \ {0}
    BY <1>0, <2>4
  <2> QED
    BY <2>4, <2>7, <2>8, <2>9
<1> QED
  BY <1>1, <1>2, <1>3, OnTables

\* The call that moves, by where it goes.
LEMMA CallMoves ==
  ASSUME CustodyInv, Kept, NEW c \in Calls, NEW r, Goto(c, r), call'[c] = r => CallInv(c)'
  PROVE  DOMAIN call' = Calls /\ \A d \in Calls : CallInv(d)'
<1>1. call' = [call EXCEPT ![c] = r] /\ DOMAIN call = Calls
  BY DEF Goto, CustodyInv, Shapes
<1>2. call'[c] = r /\ \A d \in Calls \ {c} : call'[d] = call[d]
  BY <1>1
<1> QED
  BY <1>1, <1>2, OtherCall

LEMMA CallReturns ==
  ASSUME CustodyInv, Kept, NEW c \in Calls, Return(c)
  PROVE  DOMAIN call' = Calls /\ \A d \in Calls : CallInv(d)'
<1>1. call'[c] = Idle => CallInv(c)'
  BY DEF CallInv, Idle
<1> QED
  BY <1>1, CallMoves DEF Return

LEMMA CallInvStep ==
  ASSUME CustodyInv, Kept, [Next]_vars
  PROVE  DOMAIN call' = Calls /\ \A d \in Calls : CallInv(d)'
<1> DEFINE Good == DOMAIN call' = Calls /\ \A d \in Calls : CallInv(d)'
<1>0. DOMAIN call = Calls /\ \A c \in Calls : CallInv(c)
  BY DEF CustodyInv, Shapes
<1>1. ASSUME UNCHANGED call PROVE Good
  BY <1>0, <1>1, OtherCall
<1>2. ASSUME NEW c \in Calls,
             \/ policy_install(c) \/ update_ceremony(c) \/ commit_install(c) \/ prepare_custody(c)
             \/ adopt_registration(c) \/ adopt_deletion(c) \/ adopt_update(c) \/ adopt_account(c)
             \/ adopt_petal_key_scope(c)
      PROVE  Good
  <2>1. Return(c)
    BY <1>2 DEF policy_install, update_ceremony, commit_install, prepare_custody, adopt_registration,
       adopt_deletion, adopt_update, adopt_account, adopt_petal_key_scope, Succeed, Refuse
  <2> QED
    BY <2>1, CallReturns
<1>3. ASSUME NEW c \in Calls, policy_read(c) PROVE Good
  <2>1. PICK r : r = [Request(None, None) EXCEPT !.at = "install", !.seen = Current]
    OBVIOUS
  <2>2. r.at = "install" /\ DOMAIN r = CallFields
    BY <2>1 DEF Request, CallFields
  <2>3. call'[c] = r => CallInv(c)'
    BY <2>2 DEF CallInv
  <2> QED
    BY <1>3, <2>1, <2>3, CallMoves DEF policy_read
<1>4. ASSUME NEW c \in Calls, NEW op \in Ops, NEW req \in Updates, prepare_policy_update(c, op, req) PROVE Good
  <2>1. PICK r : r = [Request(op, req) EXCEPT !.diff = [from |-> row.policy, to |-> req.to]]
    OBVIOUS
  <2>2. /\ r.at = "read" /\ DOMAIN r = CallFields /\ r.op = op /\ r.req = req
        /\ r.diff = [from |-> row.policy, to |-> req.to] /\ row.policy = req.from /\ Kind[op] = "update"
    BY <1>4, <2>1 DEF Request, CallFields, prepare_policy_update, validate_policy_update
  <2>3. call'[c] = r => CallInv(c)'
    BY <2>2 DEF CallInv, Reviewed, AccountKinds
  <2> QED
    BY <1>4, <2>1, <2>3, CallMoves DEF prepare_policy_update
<1>5. ASSUME NEW c \in Calls, request_policy_read(c) PROVE Good
  <2>1. PICK r : r = [call[c] EXCEPT !.at = "checked", !.seen = Current]
    OBVIOUS
  <2>2. call[c].at = "read" /\ DOMAIN call[c] = CallFields
    BY <1>0, <1>5 DEF request_policy_read, At, CallInv
  <2>3. /\ r.at = "checked" /\ DOMAIN r = CallFields /\ r.op = call[c].op /\ r.req = call[c].req
        /\ r.diff = call[c].diff
    BY <2>1, <2>2 DEF CallFields
  <2>4. call'[c] = r => CallInv(c)'
    BY <1>0, <2>2, <2>3 DEF CallInv
  <2> QED
    BY <1>5, <2>1, <2>4, CallMoves, CallReturns DEF request_policy_read, signer_policy_read
<1>6. ASSUME NEW c \in Calls, NEW op \in Ops, commit_policy_update(c, op) PROVE Good
  <2>1. \/ UNCHANGED call
        \/ \E next : Goto(c, [Request(op, session[op].req) EXCEPT !.at = "reread", !.swap = next])
    BY <1>6 DEF commit_policy_update
  <2>2. ASSUME NEW next, Goto(c, [Request(op, session[op].req) EXCEPT !.at = "reread", !.swap = next]) PROVE Good
    <3>1. PICK r : r = [Request(op, session[op].req) EXCEPT !.at = "reread", !.swap = next]
      OBVIOUS
    <3>2. r.at = "reread" /\ DOMAIN r = CallFields
      BY <3>1 DEF Request, CallFields
    <3>3. call'[c] = r => CallInv(c)'
      BY <3>2 DEF CallInv
    <3> QED
      BY <2>2, <3>1, <3>3, CallMoves
  <2> QED
    BY <1>1, <2>1, <2>2
<1>7. ASSUME NEW c \in Calls, commit_reread(c) PROVE Good
  <2>1. PICK r : r = [call[c] EXCEPT !.at = "verify", !.seen = Current]
    OBVIOUS
  <2>2. DOMAIN call[c] = CallFields
    BY <1>0, <1>7 DEF commit_reread, At, CallInv
  <2>3. r.at = "verify" /\ DOMAIN r = CallFields
    BY <2>1, <2>2 DEF CallFields
  <2>4. call'[c] = r => CallInv(c)'
    BY <2>3 DEF CallInv
  <2> QED
    BY <1>7, <2>1, <2>4, CallMoves, CallReturns DEF commit_reread, signer_policy_read
<1>8. ASSUME NEW c \in Calls, NEW op \in Ops, NEW t \in Terms, account_prepare(c, op, t) PROVE Good
  <2>1. PICK r : r = Request(op, t)
    OBVIOUS
  <2>2. call'[c] = r => CallInv(c)'
    BY <1>8, <2>1 DEF account_prepare, Request, CallInv, CallFields, AccountKinds
  <2> QED
    BY <1>8, <2>1, <2>2, CallMoves DEF account_prepare
<1>9. ASSUME NEW c \in Calls, account_terms(c) PROVE Good
  <2>1. PICK r : r = [call[c] EXCEPT !.at = "ceremony"]
    OBVIOUS
  <2>2. PICK op \in Ops, t \in Terms : op = call[c].op /\ t = call[c].req
    BY <1>0, <1>9 DEF account_terms, At, CallInv
  <2>3. DOMAIN call[c] = CallFields /\ Kind[op] \in AccountKinds
    BY <1>0, <1>9, <2>2 DEF account_terms, At, CallInv
  <2>4. r.at = "ceremony" /\ DOMAIN r = CallFields /\ r.op = op /\ r.req = t
    BY <2>1, <2>2, <2>3 DEF CallFields
  <2>5. CASE terms' = record_account_terms(op, t) /\ terms'[op].terms = t /\ Goto(c, r)
    <3>1. terms'[op] # None
      <4>1. [terms |-> t, state |-> "COMMITTED"] # None
        BY NoneAssumption
      <4> QED
        BY <2>5, <4>1 DEF record_account_terms, CustodyInv, Shapes
    <3>2. Frozen(op, t)'
      BY <2>3, <2>5, <3>1 DEF Frozen, AccountKinds
    <3>3. call'[c] = r => CallInv(c)'
      BY <2>3, <2>4, <3>2 DEF CallInv, AccountKinds, Frozen
    <3> QED
      BY <2>5, <3>3, CallMoves
  <2> QED
    BY <1>9, <2>1, <2>2, <2>5, CallReturns DEF account_terms
<1>10. ASSUME NEW c \in Calls, NEW op \in Ops, NEW scope \in Scopes \cup {None}, derive_prepare(c, op, scope) PROVE Good
  <2>1. PICK r : r = [Request(op, scope) EXCEPT !.at = "ceremony"]
    OBVIOUS
  <2>2. r.at = "ceremony" /\ DOMAIN r = CallFields /\ r.op = op /\ r.req = scope /\ Kind[op] = "derive"
    BY <1>10, <2>1 DEF Request, CallFields, derive_prepare
  <2>3. Frozen(op, scope)'
    BY <1>10, <2>2 DEF Frozen, AccountKinds, derive_prepare, CustodyInv, Shapes
  <2>4. call'[c] = r => CallInv(c)'
    BY <2>2, <2>3 DEF CallInv, Frozen
  <2> QED
    BY <1>10, <2>1, <2>4, CallMoves DEF derive_prepare
<1>11. ASSUME NEW c \in Calls, NEW op \in Ops, plain_prepare(c, op) PROVE Good
  <2>1. PICK r : r = [Request(op, None) EXCEPT !.at = "ceremony"]
    OBVIOUS
  <2>2. r.at = "ceremony" /\ DOMAIN r = CallFields /\ r.op = op /\ Kind[op] \in {"register", "delete"}
    BY <1>11, <2>1 DEF Request, CallFields, plain_prepare
  <2>3. call'[c] = r => CallInv(c)'
    BY <2>2 DEF CallInv, Frozen, AccountKinds
  <2> QED
    BY <1>11, <2>1, <2>3, CallMoves DEF plain_prepare
<1>12. ASSUME NEW c \in Calls, NEW op \in Ops, finalize(c, op) PROVE Good
  <2>1. PICK r : r = [Request(op, session[op].receipt) EXCEPT !.at = "adopt"]
    OBVIOUS
  <2>2. r.at = "adopt" /\ DOMAIN r = CallFields /\ r.op = op /\ r.req = session[op].receipt
    BY <2>1 DEF Request, CallFields
  <2>3. session'[op] = session[op] /\ session[op].state \in Done
    BY <1>12 DEF finalize, Done
  <2>4. call'[c] = r => CallInv(c)'
    BY <2>2, <2>3 DEF CallInv
  <2> QED
    BY <1>12, <2>1, <2>4, CallMoves DEF finalize
<1>13. ASSUME NEW c \in Calls, committed_account_terms(c) PROVE Good
  <2>1. PICK r : r = [call[c] EXCEPT !.at = "adopt_write"]
    OBVIOUS
  <2>1a. PICK op \in Ops : op = call[c].op
    BY <1>0, <1>13 DEF committed_account_terms, Adopting, At, CallInv
  <2>2. PICK req : req = call[c].req
    OBVIOUS
  <2>3. /\ DOMAIN call[c] = CallFields /\ Kind[op] \in AccountKinds
        /\ session[op].state \in Done /\ req = session[op].receipt /\ UNCHANGED terms
    BY <1>0, <1>13, <2>1a, <2>2 DEF committed_account_terms, Adopting, At, CallInv
  <2>4. r.at = "adopt_write" /\ DOMAIN r = CallFields /\ r.op = op /\ r.req = req
    BY <2>1, <2>1a, <2>2, <2>3 DEF CallFields
  <2>5. CASE /\ terms[op] # None /\ Goto(c, r) /\ UNCHANGED session
             /\ Kind[op] = "allocate" => allocation_matches(terms[op].terms, req)
    <3>1. call'[c] = r => CallInv(c)'
      BY <2>3, <2>4, <2>5 DEF CallInv
    <3> QED
      BY <2>5, <3>1, CallMoves
  <2> QED
    BY <1>13, <2>1, <2>1a, <2>2, <2>5, CallReturns DEF committed_account_terms, Succeed, Refuse
<1>14. ASSUME restart PROVE Good
  BY <1>14 DEF restart, CallInv, Idle
<1>15. ASSUME (\E op \in Ops : signer_completes(op)) \/ UNCHANGED vars PROVE Good
  BY <1>1, <1>15 DEF signer_completes, vars
<1> QED
  BY <1>2, <1>3, <1>4, <1>5, <1>6, <1>7, <1>8, <1>9, <1>10, <1>11, <1>12, <1>13, <1>14, <1>15 DEF Next, Step

LEMMA CustodyInit == Init => CustodyInv
<1> SUFFICES ASSUME Init PROVE CustodyInv
  OBVIOUS
<1>1. Shapes
  <2>1. /\ DOMAIN session = Ops /\ DOMAIN terms = Ops /\ DOMAIN adopted = Ops /\ DOMAIN pending = Ops
        /\ DOMAIN bound = Keys /\ DOMAIN call = Calls
    BY DEF Init
  <2>2. /\ DOMAIN signer = {"wallet", "version", "signed", "swapped"} /\ signer.version = 1
        /\ signer.signed \in {[v \in {1} |-> p] : p \in Policies}
        /\ signer.swapped = [op \in Ops |-> None]
    BY DEF Init
  <2>3. DOMAIN signer.signed = {1} /\ {1} = 1..1
    BY <2>2
  <2> QED
    BY <2>1, <2>2, <2>3 DEF Shapes
<1>2. \A c \in Calls : CallInv(c)
  BY DEF Init, CallInv, Idle
<1>3. ASSUME NEW op \in Ops
      PROVE  SessionInv(op) /\ TermsInv(op) /\ SwapInv(op)
  BY DEF Init, SessionInv, TermsInv, SwapInv
<1> QED
  BY <1>1, <1>2, <1>3 DEF CustodyInv

LEMMA CustodyStep == CustodyInv /\ [Next]_vars => CustodyInv'
<1> SUFFICES ASSUME CustodyInv, [Next]_vars PROVE CustodyInv'
  OBVIOUS
<1>1. Kept
  BY StepKeeps
<1>2. DOMAIN terms' = Ops /\ DOMAIN adopted' = Ops /\ DOMAIN pending' = Ops
  <2>0. DOMAIN terms = Ops /\ DOMAIN adopted = Ops /\ DOMAIN pending = Ops
    BY DEF CustodyInv, Shapes
  <2>1. ASSUME NEW c \in Calls, account_terms(c) PROVE DOMAIN terms' = Ops
    BY <2>0, <2>1 DEF account_terms, record_account_terms
  <2>2. ASSUME NEW c \in Calls, adopt_account(c) PROVE DOMAIN terms' = Ops /\ DOMAIN adopted' = Ops
    BY <2>0, <2>2 DEF adopt_account
  <2>3. ASSUME NEW c \in Calls, NEW op \in Ops, NEW scope \in Scopes \cup {None}, derive_prepare(c, op, scope)
        PROVE  DOMAIN pending' = Ops
    BY <2>0, <2>3 DEF derive_prepare
  <2> QED
    BY <2>0, <2>1, <2>2, <2>3, OnTables
<1>3. Shapes'
  BY <1>1, <1>2, SessionsStep, BoundStep, CallInvStep, SignerInvStep DEF Shapes
<1> QED
  BY <1>1, <1>3, CallInvStep, SessionInvStep, TermsInvStep, SignerInvStep DEF CustodyInv

LEMMA CustodyInvariance == Spec => []CustodyInv
BY CustodyInit, CustodyStep, PTL DEF Spec

\* Every policy the Signer swapped in was reviewed by the owner as exactly the
\* difference from the policy it replaced, although the Broker derives that
\* difference from its own copy (prepare_policy_update, validate_policy_update).
THEOREM SwapsWereReviewed == Spec => []SwapWasReviewed
<1>1. CustodyInv => SwapWasReviewed
  BY DEF CustodyInv, SwapInv, SwapWasReviewed
<1> QED
  BY <1>1, CustodyInvariance, PTL

\* A derivation the owner reviewed under a scope ends well only with its key bound
\* to that scope, whatever else derives the same key (adopt_petal_key_scope).
THEOREM KeysKeepTheirScope == Spec => []ScopedKeyKeepsScope
<1>1. CustodyInv => ScopedKeyKeepsScope
  <2> SUFFICES ASSUME CustodyInv, NEW op \in Ops, Kind[op] = "derive",
                      session[op].state = "succeeded", session[op].req # None
               PROVE  bound[session[op].receipt] = [op |-> op, scope |-> session[op].req]
    BY DEF ScopedKeyKeepsScope
  <2>1. session[op] # NoSession
    BY SessionPresent DEF Done
  <2> QED
    BY <2>1 DEF CustodyInv, SessionInv
<1> QED
  BY <1>1, CustodyInvariance, PTL

\* An account ceremony ends well only with the reviewed terms adopted and a receipt
\* that gives one child per requested profile under one account number, also when
\* other terms were sent under the same operation (adopt_account_allocation).
THEOREM AccountsMatchReview == Spec => []AccountsAsReviewed
<1>1. CustodyInv => AccountsAsReviewed
  <2> SUFFICES ASSUME CustodyInv, NEW op \in Ops, Kind[op] = "allocate", session[op].state = "succeeded"
               PROVE  LET asked == session[op].req.derivations  given == session[op].receipt IN
                      /\ adopted[op] = [terms |-> session[op].req, receipt |-> given]
                      /\ \E number \in {committed_path_number(given[i]) : i \in DOMAIN given} \ {None} :
                           /\ Cardinality(DOMAIN given) = Cardinality(asked)
                           /\ \A d \in asked : \E i \in DOMAIN given :
                                given[i].profile = d.profile /\ committed_path_number(given[i]) = number
    BY DEF AccountsAsReviewed
  <2> DEFINE t == session[op].req
             given == session[op].receipt
  <2>1. session[op] # NoSession
    BY SessionPresent DEF Done
  <2>2. /\ terms[op].terms = t /\ adopted[op] = [terms |-> t, receipt |-> given]
        /\ allocation_matches(t, given)
    BY <2>1 DEF CustodyInv, SessionInv, Frozen, Adopted, AccountKinds
  <2>3. PICK d0 \in t.derivations : TRUE
    BY <2>2 DEF allocation_matches
  <2>4. PICK i0 \in DOMAIN given : committed_path_number(given[i0]) # None
    BY <2>2, <2>3 DEF allocation_matches, Rows
  <2>5. ASSUME NEW d \in t.derivations
        PROVE  \E i \in DOMAIN given :
                 given[i].profile = d.profile /\ committed_path_number(given[i]) = committed_path_number(given[i0])
    <3>1. PICK i \in DOMAIN given : given[i].profile = d.profile
      BY <2>2 DEF allocation_matches, Rows
    <3>2. committed_path_number(given[i]) = committed_path_number(given[i0])
      BY <2>2 DEF allocation_matches, Rows
    <3> QED
      BY <3>1, <3>2
  <2>6. Cardinality(DOMAIN given) = Cardinality(t.derivations)
    BY <2>2 DEF allocation_matches
  <2> QED
    BY <2>2, <2>4, <2>5, <2>6
<1> QED
  BY <1>1, CustodyInvariance, PTL
=============================================================================
