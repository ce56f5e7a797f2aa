-------------------------- MODULE TransactionReview --------------------------
(***************************************************************************)
(* What the owner is shown of an EVM transaction                           *)
(* (crates/bloom-broker/src/evm_review.rs) and of a Safe transaction       *)
(* (safe_review.rs) before an exact approval.                              *)
(*                                                                         *)
(* A payload is the document its bytes decode to, so a digest of it is the *)
(* payload itself.  The request carries what is reviewed beside the        *)
(* digests the approval will bind; nothing but the review compares them.   *)
(***************************************************************************)
EXTENDS ClearReading

CONSTANTS
  Owner,       \* the address of the wallet's signing key
  MaxPayloads, \* payloads of one batch
  MaxFee       \* u128::MAX

Accept(shown) == [shown |-> shown]
Creation == "creation" \* where the recipient would be

Exact(req) == req.selector.kind = "exact"

\* A claim with no debit, destination or fee.
Unpriced(claim) == claim.debits = {} /\ claim.dests = {} /\ claim.fee = None
SecpSuite == {"secp256k1"}

\* "exact" on a chain is the policy's opt-in to calls with no destination.
AllowsExact(policy, chain) == <<[evm |-> chain], "exact">> \in policy.dests

NativeClasses == {"transaction.confirm", "transaction.replace", "transaction.cancel"}
subject_is_native_evm_transaction(subject) ==
  subject.kind \in {"cli", "system"} /\ subject.class \in NativeClasses

-----------------------------------------------------------------------------
\* evm_review.rs.  A payload is [type, form, chain, to, value, nonce, gas,
\* price, data]; a creation has no recipient.

\* checked_mul: an absurd envelope gets no fee line.
maximum_execution_gas_fee_display(price, gas, chain) ==
  IF price * gas > MaxFee \/ ~HasUnits(chain) THEN None ELSE [fee |-> price * gas]

native_value_display(value, chain) == IF HasUnits(chain) THEN [units |-> value] ELSE [raw |-> value]

\* legacy and EIP-1559 only, unsigned and canonical, without an access list.
DecodesTransaction(tx) == tx.type \in {"eip1559", "legacy"} /\ tx.form = "exact"

render(tx, policy) ==
  IF \/ tx.chain = 0
     \/ tx.to = Creation /\ (~AllowsExact(policy, tx.chain) \/ tx.data = NoData)
    THEN Refused
    ELSE [chain |-> tx.chain, sender |-> Owner, to |-> tx.to, value |-> tx.value, nonce |-> tx.nonce, gas |-> tx.gas,
          price |-> tx.price, data |-> tx.data, display |-> native_value_display(tx.value, tx.chain),
          fee |-> maximum_execution_gas_fee_display(tx.price, tx.gas, tx.chain), reading |-> None]

CallOf(tx) == [chain |-> tx.chain, to |-> tx.to, value |-> tx.value, data |-> tx.data]

\* A call that cannot be read stays as exact bytes; the owner decides.
read_contract_call(shown, tx, cat) ==
  IF tx.to = Creation \/ tx.data = NoData THEN shown
  ELSE [shown EXCEPT !.reading = review_call(cat, CallOf(tx))]

\* What an unlisted token says of itself is a claim beside the raw amount.
show_reported_token(shown, reported) ==
  IF /\ reported # None /\ reported.plain
     /\ shown.reading \notin {None, Refused} /\ shown.to = reported.address
     /\ shown.reading.intent # None /\ shown.reading.intent.token = None
    THEN [shown EXCEPT !.reading.warnings = @ \cup {"reported"}] ELSE shown

\* The evidence of a review: every entry a readable call rests on.
EvmEvidence(shown) ==
  LET read == {shown[i].reading : i \in {j \in DOMAIN shown : shown[j].reading \notin {None, Refused}}}
      used == UNION {r.used : r \in read} IN
  IF used = {} THEN None ELSE Evidence(used, \E r \in read : r.structural)
Witnessed(shown) == [shown |-> shown, evidence |-> EvmEvidence(shown)]

\* The review of every payload, Refused or None when there is none.
evm_review(req, policy, cat) ==
  IF req.evm = <<>> THEN None
  ELSE LET shown == [i \in DOMAIN req.evm |-> render(req.evm[i], policy)] IN
       IF /\ req.petal = None /\ req.system = None
          /\ subject_is_native_evm_transaction(req.subject)
          /\ Exact(req) /\ req.suites = SecpSuite
          /\ Len(req.evm) <= MaxPayloads
          /\ req.selector.digests = req.evm /\ req.selector.hashes = req.evm
          /\ \A i \in DOMAIN req.evm : DecodesTransaction(req.evm[i]) /\ shown[i] # Refused
         THEN Witnessed([i \in DOMAIN shown |->
                          show_reported_token(read_contract_call(shown[i], req.evm[i], cat), req.reported)])
         ELSE Refused

-----------------------------------------------------------------------------
\* safe_review.rs.  An envelope is [form, schema, chain, safe, owner, tx,
\* report]; tx is [to, value, data, operation, refund, nonce], report what
\* the Petal says of the Safe and nobody signs.

safe_preimage(e) == [type |-> "safe", chain |-> e.chain, safe |-> e.safe, tx |-> e.tx]

exact_bytes(req) ==
  /\ Exact(req) /\ req.suites = SecpSuite
  /\ Len(req.safe) = 1 /\ Len(req.selector.digests) = 1 /\ Len(req.selector.hashes) = 1

validate_state(e) == e.schema = "bloom.safe.review.v1" /\ e.owner = Owner /\ ~e.tx.refund

\* Whether the transaction can change the Safe's owners, modules or code.
\* Mutant: a batch is not looked into.
can_reconfigure_safe_Shallow(e, cat) ==
  e.tx.to = e.safe \/ (e.tx.operation # 0 /\ ~is_safe_library(cat, e.chain, e.tx.to))

can_reconfigure_safe(e, cat) ==
  \/ e.tx.to = e.safe
  \/ /\ e.tx.operation # 0
     /\ \/ ~is_safe_library(cat, e.chain, e.tx.to)
        \/ /\ e.tx.data.args # <<>> /\ "bytes" \in DOMAIN e.tx.data.args[1]
           /\ "batch" \in DOMAIN e.tx.data.args[1].bytes
           /\ \E i \in DOMAIN e.tx.data.args[1].bytes.batch : e.tx.data.args[1].bytes.batch[i].to = e.safe

\* The transaction as the execTransaction call that runs it, unsigned.
exec_calldata(e) ==
  [fn |-> "execTransaction", form |-> "exact",
   args |-> <<[address |-> e.tx.to], Uint(e.tx.value), [bytes |-> e.tx.data], Uint(e.tx.operation)>>]

\* The inner call's own fields, without what the page shows beside them.
SafeAction(reading) ==
  [fields |-> {f \in reading.fields : f.at \notin {<<"to">>, <<"value">>, <<"operation">>}}, warnings |-> reading.warnings,
   evidence |-> Evidence(reading.used, reading.structural), opaque |-> FALSE]

OpaqueAction == [fields |-> {}, warnings |-> {}, evidence |-> None, opaque |-> TRUE]

\* The page of a Safe transaction whose execution reads like this.
SafePage(e, cat, reading) ==
  IF ~Read(reading) /\ can_reconfigure_safe(e, cat) THEN Refused
  ELSE Accept(<<[chain |-> e.chain, safe |-> e.safe, owner |-> Owner, nonce |-> e.tx.nonce, operation |-> e.tx.operation,
                 to |-> e.tx.to, value |-> e.tx.value, hash |-> safe_preimage(e),
                 action |-> IF Read(reading) THEN SafeAction(reading) ELSE OpaqueAction]>>)

safe_review(req, policy, cat) ==
  IF req.safe = <<>> THEN None
  ELSE LET e == req.safe[1] IN
       IF /\ req.evm = <<>> /\ req.system = None
          /\ req.petal # None => Unpriced(req.petal)
          /\ exact_bytes(req)
          /\ e.form = "exact" /\ validate_state(e) /\ e.chain # 0
          /\ req.selector.digests[1] = safe_preimage(e) /\ req.selector.hashes[1] = safe_preimage(e)
          /\ AllowsExact(policy, e.chain)
         THEN SafePage(e, cat, review_call(cat, [chain |-> e.chain, to |-> e.safe, value |-> 0, data |-> exec_calldata(e)]))
         ELSE Refused
=============================================================================
