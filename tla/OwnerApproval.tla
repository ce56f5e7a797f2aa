---------------------------- MODULE OwnerApproval ----------------------------
(***************************************************************************)
(* From a request to a signature: what an approval request must carry      *)
(* (service.rs, approval.prepare), what authority.rs checks when it is     *)
(* written down, and what it checks again when a signature is asked for.   *)
(*                                                                         *)
(* The reviews are those of TransactionReview, MessageReview and           *)
(* SolanaReview.  Revocation, the ledger, retries and the ceremony page    *)
(* are in other modules: here an approval is prepared, active and used.    *)
(*                                                                         *)
(* A world gives the catalogs the installer ships in turn, the policies    *)
(* adopted in turn, the requests and uses the Machine may send, the scope  *)
(* of a derived key and the approvals an older Broker left behind.  A      *)
(* catalog is a set of records [subject, classes, lineage]; classes maps   *)
(* an operation class to its fee asset.  A record is its own digest.       *)
(***************************************************************************)
EXTENDS SolanaReview

CONSTANTS
  Worlds,  \* by name: [build, catalog, catalogs, policy, policies, scope, requests, uses, older, programs, bound]
  Builds,  \* clear-signing catalogs, by name
  Returns, \* what a command of a shortcut may return
  MaxTime  \* bound on the clock

VARIABLES
  world,     \* this behaviour's world
  catalog,   \* provenance_catalog
  policy,    \* the policies row
  now,
  pending,   \* a request reviewed and not yet written down
  approvals, \* approval records: [terms, shown, claim, frozen, state, spent]
  using,     \* a signing request between its clock reading and authorize
  accepted,  \* the signature authorized in the last step
  vm         \* the virtual machine running a shortcut

vars == <<world, catalog, policy, now, pending, approvals, using, accepted, vm>>

ClearSigningBuild == Builds[Worlds[world].build]

-----------------------------------------------------------------------------
\* The installer's catalog.

subject_for(subject) ==
  IF subject.kind = "petal" THEN [kind |-> "petal", package |-> subject.package, route |-> subject.route] ELSE subject

catalog_provenance(subject) ==
  IF \E r \in catalog : r.subject = subject THEN CHOOSE r \in catalog : r.subject = subject ELSE None

subject_declares_operation_class(subject, class) ==
  LET record == catalog_provenance(subject_for(subject)) IN record # None /\ (record # None => class \in DOMAIN record.classes)

\* The record is the one the digest names and grants something.
verify_provenance(record, digest) == record # None /\ record = digest /\ (record # None => DOMAIN record.classes # {})

\* One record per subject, something declared unless it only carries lineage,
\* and one active package per lineage.
validate_shape(records) ==
  /\ records # {}
  /\ \A r, s \in records : r.subject = s.subject => r = s
  /\ \A r \in records : /\ DOMAIN r.classes = {} => r.lineage # None
                        /\ r.lineage # None => r.subject.kind = "petal"
  /\ \A r, s \in {t \in records : t.lineage # None} :
       r.lineage = s.lineage /\ r.lineage.active => r.subject.package = s.subject.package

-----------------------------------------------------------------------------
\* Terms.

Terms(r) ==
  [subject |-> r.subject, selector |-> r.selector, suites |-> r.suites, operations |-> r.operations,
   signatures |-> r.signatures, limits |-> r.limits, policy |-> r.policy, provenance |-> r.provenance,
   from |-> r.from, expires |-> r.expires, key |-> r.key]

SuitesOf(key) == IF key.spec = "ed25519" THEN {"ed25519"} ELSE {"secp256k1", "secp256k1-sha256"}

valid_route_grants(terms) ==
  LET grants == terms.selector.grants IN
  grants # {} =>
    /\ \A g \in grants : g.classes # {}
    /\ \A g, h \in grants : g.route = h.route => g = h
    /\ \E g \in grants : g.route = terms.subject.route /\ g.classes = terms.selector.classes /\ g.provenance = terms.provenance

validate(terms) ==
  /\ terms.suites # {} /\ terms.suites \subseteq SuitesOf(terms.key)
  /\ terms.operations > 0 /\ terms.signatures > 0 /\ terms.from < terms.expires
  /\ IF Exact(terms)
       THEN /\ terms.selector.digests # <<>> /\ terms.selector.hashes # <<>>
            /\ terms.operations = 1 /\ terms.signatures = Len(terms.selector.hashes)
       ELSE /\ terms.subject.kind = "petal" /\ terms.selector.classes # {} /\ valid_route_grants(terms)

\* The scope of a derived key: every granted route still belongs to an active
\* member of its lineage.
scoped_key_record(key) ==
  LET Of(scope) == IF scope = None THEN None ELSE IF scope.key = key THEN scope ELSE None IN Of(Worlds[world].scope)

validate_scoped_route_lineage(scope, package, route, classes) ==
  LET record == catalog_provenance([kind |-> "petal", package |-> package, route |-> route]) IN
  IF record = None THEN FALSE
  ELSE IF record.lineage = None THEN FALSE
  ELSE record.lineage.active /\ record.lineage.id = scope.lineage /\ classes \subseteq DOMAIN record.classes

validate_scoped_key_terms(terms) ==
  LET package == terms.subject.package
      Within(scope) ==
        /\ terms.subject.kind = "petal" /\ terms.subject.route \in scope.routes
        /\ terms.subject.agent \in {"", scope.slot} /\ terms.suites \subseteq scope.suites
        /\ IF Exact(terms) THEN validate_scoped_route_lineage(scope, package, terms.subject.route, {})
           ELSE /\ terms.expires <= scope.expires /\ Covered(terms.selector) \subseteq scope.classes
                /\ \A g \in terms.selector.grants : g.route \in scope.routes
                /\ validate_scoped_route_lineage(scope, package, terms.subject.route, terms.selector.classes)
                /\ \A g \in terms.selector.grants : validate_scoped_route_lineage(scope, package, g.route, g.classes) IN
  \A scope \in {scoped_key_record(terms.key)} \ {None} : Within(scope)

\* Terms are bound to one policy, when they are prepared
policy_matches(terms) == terms.policy = policy.version

\* Mutant: the policy that is current at the use is not compared.
policy_unchanged_Frozen(terms) == TRUE

\* and when they are used.
policy_unchanged(terms) == terms.policy = policy.version

-----------------------------------------------------------------------------
\* approval.prepare

SafePetal(r) == r.subject.kind = "petal" /\ subject_declares_operation_class(r.subject, SafeClass)
MessagePetal(r) ==
  r.subject.kind = "petal" /\ \E c \in MessageClasses \cup PolymarketClasses : subject_declares_operation_class(r.subject, c)
PumpReview(terms, claim) == PumpScope(terms) \/ (claim # None /\ (claim # None => claim.class \in PumpClasses))

\* What must come with a request.
prepare_gate(r) ==
  /\ r.petal = None \/ r.system = None
  /\ subject_is_native_evm_transaction(r.subject) => r.evm # <<>>
  /\ r.subject.kind = "petal" => catalog_provenance(subject_for(r.subject)) # None
  /\ IF Exact(r)
       THEN /\ MessagePetal(r) \/ is_system_x402(r.subject) \/ is_system_mpp(r.subject) => r.message # <<>>
            /\ SafePetal(r) => r.safe # <<>>
       ELSE \A c \in Covered(r.selector) : c # SafeClass /\ ~message_review_requires_exact(c)
  /\ r.safe # <<>> => SafePetal(r)
  /\ MessagePetal(r) /\ r.message # <<>> =>
       r.petal # None /\ (r.petal # None => subject_declares_operation_class(r.subject, r.petal.class))
  /\ validate_selector(r, r.petal)
  /\ ClobScope(r) => /\ r.petal # None /\ (r.petal # None => validate_claim_clob(r.petal))
                     /\ r.evm = <<>> /\ r.safe = <<>> /\ r.message = <<>>
                     /\ subject_declares_operation_class(r.subject, ClobClass)

NoReview == [evm |-> None, safe |-> None, message |-> None]

\* Everything the page shows; Refused when a review is.
review(r) ==
  LET Page(evm, safe, message) ==
        IF Refused \in {evm, safe, message} THEN Refused ELSE [evm |-> evm, safe |-> safe, message |-> message] IN
  IF PumpReview(r, r.petal) THEN Page(None, None, prepare_pump(r))
  ELSE IF r.evm = <<>> /\ r.safe = <<>> /\ r.message = <<>> /\ ~ClobScope(r) THEN NoReview
  ELSE IF ~policy_matches(r) THEN Refused
  ELSE LET With(cat) == Page(evm_review(r, policy, cat), safe_review(r, policy, cat),
                             IF ClobScope(r) THEN clob_review(r) ELSE message_review(r, cat)) IN
       With(ClearSigningBuild)

ClaimOf(r) == IF r.petal # None THEN r.petal ELSE r.system

\* What authority.rs requires of terms it writes down.
prepare_approval_with_claim(terms) ==
  LET record == catalog_provenance(subject_for(terms.subject)) IN
  /\ validate(terms) /\ validate_scoped_key_terms(terms)
  /\ policy.enabled /\ policy_matches(terms) /\ terms.expires - terms.from <= policy.lifetime
  /\ verify_provenance(record, terms.provenance)
  /\ terms.subject.kind = "petal" =>
       /\ terms.subject.package \in policy.packages
       /\ ~Exact(terms) =>
            /\ terms.selector.classes \subseteq DOMAIN record.classes
            /\ \A g \in terms.selector.grants :
                 LET granted == catalog_provenance([kind |-> "petal", package |-> terms.subject.package, route |-> g.route]) IN
                 verify_provenance(granted, g.provenance) /\ g.classes \subseteq DOMAIN granted.classes

PrepareReview(r) ==
  /\ pending = None /\ Cardinality(approvals) < Worlds[world].bound
  /\ prepare_gate(r)
  /\ \E shown \in {review(r)} : shown # Refused /\ pending' = [request |-> r, shown |-> shown]
  /\ accepted' = None
  /\ UNCHANGED <<world, catalog, policy, now, approvals, using, vm>>

\* The same terms again are the same approval or a conflict.
PrepareCommit ==
  /\ pending # None
  /\ LET terms == Terms(pending.request)
         known == \E a \in approvals : a.terms = terms IN
     approvals' =
       IF known \/ ~prepare_approval_with_claim(terms) THEN approvals
       ELSE approvals \cup {[terms |-> terms, shown |-> pending.shown, claim |-> ClaimOf(pending.request),
                             frozen |-> catalog_provenance(subject_for(terms.subject)), state |-> "prepared",
                             spent |-> [operations |-> 0, signatures |-> 0, values |-> {}]]}
  /\ pending' = None /\ accepted' = None
  /\ UNCHANGED <<world, catalog, policy, now, using, vm>>

activate_approval(a) ==
  /\ a.state = "prepared" /\ policy.enabled
  /\ approvals' = (approvals \ {a}) \cup {[a EXCEPT !.state = "active"]}
  /\ accepted' = None
  /\ UNCHANGED <<world, catalog, policy, now, pending, using, vm>>

-----------------------------------------------------------------------------
\* sign, and what authorize checks.

\* Debits and the fee by asset; Refused when the class, its fee asset, the
\* limits or the range of a word do not admit them.
account_declared_values(terms, claim, record) ==
  LET charged == claim.debits \cup (IF claim.fee = None THEN {} ELSE {claim.fee})
      of(asset) == (IF claim.fee # None /\ (claim.fee # None => claim.fee.asset = asset) THEN claim.fee.amount ELSE 0)
                   + MapThenSumSet(LAMBDA d : d.amount, {d \in claim.debits : d.asset = asset})
      values == {[asset |-> c.asset, amount |-> of(c.asset)] : c \in charged} IN
  IF claim.class \notin DOMAIN record.classes THEN Refused
  ELSE IF /\ record.classes[claim.class] = (IF claim.fee = None THEN None ELSE claim.fee.asset)
          /\ \A v \in values : v.amount <= MaxWord /\ \E l \in terms.limits : l.asset = v.asset
    THEN [values |-> values] ELSE Refused

\* Only native system claims have a compiled verifier: a Petal claim is what
\* the Machine asserts, or is refused.
validate_petal_claim(terms, use, package, route, classes, required) ==
  LET claim == use.claim IN
  /\ claim.package = package /\ claim.route = route /\ claim.class \in classes
  /\ claim.suite = use.suite /\ claim.suite \in terms.suites
  /\ claim.digest = use.payloads /\ claim.hashes = use.payloads
  /\ claim.assurance = "machine" /\ required = "machine" /\ policy.verifiers = {}
  /\ claim.dests \subseteq policy.dests

validate_system_claim(terms, use, signer, classes) ==
  LET claim == use.system IN
  /\ Len(use.payloads) = 1
  /\ claim.component = terms.subject.component /\ claim.action = terms.subject.class /\ claim.class \in classes
  /\ claim.suite = use.suite /\ claim.suite \in terms.suites
  /\ claim.digest = use.payloads[1] /\ claim.hashes = use.payloads
  /\ claim.assurance = "proof" /\ (policy.verifiers # {} => "solana-system-transfer-v1" \in policy.verifiers)
  /\ verify_system(claim, use.evidence, signer)
  /\ claim.dests \subseteq policy.dests

\* The grant a multi-route approval gives to a route.
GrantOf(terms, route) ==
  IF \E g \in terms.selector.grants : g.route = route
    THEN CHOOSE g \in terms.selector.grants : g.route = route ELSE None
MultiRoute(terms) == ~Exact(terms) /\ terms.selector.grants # {}

\* The current record of what runs, if it is the one that was reviewed.
ExecutingRecord(a, use) ==
  LET record == catalog_provenance(use.provenance)
      grant == IF MultiRoute(a.terms) /\ use.provenance.kind = "petal" THEN GrantOf(a.terms, use.provenance.route) ELSE None IN
  IF MultiRoute(a.terms)
    THEN IF grant = None THEN None
         ELSE IF /\ verify_provenance(record, grant.provenance)
                 /\ use.provenance.package = a.terms.subject.package THEN record ELSE None
    ELSE IF /\ verify_provenance(record, a.terms.provenance) /\ record = a.frozen
            /\ use.provenance = subject_for(a.terms.subject) THEN record ELSE None

\* The values the claim reserves, or Refused.
ClaimValues(a, use, record, signer) ==
  LET terms == a.terms  declared == DOMAIN record.classes
      granted == GrantOf(terms, use.claim.route) IN
  IF Exact(terms)
    THEN IF use.payloads # terms.selector.digests \/ use.payloads # terms.selector.hashes THEN Refused
         ELSE IF use.claim # None /\ use.system # None THEN Refused
         ELSE IF use.claim # None
           THEN IF terms.subject.kind # "petal" THEN Refused
                ELSE IF /\ terms.subject.package \in policy.packages
                        /\ validate_petal_claim(terms, use, terms.subject.package, terms.subject.route, declared, "machine")
                  THEN account_declared_values(terms, use.claim, record) ELSE Refused
         ELSE IF use.system # None
           THEN IF terms.subject.kind = "system" /\ (terms.subject.kind = "system" => validate_system_claim(terms, use, signer, declared))
                  THEN account_declared_values(terms, use.system, record) ELSE Refused
         ELSE [values |-> {}]
  ELSE IF use.claim = None \/ use.system # None THEN Refused
  ELSE IF MultiRoute(terms)
    THEN IF granted = None THEN Refused
         ELSE IF validate_petal_claim(terms, use, terms.subject.package, granted.route, granted.classes, terms.selector.required)
           THEN account_declared_values(terms, use.claim, record) ELSE Refused
  ELSE IF validate_petal_claim(terms, use, terms.subject.package, terms.subject.route, terms.selector.classes, terms.selector.required)
    THEN account_declared_values(terms, use.claim, record) ELSE Refused

SpentOn(spent, asset) == MapThenSumSet(LAMBDA v : v.amount, {v \in spent.values : v.asset = asset})

\* The journal's reservation.  BrokerJournal has the ledger.
Reserved(a, use, values) ==
  LET spent == a.spent IN
  IF /\ spent.operations < a.terms.operations
     /\ spent.signatures + Len(use.payloads) <= a.terms.signatures
     /\ \A v \in values : \A l \in a.terms.limits : l.asset = v.asset => SpentOn(spent, v.asset) + v.amount <= l.lifetime
    THEN [operations |-> spent.operations + 1, signatures |-> spent.signatures + Len(use.payloads),
          values |-> {v \in spent.values : \A w \in values : w.asset # v.asset}
                       \cup {[asset |-> v.asset, amount |-> v.amount + SpentOn(spent, v.asset)] : v \in values}]
    ELSE Refused

\* The approval after the use, or Refused.
authorize(a, use, at, signer) ==
  LET terms == a.terms
      record == ExecutingRecord(a, use)
      claimed == ClaimValues(a, use, record, signer)
      spent == Reserved(a, use, claimed.values) IN
  IF \/ a.state # "active" \/ at \notin terms.from..terms.expires \/ use.key # terms.key
     \/ ~validate_scoped_key_terms(terms) \/ use.suite \notin terms.suites
     \/ ~policy.enabled \/ ~policy_unchanged(terms)
    THEN Refused
  ELSE IF record = None THEN Refused
  ELSE IF claimed = Refused THEN Refused
  ELSE IF Exact(terms) /\ a.claim # (IF use.claim # None THEN use.claim ELSE use.system) THEN Refused
  ELSE IF spent = Refused THEN Refused
  ELSE [approval |-> [a EXCEPT !.spent = spent], values |-> claimed.values]

\* What a standing grant's use is read for.
verify_use(a, use, at) ==
  IF PumpReview(a.terms, use.claim)
    THEN a.state = "active" /\ verify_use_pump(a.terms, use, IF a.shown.message = None THEN None ELSE a.shown.message.shown)
    ELSE /\ use.claim # None /\ (use.claim # None => use.claim.class = AgentClass) => verify_hyperliquid_agent_use(use)
         /\ ClobScope(a.terms) => clob_verify_use(a.terms, use, at)

\* The clock is read before the Signer is asked for its revocations and keys.
SignStart(a, use) ==
  /\ using = None /\ validate_selector(a.terms, use.claim)
  /\ using' = [terms |-> a.terms, use |-> use, at |-> now]
  /\ accepted' = None
  /\ UNCHANGED <<world, catalog, policy, now, pending, approvals, vm>>

SignAuthorize ==
  /\ using # None
  /\ \E a \in approvals :
       LET use == using.use
           signer == IF a.terms.key.spec = "ed25519" THEN SolanaOwner ELSE "" IN
       /\ a.terms = using.terms
       /\ \E decision \in {IF verify_use(a, use, using.at) THEN authorize(a, use, using.at, signer) ELSE Refused} :
            /\ approvals' = IF decision = Refused THEN approvals ELSE (approvals \ {a}) \cup {decision.approval}
            /\ accepted' = IF decision = Refused THEN None
                           ELSE [approval |-> decision.approval, use |-> use, at |-> using.at, values |-> decision.values]
  /\ using' = None
  /\ UNCHANGED <<world, catalog, policy, now, pending, vm>>

-----------------------------------------------------------------------------
\* What changes around an approval.

\* A policy the owner swapped in is installed (PolicyCustody).
AdoptPolicy ==
  /\ \E p \in Worlds[world].policies : p.version > policy.version /\ policy' = p
  /\ accepted' = None
  /\ UNCHANGED <<world, catalog, now, pending, approvals, using, vm>>

\* A process end, and a start that takes the installer's catalog as it is then.
\* Requests in flight are gone.
synchronize_provenance_catalog ==
  /\ \E c \in Worlds[world].catalogs \cup {catalog} : validate_shape(c) /\ catalog' = c
  /\ pending' = None /\ using' = None /\ accepted' = None
  /\ UNCHANGED <<world, policy, now, approvals, vm>>

Tick ==
  /\ now < MaxTime /\ now' = now + 1 /\ accepted' = None
  /\ UNCHANGED <<world, catalog, policy, pending, approvals, using, vm>>

\* The machine runs a shortcut the reader read, on the state it carries.
ShortcutStart(p) ==
  /\ vm = None /\ decode(p) # Bad
  /\ vm' = [program |-> p, steps |-> decode(p).steps, at |-> 1, contents |-> p.initial]
  /\ accepted' = None
  /\ UNCHANGED <<world, catalog, policy, now, pending, approvals, using>>

ShortcutStep ==
  /\ vm # None
  /\ vm.at <= Len(vm.program.commands)
  /\ \E returned \in Returns :
       vm' = [vm EXCEPT !.at = @ + 1, !.contents = Run(vm.program.commands[vm.at], @, returned)]
  /\ accepted' = None
  /\ UNCHANGED <<world, catalog, policy, now, pending, approvals, using>>

\* A build with a description the reader rejects does not exist.
Init ==
  /\ world \in {w \in DOMAIN Worlds : Read(Builds[Worlds[w].build])}
  /\ catalog = Worlds[world].catalog /\ policy = Worlds[world].policy /\ now = 0
  /\ pending = None /\ approvals = Worlds[world].older
  /\ using = None /\ accepted = None /\ vm = None

Next ==
  \/ \E r \in Worlds[world].requests : PrepareReview(r)
  \/ PrepareCommit
  \/ \E a \in approvals : activate_approval(a)
  \/ \E a \in approvals, use \in Worlds[world].uses : SignStart(a, use)
  \/ SignAuthorize
  \/ AdoptPolicy
  \/ synchronize_provenance_catalog
  \/ Tick
  \/ \E p \in Worlds[world].programs : ShortcutStart(p)
  \/ ShortcutStep

Spec == Init /\ [][Next]_vars

-----------------------------------------------------------------------------
\* What the properties compare with: the signed documents themselves.

\* The leaves of a signed typed message.
RECURSIVE SignedLeaves(_, _)
SignedLeaves(v, path) ==
  IF "object" \in DOMAIN v THEN UNION {SignedLeaves(v.object[n], Append(path, n)) : n \in DOMAIN v.object}
  ELSE IF "items" \in DOMAIN v /\ ("items" \in DOMAIN v => v.items # <<>>)
    THEN UNION {SignedLeaves(v.items[i], Append(path, Index[i])) : i \in DOMAIN v.items}
  ELSE {Leaf(path, v)}

\* The accounts of a Solana message in the order the runtime loads them.
LoadedAccounts(m) ==
  LET entries(w) == FoldLeft(LAMBDA acc, t : acc \o [i \in DOMAIN (IF w THEN t.writable ELSE t.readonly) |->
                      [table |-> t.table, entry |-> (IF w THEN t.writable ELSE t.readonly)[i], writable |-> w]], <<>>, m.lookups) IN
  [i \in DOMAIN m.keys |->
     [key |-> m.keys[i], signer |-> i <= m.signatures,
      writable |-> \/ i <= m.signatures - m.readonlySigned
                   \/ i \in (m.signatures + 1)..(Len(m.keys) - m.readonlyUnsigned)]] \o entries(TRUE) \o entries(FALSE)

\* What a message review says of the document that is signed.
MessageSays(shown, payload, at) ==
  CASE shown.kind \in {"eip712", "hyperliquid_user", "polymarket_exact"} ->
         /\ shown.primary = payload.primary /\ shown.domain = payload.domain
         /\ shown.fields = IF payload.primary = "EIP712Domain" THEN {} ELSE SignedLeaves(payload.message, <<>>)
    [] shown.kind = "hyperliquid_l1" ->
         LET signed == payload.message.object.connectionId.hash IN
         /\ signed.action.leaves \subseteq shown.fields
         /\ {Leaf(<<"nonce">>, Uint(signed.nonce)), Leaf(<<"vault">>, signed.vault), Leaf(<<"expires">>, signed.expires),
             Leaf(<<"network">>, payload.message.object.source), Leaf(<<"Action">>, Text(signed.action.type))} \subseteq shown.fields
    [] shown.kind = "tempo_transaction" ->
         LET tx == payload.tempo IN
         \A i \in DOMAIN tx.calls :
           LET input == tx.calls[i].input  shows(p, v) == Leaf(p, v) \in shown.fields IN
           CASE input.fn \in {"transfer", "transferWithMemo"} ->
                  /\ shows(<<"Recipient", Index[i]>>, input.args[1]) /\ shows(<<"Token">>, Address(tx.calls[i].to))
                  /\ shows(<<"Amount", Index[i]>>, display_amount(tx.chain, tx.calls[i].to, input.args[2].uint))
                  /\ input.fn = "transferWithMemo" => shows(<<"Memo", Index[i]>>, input.args[3])
             [] input.fn = "approve" -> shows(<<"Escrow">>, input.args[1]) /\ shows(<<"Token">>, Address(tx.calls[i].to))
                  /\ shows(<<"Deposit">>, display_amount(tx.chain, tx.calls[i].to, input.args[2].uint))
             [] input.fn = "open" -> shows(<<"Payee">>, input.args[1]) /\ shows(<<"Escrow">>, Address(tx.calls[i].to))
             [] OTHER -> FALSE
    [] shown.kind = "tempo_voucher" ->
         LET v == payload.voucher IN
         /\ {Leaf(<<"Chain">>, Uint(v.chain)), Leaf(<<"Channel">>, v.channel), Leaf(<<"Escrow">>, Address(v.escrow))} \subseteq shown.fields
         /\ \A f \in shown.fields : /\ f.path = <<"Payee">> => f.value = Address(v.channel.payee)
                                    /\ f.path = <<"Amount">> => f.value \in {[raw |-> v.cumulative], [units |-> v.cumulative]}
                                    /\ f = Leaf(<<"Amount">>, [units |-> v.cumulative]) => known_token(v.chain, v.channel.token)
    [] shown.kind = "personal" -> Leaf(<<"message">>, payload.personal) \in shown.fields
    [] shown.kind = "siwe" -> shown.fields = {Leaf(<<"Account">>, Address(payload.personal.account)), Leaf(<<"Says">>, payload.personal.says)}
    [] shown.kind = "solana_message" ->
         /\ Len(payload.instructions) = Len(shown.instructions)
         /\ \A i \in DOMAIN payload.instructions :
              LET ix == payload.instructions[i]  read == shown.instructions[i] IN
              /\ read.program = payload.keys[ix.program + 1] /\ read.data = ix.data
              /\ read.accounts = [j \in DOMAIN ix.accounts |-> LoadedAccounts(payload)[ix.accounts[j] + 1]]
              /\ read.name # "undecoded" => ToSet(ix.data.args) = {read.fields[j][2] : j \in DOMAIN read.fields}
    [] shown.kind = "polymarket_auth_scope" ->
         payload.clob = Owner /\ payload.time \in (at - Window)..(at + Window)

Reviewed(a) == a.shown # None

\* The page and the signature agree.  When a signature is authorized under an
\* approval this Broker reviewed, every payload is the document whose fields
\* the owner was shown: the transaction with that chain, recipient, value,
\* nonce, gas and data; the Safe transaction with that Safe, target and nonce;
\* the typed message with exactly those leaves, no more and no fewer; the
\* Tempo transfers, the voucher, the login, the HyperCore action; a Solana
\* message that does what was read but for its blockhash; an authentication
\* within the window.  A class that needs its own review never passes without
\* one.
SignedWasShown ==
  accepted # None =>
    LET a == accepted.approval  use == accepted.use  shown == a.shown
        class == IF use.claim = None THEN "" ELSE use.claim.class IN
    /\ class = SafeClass \/ message_review_requires_exact(class) => Exact(a.terms) /\ Reviewed(a)
    /\ Reviewed(a) =>
         /\ subject_is_native_evm_transaction(a.terms.subject) => shown.evm # None
         /\ class = SafeClass => shown.safe # None
         /\ message_review_requires_exact(class) \/ class \in PumpClasses \cup {ClobClass} => shown.message # None
         /\ shown.evm # None =>
              /\ Len(shown.evm.shown) = Len(use.payloads)
              /\ \A i \in DOMAIN use.payloads :
                   LET tx == use.payloads[i]  page == shown.evm.shown[i] IN
                   /\ page.chain = tx.chain /\ page.to = tx.to /\ page.value = tx.value /\ page.nonce = tx.nonce
                   /\ page.gas = tx.gas /\ page.price = tx.price /\ page.data = tx.data
         /\ shown.safe # None =>
              LET signed == use.payloads[1]  page == shown.safe.shown[1] IN
              /\ Len(use.payloads) = 1 /\ page.chain = signed.chain /\ page.safe = signed.safe
              /\ page.to = signed.tx.to /\ page.value = signed.tx.value /\ page.operation = signed.tx.operation
              /\ page.nonce = signed.tx.nonce
         /\ shown.message # None => Len(use.payloads) = 1 /\ MessageSays(shown.message.shown, use.payloads[1], accepted.at)

\* A use is judged by what is in force when it is used.  The signature's
\* package and destinations are in the current policy; what executes is in the
\* current catalog as it was when the owner approved it, and declares the
\* class; the derived key's lineage is active and its scope covers the class
\* and the time; no class that needs a full review passes on a standing
\* grant, whoever made it; and no budget is exceeded.
UseIsPermitted ==
  accepted # None =>
    LET a == accepted.approval  use == accepted.use
        record == catalog_provenance(use.provenance)
        claim == IF use.claim # None THEN use.claim ELSE use.system IN
    /\ policy.enabled /\ accepted.at \in a.terms.from..a.terms.expires
    /\ claim # None => claim.dests \subseteq policy.dests /\ claim.class \in DOMAIN record.classes
    /\ a.terms.subject.kind = "petal" => use.provenance.package \in policy.packages
    /\ record # None /\ record.subject.kind = a.terms.subject.kind
    /\ record \in {a.frozen} \cup (IF Exact(a.terms) THEN {} ELSE {g.provenance : g \in a.terms.selector.grants})
    /\ ~Exact(a.terms) => ~message_review_requires_exact(use.claim.class) /\ use.claim.class # SafeClass
    /\ \A scope \in {scoped_key_record(a.terms.key)} \ {None} :
         /\ record.lineage # None /\ record.lineage.active /\ record.lineage.id = scope.lineage
         /\ use.provenance.route \in scope.routes
         /\ ~Exact(a.terms) => use.claim.class \in scope.classes /\ accepted.at <= scope.expires
    /\ a.spent.operations <= a.terms.operations /\ a.spent.signatures <= a.terms.signatures
    /\ \A v \in a.spent.values : \E l \in a.terms.limits : l.asset = v.asset /\ v.amount <= l.lifetime

\* What a signed document pays, and to whom: an EIP-3009 authorization, a
\* HyperCore payment, a native Solana transfer.
Payments(payload) ==
  IF "primary" \in DOMAIN payload
    THEN LET m == payload.message.object IN
         IF payload.primary \in Erc3009 /\ payload.types = [n \in {payload.primary} |-> Erc3009Fields]
              /\ {"chainId", "verifyingContract"} \subseteq DOMAIN payload.domain
           THEN {[asset |-> [chain |-> [evm |-> payload.domain.chainId.uint], token |-> payload.domain.verifyingContract.address],
                  amount |-> m.value.uint]}
         ELSE IF OfHyperCore(payload.domain) /\ payload.primary \in {"UsdSend", "Withdraw"}
           THEN {[asset |-> [chain |-> [venue |-> "hyperliquid"], token |-> "usdc"], amount |-> usdc_base_units(m.amount).uint]}
         ELSE {}
  ELSE IF "instructions" \in DOMAIN payload
    THEN {[asset |-> SolanaNative, amount |-> MapThenSumSet(LAMBDA i : payload.instructions[i].data.args[1].uint,
             {i \in DOMAIN payload.instructions : payload.instructions[i].data.op = "transfer"})]}
  ELSE {}

\* A payment is charged in full.  A payment class authorized with a claim has
\* reserved, in the asset the signed document pays with, at least what it
\* pays (a native transfer also its fee), under a limit the owner saw.
PaymentIsCharged ==
  accepted # None =>
    LET a == accepted.approval  use == accepted.use
        claim == IF use.claim # None THEN use.claim ELSE use.system IN
    claim # None /\ (claim # None => claim.class \in {"gasless.relay", "venice-x402.topup", "hyperliquid.usd_send", "hyperliquid.withdraw",
                                                     "solana.native-transfer"}) =>
      \A i \in DOMAIN use.payloads : \A paid \in Payments(use.payloads[i]) :
        \E v \in accepted.values :
          /\ v.asset = paid.asset
          /\ v.amount >= paid.amount + (IF claim.class = "solana.native-transfer" THEN LamportsPerSignature ELSE 0)

-----------------------------------------------------------------------------
\* Every scalar a call carries, at the place its signature gives it.
ScalarsOf(data) ==
  LET leaves == collect_leaves(Signature[data.fn]).seq IN
  UNION {LET l == leaves[i]  v == data.args[i] IN
         IF l.kind.k # "array" THEN {<<l.path, v>>}
         ELSE UNION {IF "parts" \in DOMAIN v.items[j]
                       THEN {<<l.path \o <<"[]", n, Index[j + 1]>>, v.items[j].parts[n]>> : n \in DOMAIN v.items[j].parts}
                       ELSE {<<l.path \o <<"[]", Index[j + 1]>>, v.items[j]>>} : j \in DOMAIN v.items} :
         i \in DOMAIN leaves}

\* A value the description does not show because it admits only some.
Fixed(cat, ctx, at, v) ==
  LET found == resolve(cat, ctx.chain, ctx.to, ctx.data.fn) IN
  IF found = None THEN FALSE
  ELSE \E c \in found.entry.calls[ctx.data.fn].constraints : v \in c.allowed /\ at \in {c.path} \cup {Append(c.path, Index[i]) : i \in 1..4}

Prefixed(at, shownFields) ==
  {[f EXCEPT !.at = SubSeq(f.at, Len(at) + 1, Len(f.at))] :
     f \in {g \in shownFields : Len(g.at) > Len(at) /\ SubSeq(g.at, 1, Len(at)) = at}}

\* Nothing of the call is left out, nor of any call inside it: each inner call
\* of a batch has its heading and its value.
RECURSIVE Complete(_, _, _)
Complete(cat, ctx, shownFields) ==
  \A s \in ScalarsOf(ctx.data) :
    LET at == s[1]  v == s[2]
        batch == IF "bytes" \in DOMAIN v THEN IF "batch" \in DOMAIN v.bytes THEN v.bytes.batch ELSE <<>> ELSE <<>>
        Inner(a, f) == Complete(cat, [ctx EXCEPT !.to = f.says.on, !.data = f.raw.bytes], Prefixed(a, shownFields)) IN
    \/ Fixed(cat, ctx, at, v)
    \/ IF batch = <<>>
         THEN \E f \in shownFields : f.at = at /\ f.raw = v /\ ("calls" \in DOMAIN f.says => Inner(at, f))
         ELSE \A i \in DOMAIN batch :
                LET to == batch[i].to  sent == batch[i].value IN
                \E f \in shownFields :
                  /\ f.at = Append(at, Index[i]) /\ f.raw = [bytes |-> batch[i].data]
                  /\ IF "calls" \in DOMAIN f.says
                       THEN /\ f.says.on = to /\ Inner(f.at, f)
                            /\ sent # 0 => \E g \in Prefixed(f.at, shownFields) : g.at = ValuePath /\ g.raw = Uint(sent)
                       ELSE f.says = [send |-> sent, to |-> to]

\* The readings of what is about to be written down: the page's EVM calls, and
\* a Safe transaction as the call that runs it.
Readings(cat) ==
  IF pending = None THEN {}
  ELSE LET r == pending.request  shown == pending.shown IN
       (IF shown.evm = None THEN {}
        ELSE {[ctx |-> CallOf(r.evm[i]), reading |-> shown.evm.shown[i].reading, evidence |-> shown.evm.evidence] : i \in DOMAIN r.evm})
       \cup (IF shown.safe = None THEN {}
             ELSE LET e == r.safe[1]  ctx == [chain |-> e.chain, to |-> e.safe, value |-> 0, data |-> exec_calldata(e)] IN
                  {[ctx |-> ctx, reading |-> review_call(cat, ctx), evidence |-> shown.safe.shown[1].action.evidence]})

\* A call that is read is read whole.  Every argument, every element of every
\* array and every call embedded in it is on the page with the bytes that are
\* signed, or is fixed by the description; and when the evidence of the whole
\* review claims to rest on listed contracts, no call of it reaches another.
ReadingIsComplete ==
  \A cat \in {ClearSigningBuild} : \A r \in Readings(cat) : r.reading \notin {None, Refused} =>
    /\ Complete(cat, r.ctx, r.reading.fields)
    /\ r.evidence # None /\ (r.evidence # None => r.evidence.assurance = "trusted") =>
         /\ Listed(cat, r.ctx.chain, r.ctx.to)
         /\ \A f \in r.reading.fields : "calls" \in DOMAIN f.says => Listed(cat, r.ctx.chain, f.says.on)

\* The calls a batch library makes for a Safe, with the Safe's own authority.
Batched(e) ==
  IF /\ e.tx.operation = 1 /\ e.chain \in SafeChains /\ e.tx.to \in SafeLibraries.batch
     /\ Fn(e.tx.data) = "multiSend" /\ "batch" \in DOMAIN e.tx.data.args[1].bytes
    THEN {c \in Range(e.tx.data.args[1].bytes.batch) : c.op = 0} ELSE {}

\* What can change a Safe: a call to it, other code it delegates to, or a batch
\* with a call to an address that stands for it.
Reconfigures(e, itself) ==
  \/ e.tx.to = e.safe
  \/ e.tx.operation = 1 /\ e.tx.to \notin SafeLibraries.batch \cup SafeLibraries.create
  \/ \E c \in Batched(e) : c.to \in itself

\* The batch library of Safe 1.5.0 reads a zero address as the Safe, which
\* safe_batch knows and can_reconfigure_safe does not.
UnseenSelfCall(e) == Reconfigures(e, {e.safe, ZeroAddress}) /\ ~Reconfigures(e, {e.safe})

\* A Safe is not changed blindly.  A Safe transaction that can change the
\* Safe's owners, modules or code, itself or through a batch, is shown as the
\* action it is or is refused; only one that cannot may be approved unread.
\* The exception is a batch that calls the Safe by a zero address only: the
\* reader never shows such a batch as read, and it is approved unread.
NoBlindReconfiguration ==
  pending # None => (pending.shown.safe # None =>
    LET e == pending.request.safe[1]
        opaque == pending.shown.safe.shown[1].action.opaque IN
    /\ Reconfigures(e, {e.safe, ZeroAddress}) /\ ~UnseenSelfCall(e) => ~opaque
    /\ UnseenSelfCall(e) => opaque)

\* A shortcut is shown as it runs.  Whatever the calls return, a step the
\* reader showed with fixed arguments or a fixed value is the call the machine
\* then makes.
ShortcutReadsWhatRuns ==
  vm # None =>
    (vm.at \in DOMAIN vm.steps => Faithful(vm.steps[vm.at], vm.program.commands[vm.at], vm.contents))
=============================================================================
