---------------------------- MODULE MessageReview ----------------------------
(***************************************************************************)
(* What the owner is shown of a message before an exact approval           *)
(* (crates/bloom-broker/src/message_review.rs and its readers tempo.rs,    *)
(* hyperliquid.rs, polymarket.rs and polymarket_auth.rs), and the two      *)
(* readers that run when a standing grant is used.                         *)
(*                                                                         *)
(* An envelope describes what is signed; the reader rebuilds the preimage  *)
(* from it and shows fields of it.  A preimage is the document that is     *)
(* hashed, so equal preimages are equal signatures.  Leaves are records    *)
(* named by their kind; numbers are already coerced to one spelling.       *)
(***************************************************************************)
EXTENDS TransactionReview

CONSTANTS
  MaxDepth,     \* MAX_DEPTH
  MaxCalls,     \* calls of a Tempo transaction or of a wallet batch
  Escrow,       \* the escrow of each reviewed Tempo chain
  KnownTokens,  \* <<chain, address>> with compiled units
  Permit2,      \* the Permit2 contract
  Proxy,        \* the x402 Permit2 proxy
  Exchange,     \* Polymarket exchange by neg-risk choice
  Polygon,      \* chain 137
  UsdcDecimals, \* 6
  Window        \* WINDOW_SECONDS of a CLOB authentication

HalfWord == 2^(WordBits \div 2)
Schema == "bloom.message.review.v1"
Leaf(path, value) == [path |-> path, value |-> value]
Address(a) == [address |-> a]
Text(t) == [text |-> t]

\* A review: what kind of message it is and everything that is shown of it.
MessageShown(kind, primary, domain, fields, payment) ==
  [kind |-> kind, primary |-> primary, domain |-> domain, fields |-> fields, payment |-> payment, calls |-> <<>>]
Decoded(preimage, review) == [preimage |-> preimage, review |-> review]

known_token(chain, address) == <<chain, address>> \in KnownTokens

\* Units for a listed token, raw units for another.
display_amount(chain, address, n) == IF known_token(chain, address) THEN [units |-> n] ELSE [raw |-> n]

-----------------------------------------------------------------------------
\* Typed data: [root, domain, types, primary, message].  types maps a struct to
\* its fields [name, base, array]; values are leaves, objects or items.

Slot(name, base) == [name |-> name, base |-> base, array |-> FALSE]
Names(fs) == {fs[i].name : i \in DOMAIN fs}

\* No recursive type, no field name twice, bounded depth.
RECURSIVE type_graph(_, _, _)
type_graph(types, name, stack) ==
  name \in DOMAIN types =>
    /\ name \notin stack /\ Cardinality(stack) < MaxDepth
    /\ Cardinality(Names(types[name])) = Len(types[name])
    /\ \A i \in DOMAIN types[name] : type_graph(types, types[name][i].base, stack \cup {name})

\* What is hashed: the declared fields, whatever else the object holds.
RECURSIVE hash_struct(_, _, _)
hash_struct(types, slotOf, v) ==
  IF slotOf.array THEN [items |-> [i \in DOMAIN v.items |-> hash_struct(types, [slotOf EXCEPT !.array = FALSE], v.items[i])]]
  ELSE IF slotOf.base \in DOMAIN types
    THEN [object |-> [n \in Names(types[slotOf.base]) |->
            hash_struct(types, CHOOSE f \in ToSet(types[slotOf.base]) : f.name = n, v.object[n])]]
  ELSE v

JoinFields(parts) == IF Refused \in parts THEN Refused ELSE [shown |-> UNION {p.shown : p \in parts}]

\* Every leaf of the message with its path; Refused when it does not have the
\* declared type or holds a field that is not signed.
\* Mutant: a field beside the declared ones is shown like them.
RECURSIVE fields_Beside(_, _, _, _)
fields_Beside(types, slotOf, v, path) ==
  IF slotOf.array
    THEN IF v.items = <<>> THEN [shown |-> {Leaf(path, [items |-> <<>>])}]
         ELSE JoinFields({fields_Beside(types, [slotOf EXCEPT !.array = FALSE], v.items[i], Append(path, Index[i])) : i \in DOMAIN v.items})
  ELSE IF slotOf.base \in DOMAIN types
    THEN IF ~(Names(types[slotOf.base]) \subseteq DOMAIN v.object) THEN Refused
         ELSE JoinFields({[shown |-> {Leaf(Append(path, n), v.object[n])}] : n \in DOMAIN v.object \ Names(types[slotOf.base])}
                \cup {fields_Beside(types, f, v.object[f.name], Append(path, f.name)) : f \in ToSet(types[slotOf.base])})
  ELSE [shown |-> {Leaf(path, v)}]

RECURSIVE fields(_, _, _, _)
fields(types, slotOf, v, path) ==
  IF slotOf.array
    THEN IF "items" \notin DOMAIN v THEN Refused
         ELSE IF v.items = <<>> THEN [shown |-> {Leaf(path, [items |-> <<>>])}]
         ELSE JoinFields({fields(types, [slotOf EXCEPT !.array = FALSE], v.items[i], Append(path, Index[i])) : i \in DOMAIN v.items})
  ELSE IF slotOf.base \in DOMAIN types
    THEN IF "object" \notin DOMAIN v \/ DOMAIN v.object # Names(types[slotOf.base]) THEN Refused
         ELSE JoinFields({fields(types, f, v.object[f.name], Append(path, f.name)) : f \in ToSet(types[slotOf.base])})
  ELSE IF slotOf.base \in DOMAIN v THEN [shown |-> {Leaf(path, v)}] ELSE Refused

RECURSIVE Reached(_, _)
Reached(types, name) ==
  IF name \notin DOMAIN types THEN {}
  ELSE {name} \cup UNION {Reached(types, types[name][i].base) : i \in DOMAIN types[name]}
encode_type(typed) == [n \in Reached(typed.types, typed.primary) |-> typed.types[n]]

\* The value of a signed leaf.
Signed(typed, path) == IF Len(path) = 1 THEN typed.message.object[path[1]]
                       ELSE typed.message.object[path[1]].object[path[2]]

-----------------------------------------------------------------------------
\* The two payment forms whose payee and amount the signature fixes.

Erc3009 == {"TransferWithAuthorization", "ReceiveWithAuthorization"}
Erc3009Fields == <<Slot("from", "address"), Slot("to", "address"), Slot("value", "uint"), Slot("validAfter", "uint"),
                   Slot("validBefore", "uint"), Slot("nonce", "uint")>>
Permit2Types ==
  [PermitWitnessTransferFrom |-> <<Slot("permitted", "TokenPermissions"), Slot("spender", "address"), Slot("nonce", "uint"),
                                   Slot("deadline", "uint"), Slot("witness", "Witness")>>,
   TokenPermissions |-> <<Slot("token", "address"), Slot("amount", "uint")>>,
   Witness |-> <<Slot("to", "address"), Slot("validAfter", "uint")>>]

payment_review(chain, token, from, to, amount, after, before) ==
  IF before <= after THEN Refused
  ELSE [chain |-> chain, token |-> token, from |-> from, recipient |-> to, amount |-> amount,
        display |-> display_amount(chain, token, amount), after |-> after, before |-> before]

payment(typed) ==
  LET at(path) == Signed(typed, path)
      d == typed.domain  chained == "chainId" \in DOMAIN d  bound == "verifyingContract" \in DOMAIN d IN
  IF typed.primary = "PermitWitnessTransferFrom" /\ encode_type(typed) = Permit2Types
    THEN IF /\ DOMAIN d = {"name", "chainId", "verifyingContract"} /\ d.name = Text("Permit2")
            /\ d.verifyingContract = Address(Permit2) /\ at(<<"spender">>) = Address(Proxy)
           THEN payment_review(d.chainId.uint, at(<<"permitted", "token">>).address, Owner, at(<<"witness", "to">>).address,
                               at(<<"permitted", "amount">>).uint, at(<<"witness", "validAfter">>).uint, at(<<"deadline">>).uint)
           ELSE None
  ELSE IF typed.primary \in Erc3009 /\ encode_type(typed) = [n \in {typed.primary} |-> Erc3009Fields]
    THEN IF at(<<"from">>) # Address(Owner) THEN Refused
         ELSE IF ~chained \/ ~bound THEN None
         ELSE payment_review(d.chainId.uint, d.verifyingContract.address, Owner, at(<<"to">>).address, at(<<"value">>).uint,
                             at(<<"validAfter">>).uint, at(<<"validBefore">>).uint)
  ELSE None

-----------------------------------------------------------------------------
\* hyperliquid.rs.  An amount is text: [decimal |-> [whole, fraction]] with
\* the digits of the fraction.

Digits(ds) == FoldLeft(LAMBDA acc, d : 10 * acc + d, 0, ds)

\* Base units of a decimal text; Refused when it has more precision.
usdc_base_units(v) ==
  IF "decimal" \notin DOMAIN v THEN Refused
  ELSE LET fraction == v.decimal.fraction
           kept == SubSeq(fraction, 1, IF Len(fraction) < UsdcDecimals THEN Len(fraction) ELSE UsdcDecimals)
           padded == kept \o [i \in 1..(UsdcDecimals - Len(kept)) |-> 0] IN
       IF \E i \in DOMAIN fraction : i > UsdcDecimals /\ fraction[i] # 0 THEN Refused
       ELSE Uint(v.decimal.whole * 10^UsdcDecimals + Digits(padded))

HyperDomain == [name |-> Text("HyperliquidSignTransaction"), version |-> Text("1"), chainId |-> Uint(421614),
                verifyingContract |-> Address(ZeroAddress)]
HyperTypes ==
  [ApproveAgent |-> <<Slot("hyperliquidChain", "text"), Slot("agentAddress", "address"), Slot("nonce", "uint")>>,
   UsdSend |-> <<Slot("hyperliquidChain", "text"), Slot("destination", "address"), Slot("amount", "decimal"), Slot("time", "uint")>>,
   Withdraw |-> <<Slot("hyperliquidChain", "text"), Slot("destination", "address"), Slot("amount", "decimal"), Slot("time", "uint")>>,
   UsdClassTransfer |-> <<Slot("hyperliquidChain", "text"), Slot("amount", "decimal"), Slot("nonce", "uint")>>]

\* A salt beside the four members is not looked at.
OfHyperCore(domain) == \A m \in DOMAIN HyperDomain : m \in DOMAIN domain /\ (m \in DOMAIN domain => domain[m] = HyperDomain[m])

\* A HyperCore user action is recognised by its domain and exact type.  The
\* fixed sentences decorate adds to the page are left out.
decorate(typed, review) ==
  IF /\ OfHyperCore(typed.domain) /\ typed.primary \in DOMAIN HyperTypes
     /\ encode_type(typed) = [n \in {typed.primary} |-> HyperTypes[n]]
     /\ Signed(typed, <<"hyperliquidChain">>) \in {Text("Mainnet"), Text("Testnet")}
    THEN [review EXCEPT !.kind = "hyperliquid_user"] ELSE review

\* An L1 action is [type, leaves, grouping, orders, extra]; the signed agent
\* message commits to it by a hash of its ordered encoding.
rebuild(e) ==
  IF \/ e.network \notin {"mainnet", "testnet"} \/ e.action.extra
     \/ e.action.type \notin {"order", "cancel", "cancelByCloid", "scheduleCancel", "updateLeverage"}
     \/ e.action.type = "order" /\ (e.action.orders = {} \/ e.action.grouping = "other" \/ "both" \in e.action.orders)
    THEN Refused
    ELSE [typed |-> [root |-> "exact", primary |-> "Agent",
            domain |-> [name |-> Text("Exchange"), version |-> Text("1"), chainId |-> Uint(1337), verifyingContract |-> Address(ZeroAddress)],
            types |-> [Agent |-> <<Slot("source", "text"), Slot("connectionId", "hash")>>],
            message |-> [object |-> [source |-> Text(e.network),
                                     connectionId |-> [hash |-> [action |-> e.action, nonce |-> e.nonce, vault |-> e.vault, expires |-> e.expires]]]]],
          fields |-> {Leaf(<<"network">>, Text(e.network)), Leaf(<<"nonce">>, Uint(e.nonce)), Leaf(<<"vault">>, e.vault),
                      Leaf(<<"expires">>, e.expires), Leaf(<<"Action">>, Text(e.action.type))} \cup e.action.leaves]

-----------------------------------------------------------------------------
\* tempo.rs.  A transaction is [form, chain, calls, feeToken, sponsored, gas,
\* nonce, until]; a call is [to, value, input].

\* The arguments when the input calls exactly this function.
words(input, fn) == IF Fn(input) = fn /\ input.form = "exact" THEN [seq |-> input.args] ELSE None
WordAddress(w) == "address" \in DOMAIN w

transfer(call) ==
  LET short == words(call.input, "transfer")  memo == words(call.input, "transferWithMemo")
      args == IF short # None THEN short ELSE memo IN
  IF args # None /\ WordAddress(args.seq[1]) THEN [to |-> args.seq[1].address, amount |-> args.seq[2].uint,
                                                    memo |-> IF short # None THEN {} ELSE {args.seq[3]}] ELSE None

channel_id(payee, token, salt, authorized, escrow, chain) ==
  [payer |-> Owner, payee |-> payee, token |-> token, salt |-> salt, authorized |-> authorized, escrow |-> escrow, chain |-> chain]

\* Strict: no creation, native value, access list, authorization or other chain.
decode_transaction(tx) ==
  /\ tx.form = "exact" /\ Len(tx.calls) <= MaxCalls
  /\ ~(tx.sponsored /\ tx.feeToken # None)
  /\ tx.chain \in DOMAIN Escrow
  /\ \A i \in DOMAIN tx.calls : tx.calls[i].to # Creation /\ tx.calls[i].value = 0

\* A charge: transfers of one token, their total in range.
Charge(tx) ==
  /\ tx.calls # <<>> /\ \A i \in DOMAIN tx.calls : transfer(tx.calls[i]) # None
ChargeFields(tx) ==
  LET total == FoldLeft(LAMBDA acc, c : acc + transfer(c).amount, 0, tx.calls)
      token == tx.calls[1].to IN
  IF (\E i \in DOMAIN tx.calls : tx.calls[i].to # token) \/ total > MaxWord THEN Refused
  ELSE [shown |-> {Leaf(<<"Token">>, Address(token)), Leaf(<<"Total">>, display_amount(tx.chain, token, total))}
          \cup {Leaf(<<"Recipient", Index[i]>>, Address(transfer(tx.calls[i]).to)) : i \in DOMAIN tx.calls}
          \cup {Leaf(<<"Amount", Index[i]>>, display_amount(tx.chain, token, transfer(tx.calls[i]).amount)) : i \in DOMAIN tx.calls}
          \cup UNION {{Leaf(<<"Memo", Index[i]>>, memo) : memo \in transfer(tx.calls[i]).memo} : i \in DOMAIN tx.calls}]

\* A session open: approve the deposit, then open on the known escrow.
OpenFields(tx) ==
  LET approve == words(tx.calls[1].input, "approve")  open == words(tx.calls[2].input, "open")
      escrow == Escrow[tx.chain] IN
  IF Len(tx.calls) # 2 THEN Refused
  ELSE IF approve = None \/ open = None THEN Refused
  ELSE LET payee == open.seq[1]  token == open.seq[2]  deposit == open.seq[3]  salt == open.seq[4]  authorized == open.seq[5] IN
       IF /\ tx.calls[2].to = escrow /\ \A w \in {approve.seq[1], payee, token, authorized} : WordAddress(w)
          /\ approve.seq[1].address = escrow /\ tx.calls[1].to = token.address /\ approve.seq[2] = deposit
          /\ deposit.uint < HalfWord /\ authorized.address = Owner
         THEN [shown |-> {Leaf(<<"Payee">>, payee), Leaf(<<"Token">>, token), Leaf(<<"Escrow">>, Address(escrow)),
                          Leaf(<<"Deposit">>, display_amount(tx.chain, token.address, deposit.uint)),
                          Leaf(<<"Channel">>, channel_id(payee.address, token.address, salt, Owner, escrow, tx.chain))}]
         ELSE Refused

transaction(tx) ==
  IF ~decode_transaction(tx) THEN Refused
  ELSE LET body == IF Charge(tx) THEN ChargeFields(tx) ELSE OpenFields(tx) IN
       IF ~Read(body) THEN Refused
       ELSE Decoded([tempo |-> tx],
              MessageShown("tempo_transaction", "", None,
                body.shown \cup {Leaf(<<"Chain">>, Uint(tx.chain)), Leaf(<<"Nonce">>, Uint(tx.nonce)), Leaf(<<"Until">>, tx.until)}
                  \cup (IF tx.sponsored THEN {Leaf(<<"Fee">>, Text("merchant"))} ELSE {Leaf(<<"Fee">>, Uint(tx.gas)), Leaf(<<"FeeToken">>, tx.feeToken)}),
                None))

\* A voucher's channel is a hash; its details are believed when they hash to it.
voucher(e) ==
  LET d == e.details IN
  IF \/ e.chain \notin DOMAIN Escrow \/ e.cumulative >= HalfWord THEN Refused
  ELSE IF \/ Escrow[e.chain] # e.escrow
          \/ d # None /\ (d.authorized # Owner \/ channel_id(d.payee, d.token, d.salt, d.authorized, e.escrow, e.chain) # e.channel)
    THEN Refused
    ELSE Decoded([voucher |-> [chain |-> e.chain, escrow |-> e.escrow, channel |-> e.channel, cumulative |-> e.cumulative]],
           MessageShown("tempo_voucher", "", None,
             {Leaf(<<"Chain">>, Uint(e.chain)), Leaf(<<"Channel">>, e.channel), Leaf(<<"Escrow">>, Address(e.escrow))}
               \cup (IF d = None THEN {Leaf(<<"Amount">>, [raw |-> e.cumulative])}
                     ELSE {Leaf(<<"Payee">>, Address(d.payee)), Leaf(<<"Token">>, Address(d.token)),
                           Leaf(<<"Amount">>, display_amount(e.chain, d.token, e.cumulative))}), None))
-----------------------------------------------------------------------------
\* The reader of any envelope.  A personal message is [head, tail, account,
\* says]: whether its opening and its remaining lines follow the sign-in
\* grammar.

login_fields(text) ==
  IF ~text.head THEN None
  ELSE IF text.account # Owner THEN Refused
  ELSE IF ~text.tail THEN None
  ELSE [shown |-> {Leaf(<<"Account">>, Address(Owner)), Leaf(<<"Says">>, text.says)}]

DomainKeys == {"name", "version", "chainId", "verifyingContract", "salt"}

decode_typed(typed) ==
  LET shown == fields(typed.types, Slot("", typed.primary), typed.message, <<>>)
      paid == payment(typed) IN
  IF \/ typed.root # "exact" \/ ~(DOMAIN typed.domain \subseteq DomainKeys)
     \/ \E n \in DOMAIN typed.types : ~type_graph(typed.types, n, {})
    THEN Refused
  ELSE IF typed.primary = "EIP712Domain"
    THEN IF typed.message # [object |-> <<>>] THEN Refused
         ELSE Decoded([domain |-> typed.domain, primary |-> typed.primary, types |-> <<>>, message |-> typed.message],
                      MessageShown("eip712", typed.primary, typed.domain, {}, None))
  ELSE IF ~Read(shown) THEN Refused
  ELSE IF paid = Refused THEN Refused
  ELSE Decoded([domain |-> typed.domain, primary |-> typed.primary, types |-> encode_type(typed),
                message |-> hash_struct(typed.types, Slot("", typed.primary), typed.message)],
               decorate(typed, MessageShown("eip712", typed.primary, typed.domain, shown.shown, paid)))

decode_envelope(e) ==
  IF e.schema # Schema THEN Refused
  ELSE CASE e.kind = "hyperliquid_l1" ->
              LET built == rebuild(e)  inner == decode_typed(built.typed) IN
              IF ~Read(built) THEN Refused
              ELSE IF ~Read(inner) THEN Refused
              ELSE Decoded(inner.preimage, [inner.review EXCEPT !.kind = "hyperliquid_l1", !.fields = built.fields])
         [] e.kind = "tempo_transaction" -> transaction(e.tx)
         [] e.kind = "tempo_voucher" -> voucher(e)
         [] e.kind = "eip712" -> decode_typed(e.typed)
         [] e.kind = "personal" ->
              LET login == login_fields(e.text) IN
              IF login = Refused THEN Refused
              ELSE Decoded([personal |-> e.text],
                     IF login = None THEN MessageShown("personal", "", None, {Leaf(<<"message">>, e.text)}, None)
                     ELSE MessageShown("siwe", "", None, login.shown, None))

-----------------------------------------------------------------------------
\* polymarket.rs.  A prepared record is [operation, intent, owner, advertised,
\* data]; the typed data is rebuilt from data alone.

PolymarketClasses == {"polymarket.order.poly1271", "polymarket.relayer_batch", "polymarket.onboard"}

OrderTyped(d) ==
  [root |-> "exact", primary |-> "TypedDataSign",
   domain |-> [name |-> Text("Polymarket CTF Exchange"), version |-> Text("2"), chainId |-> Uint(Polygon),
               verifyingContract |-> Address(Exchange[d.neg])],
   types |-> [TypedDataSign |-> <<Slot("contents", "Order"), Slot("verifyingContract", "address")>>,
              Order |-> <<Slot("salt", "uint"), Slot("maker", "address"), Slot("signer", "address"), Slot("tokenId", "uint"),
                          Slot("makerAmount", "uint"), Slot("takerAmount", "uint"), Slot("side", "uint"), Slot("timestamp", "uint")>>],
   message |-> [object |-> [verifyingContract |-> Address(d.wallet),
     contents |-> [object |-> [salt |-> Uint(d.salt), maker |-> Address(d.wallet), signer |-> Address(d.wallet), tokenId |-> Uint(d.token),
                               makerAmount |-> Uint(d.maker), takerAmount |-> Uint(d.taker), side |-> Uint(d.side),
                               timestamp |-> Uint(d.time)]]]]]

BatchTyped(d) ==
  [root |-> "exact", primary |-> "Batch",
   domain |-> [name |-> Text("DepositWallet"), version |-> Text("1"), chainId |-> Uint(Polygon), verifyingContract |-> Address(d.wallet)],
   types |-> [Batch |-> <<Slot("wallet", "address"), Slot("nonce", "uint"), [Slot("calls", "Call") EXCEPT !.array = TRUE]>>,
              Call |-> <<Slot("target", "address"), Slot("value", "uint"), Slot("data", "bytes")>>],
   message |-> [object |-> [wallet |-> Address(d.wallet), nonce |-> Uint(d.nonce), calls |-> [items |->
     [i \in DOMAIN d.calls |-> [object |-> [target |-> Address(d.calls[i].target), value |-> Uint(d.calls[i].value),
                                            data |-> [bytes |-> d.calls[i].data]]]]]]]]

typed_record(p, class) ==
  LET d == p.data IN
  IF d.chain # Polygon \/ d.extra \/ d.wallet = ZeroAddress THEN Refused
  ELSE IF class = "polymarket.order.poly1271"
    THEN IF p.operation = "order" /\ d.owner = p.owner /\ d.sigtype = 3 /\ d.side \in {0, 1} THEN OrderTyped(d) ELSE Refused
  ELSE IF class = "polymarket.onboard" /\ p.operation # "onboard_approvals" THEN Refused
  ELSE IF Len(d.calls) \in 1..MaxCalls THEN BatchTyped(d) ELSE Refused

\* Each call as far as the catalog reads it; the exact call stays shown.
describe_calls(d, cat) ==
  [i \in DOMAIN d.calls |-> review_call(cat, [chain |-> Polygon, to |-> d.calls[i].target, value |-> d.calls[i].value, data |-> d.calls[i].data])]

decode_prepared(p, class, cat) ==
  LET typed == typed_record(p, class)  inner == decode_typed(typed) IN
  IF p.owner # Owner \/ p.intent # class \/ typed = Refused THEN Refused
  ELSE IF ~Read(inner) THEN Refused
  ELSE IF inner.preimage # p.advertised THEN Refused
  ELSE Decoded(inner.preimage,
         [inner.review EXCEPT !.kind = "polymarket_exact", !.calls = IF "calls" \in DOMAIN p.data THEN describe_calls(p.data, cat) ELSE <<>>])

-----------------------------------------------------------------------------
\* Which classes may be signed without their own review, and what a class
\* requires of the message it names.

SafeClass == "safe.transaction.confirm"
ClobClass == "polymarket.clob_auth.v1"
PumpClasses == {"pumpfun.buy", "pumpfun.sell", "pumpfun.close_token_account", "pumpfun.launch"}
HyperPrimary == [c \in {"hyperliquid.usd_send", "hyperliquid.withdraw", "hyperliquid.approve_agent", "hyperliquid.usd_class_transfer"} |->
  CASE c = "hyperliquid.usd_send" -> "UsdSend" [] c = "hyperliquid.withdraw" -> "Withdraw"
    [] c = "hyperliquid.approve_agent" -> "ApproveAgent" [] OTHER -> "UsdClassTransfer"]
HyperAction == [c \in {"hyperliquid.order", "hyperliquid.cancel", "hyperliquid.cancel_by_cloid", "hyperliquid.schedule_cancel",
                       "hyperliquid.update_leverage"} |->
  CASE c = "hyperliquid.order" -> "order" [] c = "hyperliquid.cancel" -> "cancel" [] c = "hyperliquid.cancel_by_cloid" -> "cancelByCloid"
    [] c = "hyperliquid.schedule_cancel" -> "scheduleCancel" [] OTHER -> "updateLeverage"]
MessageClasses == {"gasless.relay", "venice-x402.topup", "venice-x402.chat", "venice-x402.balance"} \cup DOMAIN HyperPrimary \cup DOMAIN HyperAction
message_review_requires_exact(class) == class \in MessageClasses \cup PolymarketClasses

\* The classes a reusable selector covers, on any of its routes.
Covered(selector) == UNION {g.classes : g \in selector.grants} \cup selector.classes
ClobScope(terms) == ~Exact(terms) /\ ClobClass \in Covered(terms.selector)
PumpScope(terms) == ~Exact(terms) /\ Covered(terms.selector) \cap PumpClasses # {}

\* Checked when an approval is prepared and each time one is used.
validate_selector(terms, claim) ==
  /\ ~Exact(terms) => \A c \in Covered(terms.selector) : c # SafeClass /\ ~message_review_requires_exact(c)
  /\ claim # None => (claim.class = ClobClass => ClobScope(terms))

\* A HyperCore payment is the one debit and destination the claim declares.
validate_payment(req, review, class) ==
  class \in {"hyperliquid.usd_send", "hyperliquid.withdraw"} =>
    LET at(name) == (CHOOSE f \in review.fields : f.path = <<name>>).value
        amount == usdc_base_units(at("amount"))
        place == [venue |-> IF class = "hyperliquid.withdraw" THEN "arbitrum" ELSE "hyperliquid"] IN
    /\ amount # Refused
    /\ \E d \in req.petal.debits : /\ req.petal.debits = {d} /\ d.asset = [chain |-> [venue |-> "hyperliquid"], token |-> "usdc"]
                                   /\ d.amount = amount.uint /\ [asset |-> d.asset, lifetime |-> amount.uint] \in req.limits
    /\ req.petal.dests = {<<place, at("destination").address>>}

validate_petal_profile(req, review) ==
  req.petal # None =>
    LET class == req.petal.class  paid == review.payment
        needs == class = "gasless.relay" \/ (class = "venice-x402.topup" /\ review.kind # "siwe") IN
    /\ class \in PolymarketClasses => review.kind = "polymarket_exact" /\ Unpriced(req.petal)
    /\ class \in DOMAIN HyperPrimary => /\ review.kind = "hyperliquid_user" /\ review.primary = HyperPrimary[class]
                                        /\ validate_payment(req, review, class)
    /\ class \in DOMAIN HyperAction => review.kind = "hyperliquid_l1" /\ Leaf(<<"Action">>, Text(HyperAction[class])) \in review.fields
    /\ class \in {"venice-x402.chat", "venice-x402.balance"} => review.kind = "siwe"
    /\ needs => /\ paid # None /\ review.primary \in Erc3009
                /\ \E d \in req.petal.debits :
                     /\ req.petal.debits = {d} /\ d.asset = [chain |-> [evm |-> paid.chain], token |-> paid.token] /\ d.amount = paid.amount
                     /\ [asset |-> d.asset, lifetime |-> paid.amount] \in req.limits
                /\ class = "venice-x402.topup" => req.petal.dests = {<<[evm |-> paid.chain], paid.recipient>>}

is_system_x402(subject) == subject.kind = "system" /\ subject.class = "paid-http.x402"
is_system_mpp(subject) == subject.kind = "system" /\ subject.class = "paid-http.mpp"

\* A message that was read is what the request binds and pays for.
MessagePage(req, read) ==
  IF read = Refused THEN Refused
  ELSE IF /\ req.selector.digests = <<read.preimage>> /\ req.selector.hashes = <<read.preimage>>
          /\ is_system_x402(req.subject) => read.review.payment # None
          /\ is_system_mpp(req.subject) = (read.review.kind \in {"tempo_transaction", "tempo_voucher"})
          /\ validate_petal_profile(req, read.review)
    THEN Accept(read.review) ELSE Refused

message_review(req, cat) ==
  IF req.message = <<>> THEN None
  ELSE LET class == IF req.petal = None THEN "" ELSE req.petal.class IN
       IF \/ ~(is_system_x402(req.subject) \/ is_system_mpp(req.subject) \/ req.subject.kind = "petal")
          \/ req.evm # <<>> \/ req.safe # <<>> \/ ~Exact(req) \/ req.suites # SecpSuite
          \/ Len(req.message) # 1 \/ Len(req.selector.digests) # 1 \/ Len(req.selector.hashes) # 1
         THEN Refused
         ELSE MessagePage(req, IF class \in PolymarketClasses THEN decode_prepared(req.message[1], class, cat)
                               ELSE decode_envelope(req.message[1]))

-----------------------------------------------------------------------------
\* Uses of a standing grant, read when they are signed.

\* polymarket_auth.rs: one authentication message, whose time is free within a
\* window around Broker time.
validate_scope_clob(terms) ==
  /\ ~Exact(terms) /\ terms.subject.kind = "petal" /\ terms.selector.classes = {ClobClass} /\ terms.selector.grants = {}
  /\ terms.suites = SecpSuite /\ terms.operations = 1 /\ terms.signatures = 1 /\ terms.limits = {}
validate_claim_clob(claim) == claim.class = ClobClass /\ claim.suite = "secp256k1" /\ Unpriced(claim)
clob_preimage(owner, time) == [clob |-> owner, time |-> time]

clob_review(terms) ==
  IF ~validate_scope_clob(terms) THEN Refused ELSE Accept(MessageShown("polymarket_auth_scope", "", None, {Leaf(<<"Window">>, Uint(Window))}, None))

clob_verify_use(terms, use, now) ==
  /\ validate_scope_clob(terms)
  /\ use.claim # None /\ validate_claim_clob(use.claim) /\ use.suite = "secp256k1"
  /\ Len(use.payloads) = 1
  /\ \E t \in (IF now < Window THEN 0 ELSE now - Window)..(now + Window) : use.payloads[1] = clob_preimage(Owner, t)

AgentClass == "hyperliquid.agent_action"
verify_hyperliquid_agent_use(use) ==
  /\ use.claim # None /\ use.claim.class = AgentClass /\ use.suite = "secp256k1" /\ use.claim.suite = use.suite /\ Unpriced(use.claim)
  /\ use.evidence # None
  /\ LET read == decode_envelope(use.evidence) IN
     IF read = Refused THEN FALSE
     ELSE read.review.kind = "hyperliquid_l1" /\ use.payloads = <<read.preimage>>
=============================================================================
