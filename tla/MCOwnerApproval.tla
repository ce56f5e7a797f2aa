---------------------------- MODULE MCOwnerApproval ----------------------------
EXTENDS OwnerApproval

\* Functions a call may name, with their parameters.
P(n, ty) == [name |-> <<n>>, ty |-> ty]
A(n) == P(n, [k |-> "address"])
U(n) == P(n, [k |-> "uint", bits |-> 8])
B(n) == P(n, [k |-> "bytes"])
Functions ==
  [transfer |-> <<A("who"), U("amount")>>, approve |-> <<A("who"), U("amount")>>,
   transferWithMemo |-> <<A("who"), U("amount"), U("memo")>>,
   open |-> <<A("payee"), A("token"), U("deposit"), U("salt"), A("authorized")>>,
   execTransaction |-> <<A("to"), U("value"), B("data"), U("operation")>>,
   multiSend |-> <<B("transactions")>>,
   swap |-> <<A("token"), P("amount", [k |-> "uint", bits |-> 4]), P("tag", [k |-> "fixed", size |-> 4])>>,
   pay |-> <<P("legs", [k |-> "array", of |-> [k |-> "tuple", of |-> <<A("who"), U("amount")>>]]),
             P("pair", [k |-> "list", n |-> 2, of |-> [k |-> "uint", bits |-> 8]])>>,
   forward |-> <<A("target"), U("sent"), B("call")>>,
   deposit |-> <<U("assets"), A("receiver")>>,
   route |-> <<U("kind"), B("input"), B("program")>>]
Selectors == [fn \in DOMAIN Functions |-> fn]

Always(path, format, ref, amount) ==
  [path |-> path, rule |-> "always", allowed |-> {}, format |-> format, ref |-> ref, amount |-> amount]
Must(path, values) == [Always(path, "raw", <<>>, <<>>) EXCEPT !.rule = "mustMatch", !.allowed = values]
Raw(path) == Always(path, "raw", <<>>, <<>>)
Tag(tail) == [fixed |-> "tag", tail |-> tail]
Doc(kind, address, enums, formats) ==
  [document |-> [deployments |-> IF kind = "standard" THEN {} ELSE {<<1, address>>}, enums |-> enums, formats |-> formats, extra |-> FALSE],
   binding |-> [kind |-> kind, address |-> address]]

SwapFields == <<Always(<<"token">>, "addressName", <<>>, <<>>), Always(<<"amount">>, "tokenAmount", <<"token">>, <<>>), Raw(<<"tag">>)>>
DexDoc == Doc("listed", "dex", <<>>,
  [swap |-> SwapFields,
   pay |-> <<Always(<<"legs", "[]", "who">>, "addressName", <<>>, <<>>), Raw(<<"legs", "[]", "amount">>), Raw(<<"pair", "[0]">>),
             Must(<<"pair", "[1]">>, {Uint(0)})>>,
   forward |-> <<Always(<<"target">>, "addressName", <<>>, <<>>), Always(<<"sent">>, "amount", <<>>, <<>>),
                 Always(<<"call">>, "calldata", <<"target">>, <<"sent">>)>>])
PartialDoc == Doc("listed", "dex", <<>>, [swap |-> SubSeq(SwapFields, 1, 2)])
SafeDoc == Doc("standard", "", [x \in {<<"op">>} |-> {Uint(0), Uint(1)}],
  [execTransaction |-> <<Always(<<"to">>, "addressName", <<>>, <<>>), Always(<<"value">>, "amount", <<>>, <<>>),
                         Always(<<"data">>, "calldata", <<"to">>, <<"value">>), Always(<<"operation">>, "enum", <<"op">>, <<>>)>>])
VaultDoc == Doc("instances", "vault", <<>>,
  [deposit |-> <<Always(<<"assets">>, "vaultAssetAmount", TargetPath, <<>>), Always(<<"receiver">>, "addressName", <<>>, <<>>)>>])
EnsoDoc == Doc("upgradeable", "enso", <<>>,
  [route |-> <<Always(ValuePath, "amount", <<>>, <<>>), Raw(<<"kind">>), Always(<<"input">>, "ensoToken", <<"kind">>, <<>>),
               Always(<<"program">>, "ensoShortcut", <<>>, <<>>)>>])

Tokens == [k \in {<<1, "usd">>, <<42, "pusd">>} |-> [upgradeable |-> FALSE]]
Vaults == [k \in {<<1, "vault">>} |-> "usd"]
ClearBuilds ==
  [main |-> build({DexDoc, SafeDoc, VaultDoc, EnsoDoc}, Tokens, Vaults),
   partial |-> build({PartialDoc, SafeDoc}, Tokens, [k \in {} |-> ""])]

-----------------------------------------------------------------------------
\* Calls.

Call(fn, args) == [fn |-> fn, args |-> args, form |-> "exact"]
Bytes(d) == [bytes |-> d]
Transfer(who, n) == Call("transfer", <<Address(who), Uint(n)>>)
Leg(who, n) == [parts |-> [who |-> Address(who), amount |-> Uint(n)]]
Batch(calls) == Call("multiSend", <<Bytes([batch |-> calls, cut |-> FALSE])>>)
Sub(op, to, value, data) == [op |-> op, to |-> to, value |-> value, data |-> data]

Slot1 == Word(Address("bob"))
Slot2 == Word([uint |-> 3])
Cmd(args, output, at) ==
  [kind |-> "call", target |-> "usd", selector |-> "transfer", raw |-> 0, value |-> 0, args |-> args, output |-> output, slot |-> at]
Arg(n) == [slot |-> n, dynamic |-> FALSE]
Program(cmds) == [entry |-> "executeShortcut", canonical |-> TRUE, commands |-> cmds, initial |-> <<Slot1, Slot2>>]
Commands ==
  {Cmd(<<Arg(1), Arg(2)>>, "none", 0), Cmd(<<Arg(1), Arg(2)>>, "slot", 2), Cmd(<<Arg(1), Arg(2)>>, "state", 0),
   [Cmd(<<[state |-> TRUE]>>, "slot", 1) EXCEPT !.selector = "swap"],
   [Cmd(<<[members |-> <<Arg(2), Arg(1)>>, length |-> 2], Arg(1)>>, "none", 0) EXCEPT !.selector = "pay"],
   [Cmd(<<>>, "none", 0) EXCEPT !.raw = 1], [Cmd(<<Arg(1)>>, "slot", 1) EXCEPT !.value = 2],
   [Cmd(<<>>, "none", 0) EXCEPT !.kind = "delegatecall"], Cmd(<<Arg(3)>>, "none", 0)}
Programs == UNION {{Program(c) : c \in [1..n -> Commands]} : n \in 1..3}

Amounts == {0, 9, 255}
SwapCalls == {Call("swap", <<Address(t), Uint(n), g>>) : t \in {"usd", "junk"}, n \in {3, 200}, g \in {Tag(0), Tag(1)}}
PayCalls == {Call("pay", <<[items |-> legs], Uint(1), Uint(p)>>) :
               legs \in {<<>>, <<Leg("bob", 2)>>, <<Leg("bob", 2), Leg("eve", 3)>>}, p \in {0, 1}}
Inner == {NoData, Transfer("bob", 9), [Transfer("bob", 9) EXCEPT !.form = "padded"], Call("deposit", <<Uint(4), Address("bob")>>)}
         \cup {c \in SwapCalls : c.args[2].uint = 3}
ForwardCalls(inner) == {Call("forward", <<Address(t), Uint(v), Bytes(d)>>) : t \in {"usd", "junk", "dex", "vault"}, v \in {0, 5}, d \in inner}
RouteCalls == {Call("route", <<Uint(k), Bytes(i), Bytes(p)>>) : k \in {0, 1, 2}, i \in {[token |-> "usd", amount |-> 4], [amount |-> 4], NoData},
                 p \in {Program(<<Cmd(<<Arg(1), Arg(2)>>, "slot", 2), Cmd(<<Arg(1), Arg(2)>>, "none", 0)>>), NoData}}
Erc20Calls == {Transfer(w, n) : w \in {"bob", "usd", ZeroAddress}, n \in Amounts} \cup {Call("approve", <<Address("bob"), Uint(n)>>) : n \in Amounts}
BatchCalls == {Batch(s) : s \in {<<Sub(0, "usd", 0, Transfer("bob", 9))>>, <<Sub(0, "bob", 5, NoData), Sub(0, "usd", 0, Transfer("eve", 1))>>,
                                 <<Sub(0, "safe", 0, Transfer("eve", 1))>>, <<Sub(0, ZeroAddress, 0, Transfer("eve", 1))>>,
                                  <<Sub(0, "junk", 0, [fn |-> "enable", args |-> <<>>, form |-> "exact"])>>,
                                 <<Sub(0, "usd", 0, Transfer("bob", 9)), Sub(0, "safe", 0, [fn |-> "enable", args |-> <<>>, form |-> "exact"])>>,
                                 <<Sub(1, "dex", 0, Transfer("bob", 9))>>, <<>>}}
Unknown == [fn |-> "enable", args |-> <<>>, form |-> "exact"]

Tx(to, value, data) ==
  [type |-> "eip1559", form |-> "exact", chain |-> 1, to |-> to, value |-> value, nonce |-> 7, gas |-> 2, price |-> 3, data |-> data]
ReadTxs ==
  {Tx("dex", v, c) : v \in {0, 1}, c \in SwapCalls \cup PayCalls \cup ForwardCalls(Inner) \cup ForwardCalls({f \in ForwardCalls(Inner) : f.args[1] = Address("dex")})}
  \cup {Tx("enso", v, c) : v \in {0, 4}, c \in RouteCalls}
  \cup {Tx(t, 0, c) : t \in {"usd", "junk"}, c \in Erc20Calls}
  \cup {Tx(t, 0, Call("deposit", <<Uint(4), Address("bob")>>)) : t \in {"vault", "junk"}}
  \cup {Tx(t, 0, c) : t \in {"batch"}, c \in BatchCalls}

-----------------------------------------------------------------------------
\* Requests, claims, uses.

Key(spec, id) == [spec |-> spec, id |-> id]
EvmKey == Key("secp256k1", "main")
SolKey == Key("ed25519", "sol")
PetalKey == Key("secp256k1", "derived")

Record(subject, classes, lineage) == [subject |-> subject, classes |-> classes, lineage |-> lineage]
NoFee(classes) == [c \in classes |-> None]
Cli == [kind |-> "cli", component |-> "bloom-cli", class |-> "transaction.confirm"]
System(class) == [kind |-> "system", component |-> "bloom-machine", class |-> class]
PetalAt(route) == [kind |-> "petal", package |-> "pkg", route |-> route]
Petal(route) == [kind |-> "petal", package |-> "pkg", route |-> route, agent |-> ""]

ExactOf(payloads) == [kind |-> "exact", digests |-> payloads, hashes |-> payloads]
Standing(classes, grants) == [kind |-> "petal", classes |-> classes, grants |-> grants, required |-> "machine"]

Request(subject, selector, record) ==
  [subject |-> subject, selector |-> selector, suites |-> SecpSuite, operations |-> 1, signatures |-> 1, limits |-> {},
   policy |-> 1, provenance |-> record, from |-> 0, expires |-> 2, key |-> EvmKey,
   evm |-> <<>>, safe |-> <<>>, message |-> <<>>, petal |-> None, system |-> None, reported |-> None]
Use(subject, payloads) ==
  [provenance |-> subject, key |-> EvmKey, suite |-> "secp256k1", payloads |-> payloads, claim |-> None, system |-> None, evidence |-> None]
Claim(class, route, payload) ==
  [class |-> class, suite |-> "secp256k1", package |-> "pkg", route |-> route, digest |-> <<payload>>, hashes |-> <<payload>>,
   debits |-> {}, dests |-> {}, fee |-> None, assurance |-> "machine"]

Evm(chain) == [evm |-> chain]
OpenPolicy ==
  [version |-> 1, packages |-> {"pkg"}, lifetime |-> 2, enabled |-> TRUE, verifiers |-> {},
   dests |-> {<<Evm(1), "exact">>, <<Evm(1), "bob">>, <<[venue |-> "hyperliquid"], "bob">>, <<[venue |-> "solana"], "dest">>}]
ClosedPolicy == [OpenPolicy EXCEPT !.version = 2, !.dests = {}, !.packages = {}]

World ==
  [build |-> "main", catalog |-> {}, catalogs |-> {}, policy |-> OpenPolicy, policies |-> {}, scope |-> None, requests |-> {}, uses |-> {}, older |-> {},
   programs |-> {}, bound |-> 1]

-----------------------------------------------------------------------------
\* Native transactions: what the page reads, and what is signed.

CliRecord == Record(Cli, NoFee({"transaction.confirm"}), None)
EvmRequest(txs, digests) == [Request(Cli, ExactOf(digests), CliRecord) EXCEPT !.evm = txs, !.signatures = Len(digests)]
ReadingWorld == [World EXCEPT !.catalog = {CliRecord}, !.requests = {EvmRequest(<<t>>, <<t>>) : t \in ReadTxs}]
PartialWorld == [ReadingWorld EXCEPT !.build = "partial"]

Signable ==
  {Tx("bob", 5, NoData), Tx("eve", 5, NoData), Tx(Creation, 0, Unknown), Tx("usd", 0, Transfer("bob", 9)),
   [Tx("bob", 5, NoData) EXCEPT !.type = "eip4844"], [Tx("bob", 5, NoData) EXCEPT !.nonce = 8]}
Reported == [address |-> "junk", plain |-> TRUE]
NativeWorld ==
  [World EXCEPT !.catalog = {CliRecord}, !.policies = {ClosedPolicy}, !.bound = 2,
     !.requests = {EvmRequest(<<t>>, <<u>>) : t, u \in Signable}
                    \cup {EvmRequest(<<Tx("bob", 5, NoData), t>>, <<Tx("bob", 5, NoData), t>>) : t \in {Tx("eve", 5, NoData)}}
                    \cup {[EvmRequest(<<t>>, <<t>>) EXCEPT !.reported = Reported] : t \in {Tx("junk", 0, Transfer("bob", 9))}}
                    \cup {[EvmRequest(<<>>, <<Tx("bob", 5, NoData)>>) EXCEPT !.policy = v] : v \in {1, 2}},
     !.uses = {Use(Cli, <<t>>) : t \in Signable} \cup {Use(Cli, <<Tx("bob", 5, NoData), Tx("eve", 5, NoData)>>)}]

-----------------------------------------------------------------------------
\* Safe transactions.

SafeTx(to, value, data, op) == [to |-> to, value |-> value, data |-> data, operation |-> op, refund |-> FALSE, nonce |-> 3]
Envelope(tx) == [form |-> "exact", schema |-> "bloom.safe.review.v1", chain |-> 1, safe |-> "safe", owner |-> Owner, tx |-> tx, report |-> "any"]
SafeTxs == {SafeTx(t, v, d, op) : t \in {"usd", "safe", "batch", "junk", "create"}, v \in {0, 2}, op \in {0, 1},
              d \in {NoData, Unknown, Transfer("bob", 9)} \cup BatchCalls}
SafeRecord == Record(PetalAt("safe"), NoFee({SafeClass}), None)
SafeClaim(tx) == Claim(SafeClass, "safe", safe_preimage(Envelope(tx)))
SafeRequest(tx, signed) ==
  [Request(Petal("safe"), ExactOf(<<safe_preimage(Envelope(signed))>>), SafeRecord) EXCEPT !.safe = <<Envelope(tx)>>, !.petal = SafeClaim(signed)]
SafeReading == [World EXCEPT !.catalog = {SafeRecord}, !.requests = {SafeRequest(t, t) : t \in SafeTxs}]
SafeSigned == {SafeTx("usd", 0, Transfer("bob", 9), 0), SafeTx("usd", 0, Transfer("eve", 9), 0)}
SafeWorld ==
  [World EXCEPT !.catalog = {SafeRecord}, !.catalogs = {{Record(PetalAt("safe"), NoFee({"other"}), None)}}, !.policies = {ClosedPolicy},
     !.requests = {SafeRequest(t, u) : t, u \in SafeSigned}
       \cup {[SafeRequest(SafeTx("usd", 0, Transfer("bob", 9), 0), SafeTx("usd", 0, Transfer("bob", 9), 0)) EXCEPT !.safe = <<>>]},
     !.uses = {[Use(PetalAt("safe"), <<safe_preimage(Envelope(t))>>) EXCEPT !.claim = SafeClaim(t)] : t \in SafeSigned}]

-----------------------------------------------------------------------------
\* Messages.

Typed(primary, types, domain, message) ==
  [root |-> "exact", primary |-> primary, types |-> types, domain |-> domain, message |-> [object |-> message]]
TypedEnvelope(t) == [schema |-> Schema, kind |-> "eip712", typed |-> t]
UsdDomain == [name |-> Text("USD"), chainId |-> Uint(1), verifyingContract |-> Address("usd")]
Pay3009(to, n, before) ==
  Typed("TransferWithAuthorization", [TransferWithAuthorization |-> Erc3009Fields], UsdDomain,
        [from |-> Address(Owner), to |-> Address(to), value |-> Uint(n), validAfter |-> Uint(0), validBefore |-> Uint(before), nonce |-> Uint(1)])
Beside(t) == [t EXCEPT !.message = [object |-> [n \in DOMAIN t.message.object \cup {"note"} |->
                                                  IF n = "note" THEN Text("refund") ELSE t.message.object[n]]]]
PermitPay(n) ==
  Typed("PermitWitnessTransferFrom", Permit2Types, [name |-> Text("Permit2"), chainId |-> Uint(1), verifyingContract |-> Address(Permit2)],
        [permitted |-> [object |-> [token |-> Address("usd"), amount |-> Uint(n)]], spender |-> Address(Proxy), nonce |-> Uint(1),
         deadline |-> Uint(9), witness |-> [object |-> [to |-> Address("bob"), validAfter |-> Uint(0)]]])
Mail(items) ==
  Typed("Mail", [Mail |-> <<Slot("to", "address"), [Slot("legs", "Leg") EXCEPT !.array = TRUE]>>, Leg |-> <<Slot("n", "uint")>>],
        [name |-> Text("Mail")], [to |-> Address("bob"), legs |-> [items |-> items]])
Loop == Typed("Loop", [Loop |-> <<Slot("self", "Loop")>>], [name |-> Text("Mail")], [self |-> Uint(1)])
Hyper(primary, message) == Typed(primary, [n \in {primary} |-> HyperTypes[n]], HyperDomain, message)
Decimal(whole, fraction) == [decimal |-> [whole |-> whole, fraction |-> fraction]]
UsdSend(to, amount) == Hyper("UsdSend", [hyperliquidChain |-> Text("Mainnet"), destination |-> Address(to), amount |-> amount, time |-> Uint(5)])
L1(type, orders) ==
  [schema |-> Schema, kind |-> "hyperliquid_l1", network |-> "mainnet", nonce |-> 4, vault |-> None, expires |-> None,
   action |-> [type |-> type, leaves |-> {Leaf(<<"asset">>, Uint(3))}, grouping |-> "na", orders |-> orders, extra |-> FALSE]]
Login(who, tail) ==
  [schema |-> Schema, kind |-> "personal", text |-> [head |-> TRUE, tail |-> tail, account |-> who, says |-> Text("sign in")]]

TempoCall(to, input) == [to |-> to, value |-> 0, input |-> input]
Tempo(calls, sponsored) ==
  [schema |-> Schema, kind |-> "tempo_transaction",
   tx |-> [form |-> "exact", chain |-> 42, calls |-> calls, feeToken |-> IF sponsored THEN None ELSE Address("pusd"), sponsored |-> sponsored,
           gas |-> 2, nonce |-> 1, until |-> Uint(9)]]
Open(deposit, approved) ==
  Tempo(<<TempoCall("pusd", Call("approve", <<Address("escrow"), Uint(approved)>>)),
          TempoCall("escrow", Call("open", <<Address("bob"), Address("pusd"), Uint(deposit), Uint(1), Address(Owner)>>))>>, FALSE)
TempoMessages ==
  {Tempo(<<TempoCall("pusd", Transfer("bob", 9))>>, TRUE),
   Tempo(<<TempoCall("pusd", Transfer("bob", 9)), TempoCall("pusd", Call("transferWithMemo", <<Address("eve"), Uint(1), Uint(2)>>))>>, FALSE),
   Tempo(<<TempoCall("pusd", Transfer("bob", 9)), TempoCall("junk", Transfer("bob", 9))>>, TRUE),
   Tempo(<<TempoCall("pusd", Transfer("bob", 200)), TempoCall("pusd", Transfer("bob", 200))>>, TRUE),
   Open(9, 9), Open(9, 12), Open(200, 200)}
Voucher(channel, details) ==
  [schema |-> Schema, kind |-> "tempo_voucher", chain |-> 42, escrow |-> "escrow", channel |-> channel, cumulative |-> 6, details |-> details]
Channel(payee) == channel_id(payee, "pusd", Uint(1), Owner, "escrow", 42)
Details(payee) == [payee |-> payee, token |-> "pusd", salt |-> Uint(1), authorized |-> Owner]
Vouchers == {Voucher(Channel("bob"), None), Voucher(Channel("bob"), Details("bob")), Voucher(Channel("eve"), Details("bob"))}

Envelopes ==
  {TypedEnvelope(t) : t \in {Pay3009("bob", 9, 5), Pay3009("bob", 9, 0), Beside(Pay3009("bob", 9, 5)), PermitPay(7), Mail(<<>>),
                             Mail(<<[object |-> [n |-> Uint(1)]], [object |-> [n |-> Uint(2)]]>>), Loop}}
  \cup {L1("order", {"limit"}), Login(Owner, TRUE), Login(Owner, FALSE), Login("eve", TRUE)}
\* What may be put in front of the signer: the documents the envelopes mean,
\* whether or not the reader would accept them.
TypedDocument(t) ==
  [domain |-> t.domain, primary |-> t.primary, types |-> encode_type(t), message |-> hash_struct(t.types, Slot("", t.primary), t.message)]
Document(e) ==
  CASE e.kind = "eip712" -> TypedDocument(e.typed)
    [] e.kind = "hyperliquid_l1" -> TypedDocument(rebuild(e).typed)
    [] e.kind = "personal" -> [personal |-> e.text]
    [] e.kind = "tempo_transaction" -> [tempo |-> e.tx]
    [] OTHER -> [voucher |-> [chain |-> e.chain, escrow |-> e.escrow, channel |-> e.channel, cumulative |-> e.cumulative]]
Documents(es) == {Document(e) : e \in {x \in es : x.kind = "eip712" => x.typed.primary # "Loop"}}

Reviewing(subject, record, e, document) == [Request(subject, ExactOf(<<document>>), record) EXCEPT !.message = <<e>>]
MessageRecord == Record(PetalAt("msg"), NoFee({"sign.message"}), None)
MessageWorld ==
  [World EXCEPT !.catalog = {MessageRecord},
     !.requests = {Reviewing(Petal("msg"), MessageRecord, e, d) : e \in Envelopes, d \in Documents(Envelopes)},
     !.uses = {Use(PetalAt("msg"), <<d>>) : d \in Documents(Envelopes)}]

X402 == {TypedEnvelope(t) : t \in {Pay3009("bob", 9, 5), Pay3009("bob", 9, 0), PermitPay(7), Mail(<<>>)}} \cup {Tempo(<<TempoCall("pusd", Transfer("bob", 9))>>, TRUE)}
Mpp == TempoMessages \cup Vouchers \cup {TypedEnvelope(Pay3009("bob", 9, 5))}
SystemRecord(class) == Record(System(class), NoFee({class}), None)
SystemWorld(class, es) ==
  [World EXCEPT !.catalog = {SystemRecord(class)},
     !.requests = {Reviewing(System(class), SystemRecord(class), e, d) : e \in es, d \in Documents(es)}
                    \cup {Request(System(class), ExactOf(<<d>>), SystemRecord(class)) : d \in Documents(es)},
     !.uses = {Use(System(class), <<d>>) : d \in Documents(es)}]

\* Payments with a claim.
Asset(chain, token) == [chain |-> chain, token |-> token]
Debit(asset, n) == [asset |-> asset, amount |-> n]
Limit(asset, n) == [asset |-> asset, lifetime |-> n]
UsdAsset == Asset(Evm(1), "usd")
HyperUsdc == Asset([venue |-> "hyperliquid"], "usdc")
PayClasses == {"gasless.relay", "venice-x402.topup", "venice-x402.chat", "hyperliquid.usd_send", "hyperliquid.order", "hyperliquid.approve_agent"}
PayRecord == Record(PetalAt("pay"), NoFee(PayClasses), None)
PayEnvelopes ==
  {TypedEnvelope(t) : t \in {Pay3009("bob", 9, 5), Pay3009("eve", 4, 5), UsdSend("bob", Decimal(1, <<5>>)),
                             [UsdSend("bob", Decimal(1, <<5>>)) EXCEPT !.domain = @ @@ [salt |-> Uint(1)]], UsdSend("bob", Decimal(0, <<0, 9, 1>>)),
                             Hyper("ApproveAgent", [hyperliquidChain |-> Text("Mainnet"), agentAddress |-> Address("bot"), nonce |-> Uint(1)])}}
  \cup {L1("order", {"limit"}), L1("cancel", {}), Login(Owner, TRUE)}
PayClaim(class, d, asset, n, dests) == [Claim(class, "pay", d) EXCEPT !.debits = IF n = 0 THEN {} ELSE {Debit(asset, n)}, !.dests = dests]
PayClaims(d) ==
  UNION {{PayClaim(c, d, UsdAsset, n, ds) : n \in {0, 4, 9}, ds \in {{}, {<<Evm(1), "bob">>}}} : c \in {"gasless.relay", "venice-x402.topup"}}
  \cup {PayClaim("hyperliquid.usd_send", d, HyperUsdc, n, {<<[venue |-> "hyperliquid"], "bob">>}) : n \in {9, 150}}
  \cup {PayClaim(c, d, UsdAsset, 0, {}) : c \in {"venice-x402.chat", "hyperliquid.order", "hyperliquid.approve_agent"}}
PayRequest(e, claim) ==
  [Reviewing(Petal("pay"), PayRecord, e, Document(e)) EXCEPT !.petal = claim,
     !.limits = {Limit(d.asset, IF d.asset = UsdAsset THEN 9 ELSE 150) : d \in claim.debits}]
PaymentWorld ==
  [World EXCEPT !.catalog = {PayRecord},
     !.requests = UNION {{PayRequest(e, c) : c \in PayClaims(Document(e))} : e \in PayEnvelopes},
     !.uses = UNION {{[Use(PetalAt("pay"), <<Document(e)>>) EXCEPT !.claim = c] : c \in PayClaims(Document(e))} : e \in PayEnvelopes}]

\* Polymarket records.
OrderData(n) == [chain |-> Polygon, extra |-> FALSE, wallet |-> "deposit", owner |-> Owner, sigtype |-> 3, neg |-> FALSE, salt |-> 1, token |-> 2,
                 maker |-> n, taker |-> 4, side |-> 0, time |-> 9]
BatchData(n) == [chain |-> Polygon, extra |-> FALSE, wallet |-> "deposit", nonce |-> 1,
                 calls |-> <<[target |-> "usd", value |-> 0, data |-> Transfer("bob", n)], [target |-> "junk", value |-> 0, data |-> Unknown]>>]
Prepared(op, class, data, advertised) == [operation |-> op, intent |-> class, owner |-> Owner, advertised |-> advertised, data |-> data]
MarketDocuments == {TypedDocument(t) : t \in {OrderTyped(OrderData(n)) : n \in {5, 6}} \cup {BatchTyped(BatchData(5))}}
MarketRecord == Record(PetalAt("market"), NoFee(PolymarketClasses), None)
MarketRequest(p, d) ==
  [Reviewing(Petal("market"), MarketRecord, p, d) EXCEPT !.petal = Claim(p.intent, "market", d)]
MarketWorld ==
  [World EXCEPT !.catalog = {MarketRecord},
     !.requests = UNION {{MarketRequest(Prepared("order", "polymarket.order.poly1271", OrderData(n), d), d) : n \in {5, 6}} : d \in MarketDocuments}
       \cup UNION {{MarketRequest(Prepared(op, "polymarket.onboard", BatchData(5), d), d) : op \in {"onboard_approvals", "other"}} : d \in MarketDocuments},
     !.uses = UNION {{[Use(PetalAt("market"), <<d>>) EXCEPT !.claim = Claim(c, "market", d)] : c \in PolymarketClasses} : d \in MarketDocuments}]

-----------------------------------------------------------------------------
\* Standing grants: authentication, agent actions, several routes, a derived
\* key, and what an older Broker granted.

Lineage(active) == [id |-> "line", active |-> active]
R1 == Record(PetalAt("r1"), [c \in {"post", AgentClass, ClobClass} |-> None], Lineage(TRUE))
R1Gone == [R1 EXCEPT !.lineage = Lineage(FALSE)]
R2 == Record(PetalAt("r2"), [c \in {"tip"} |-> None], Lineage(TRUE))
Grant(route, classes, record) == [route |-> route, classes |-> classes, provenance |-> record]
Reusable(subject, selector, record) == [Request(subject, selector, record) EXCEPT !.operations = 2, !.signatures = 2]
Scope == [key |-> PetalKey, lineage |-> "line", routes |-> {"r1", "r2"}, classes |-> {"post", "tip", AgentClass}, suites |-> SecpSuite,
          expires |-> 2, slot |-> "bot"]

ClobRequest(ops) == [Request(Petal("r1"), Standing({ClobClass}, {}), R1) EXCEPT !.petal = Claim(ClobClass, "r1", [clob |-> Owner, time |-> 0]), !.operations = ops]
AgentEvidence == L1("order", {"limit"})
GrantClaims == {Claim(c, r, [order |-> "note"]) : c \in {"post", "tip"}, r \in {"r1", "r2"}}
GrantUses(key) ==
  {[Use(PetalAt(r), <<[order |-> "note"]>>) EXCEPT !.claim = c, !.key = key] : r \in {"r1", "r2"}, c \in GrantClaims}
  \cup {[Use(PetalAt("r1"), <<d>>) EXCEPT !.claim = Claim(AgentClass, "r1", d), !.evidence = AgentEvidence, !.key = key] :
          d \in {Document(AgentEvidence), Document(L1("cancel", {}))}}
ClobWorld ==
  [World EXCEPT !.catalog = {R1}, !.requests = {ClobRequest(n) : n \in {1, 2}},
     !.uses = {[Use(PetalAt("r1"), <<d>>) EXCEPT !.claim = Claim(ClobClass, "r1", d)] :
                 d \in {clob_preimage(w, t) : w \in {Owner, "eve"}, t \in 0..4} \cup {[order |-> "note"]}}]
RouteGrants == {Grant("r1", {"post", AgentClass}, R1), Grant("r2", {"tip"}, R2)}
GrantRequests(key) ==
  {[Reusable(Petal("r1"), Standing(classes, grants), R1) EXCEPT !.key = key, !.policy = v] :
     classes \in {{"post"}, {"post", AgentClass}}, grants \in {{}, RouteGrants}, v \in {1, 2}}
GrantWorld ==
  [World EXCEPT !.catalog = {R1, R2}, !.catalogs = {{R1}, {R1Gone, R2}}, !.policies = {ClosedPolicy},
     !.requests = GrantRequests(EvmKey), !.uses = GrantUses(EvmKey)]
ScopedWorld ==
  [World EXCEPT !.catalog = {R1, R2}, !.catalogs = {{R1Gone, R2}}, !.scope = Scope,
     !.requests = GrantRequests(PetalKey) \cup {[r EXCEPT !.expires = 3] : r \in GrantRequests(PetalKey)}, !.uses = GrantUses(PetalKey)]

OpaqueRecord == Record(PetalAt("r1"), NoFee({"hyperliquid.order", SafeClass, "post"}), None)
Older(class) ==
  [terms |-> Terms(Reusable(Petal("r1"), Standing({class}, {}), OpaqueRecord)), shown |-> None, claim |-> None, frozen |-> OpaqueRecord,
   state |-> "active", spent |-> [operations |-> 0, signatures |-> 0, values |-> {}]]
OlderWorld ==
  [World EXCEPT !.catalog = {OpaqueRecord}, !.older = {Older(c) : c \in DOMAIN OpaqueRecord.classes}, !.bound = 3,
     !.uses = {[Use(PetalAt("r1"), <<[order |-> "note"]>>) EXCEPT !.claim = Claim(c, "r1", [order |-> "note"])] : c \in DOMAIN OpaqueRecord.classes}]

-----------------------------------------------------------------------------
\* Solana.

Pumps == [Pump |-> [buy |-> [roles |-> 2, args |-> <<"amount", "limit">>]]]
Ix(program, accounts, op, args, rest) == [program |-> program, accounts |-> accounts, data |-> [op |-> op, args |-> args, rest |-> rest]]
Table(name, w, r) == [table |-> name, writable |-> w, readonly |-> r]
SolMessage(v, keys, ixs, lookups, hash) ==
  [version |-> v, signatures |-> 1, readonlySigned |-> 0, readonlyUnsigned |-> 1, keys |-> keys, blockhash |-> hash, instructions |-> ixs,
   lookups |-> lookups, trailing |-> 0, size |-> 10]
BuyTables == <<Table("t1", <<4, 5>>, <<6>>), Table("t2", <<7>>, <<8, 9>>)>>
Buy(accounts, amount, lookups, hash) ==
  SolMessage("v0", <<SolanaOwner, "mint", "Pump">>, <<Ix(2, accounts, "buy", <<Uint(amount), Uint(9)>>, 0)>>, lookups, hash)
Fees(n) == SolMessage("legacy", <<SolanaOwner, ComputeProgram, "Pump">>,
  <<Ix(1, <<>>, "limit", <<Uint(3)>>, 0), Ix(1, <<>>, "price", <<Uint(n)>>, 0), Ix(2, <<0, 1>>, "buy", <<Uint(1), Uint(9)>>, n)>>, <<>>, "h1")
BuyMessages ==
  {Buy(<<0, i>>, 5, BuyTables, h) : i \in 1..8, h \in {"h1", "h2"}}
  \cup {Buy(<<0, 3>>, 6, BuyTables, "h1"), Buy(<<0, 3>>, 5, Tail(BuyTables), "h1"), Buy(<<0, 9>>, 5, BuyTables, "h1"), Fees(4), Fees(0)}
PumpRecord == Record(PetalAt("pump"), NoFee({"pumpfun.buy"}), None)
PumpClaim(m) == [Claim("pumpfun.buy", "pump", m) EXCEPT !.suite = "ed25519"]
PumpRequest(m) ==
  [Request(Petal("pump"), Standing({"pumpfun.buy"}, {}), PumpRecord) EXCEPT !.suites = {"ed25519"}, !.key = SolKey, !.message = <<m>>, !.petal = PumpClaim(m)]
PumpWorld ==
  [World EXCEPT !.catalog = {PumpRecord}, !.requests = {PumpRequest(m) : m \in BuyMessages},
     !.uses = {[Use(PetalAt("pump"), <<m>>) EXCEPT !.suite = "ed25519", !.key = SolKey, !.claim = PumpClaim(m)] : m \in BuyMessages}]

Move(dest, lamports, extra) ==
  [SolMessage("legacy", <<SolanaOwner, dest, SystemProgram>>, <<Ix(2, <<0, 1>>, "transfer", <<Uint(lamports)>>, 0)>> \o extra, <<>>, "h1")
     EXCEPT !.readonlyUnsigned = 1]
Moves == {Move(d, n, x) : d \in {"dest", "eve"}, n \in {0, 6, 7}, x \in {<<>>, <<Ix(2, <<0, 1>>, "transfer", <<Uint(3)>>, 0)>>}}
MoveClass == "solana.transfer.confirm"
MoveRecord == Record(System(MoveClass), [c \in {"solana.native-transfer"} |-> SolanaNative], None)
MoveClaim(m, dest, n, fee) ==
  [component |-> "bloom-machine", action |-> MoveClass, class |-> "solana.native-transfer", suite |-> "ed25519", digest |-> m, hashes |-> <<m>>,
   debits |-> {Debit(SolanaNative, n)}, dests |-> {<<[venue |-> "solana"], dest>>}, fee |-> [asset |-> SolanaNative, amount |-> fee],
   blockhash |-> "h1", assurance |-> "proof"]
MoveClaims(m) == {MoveClaim(m, d, n, f) : d \in {"dest", "eve"}, n \in {6, 7}, f \in {2, 3}}
MoveRequest(m, claim) ==
  [Request(System(MoveClass), ExactOf(<<m>>), MoveRecord) EXCEPT !.suites = {"ed25519"}, !.key = SolKey, !.system = claim, !.limits = {Limit(SolanaNative, 9)}]
MoveWorld ==
  [World EXCEPT !.catalog = {MoveRecord}, !.requests = UNION {{MoveRequest(m, c) : c \in MoveClaims(m)} : m \in Moves},
     !.uses = UNION {{[Use(System(MoveClass), <<m>>) EXCEPT !.suite = "ed25519", !.key = SolKey, !.system = c, !.evidence = m] :
                       c \in MoveClaims(m)} : m \in Moves}]

ShortcutWorld == [World EXCEPT !.catalog = {CliRecord}, !.programs = Programs]
Returned == {Word([uint |-> 8]), Word(Address("eve")), Ragged(Transfer("eve", 1))}

AllWorlds ==
  [reading |-> ReadingWorld, partial |-> PartialWorld, native |-> NativeWorld, safes |-> SafeReading, safe |-> SafeWorld,
   message |-> MessageWorld, x402 |-> SystemWorld("paid-http.x402", X402), mpp |-> SystemWorld("paid-http.mpp", Mpp),
   payment |-> PaymentWorld, market |-> MarketWorld, clob |-> ClobWorld, grant |-> GrantWorld, scoped |-> ScopedWorld, older |-> OlderWorld,
   pump |-> PumpWorld, move |-> MoveWorld, shortcut |-> ShortcutWorld]

\* TLC evaluates these once.
ModelWorlds == AllWorlds
ModelBuilds == ClearBuilds
ModelFunctions == Functions

EscrowOf == [c \in {42} |-> "escrow"]
ExchangeOf == [neg \in BOOLEAN |-> IF neg THEN "negx" ELSE "ctfx"]
Libraries == [batch |-> {"batch"}, create |-> {"create"}]
Known1 == {<<1, "usd">>, <<42, "pusd">>}
=============================================================================
