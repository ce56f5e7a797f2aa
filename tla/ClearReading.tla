---------------------------- MODULE ClearReading ----------------------------
(***************************************************************************)
(* How a call is read with the catalog of ClearSigning                     *)
(* (crates/bloom-evm-clear-signing/src/render.rs), and what the rest of    *)
(* the Broker does with a reading.                                         *)
(*                                                                         *)
(* A call is [chain, to, value, data].  A reading is Refused, or the       *)
(* display fields, the catalog entries it rests on, whether part of it     *)
(* rests on no listed deployment, and the ERC-20 intent if it has one.     *)
(***************************************************************************)
EXTENDS ClearSigning

Fn(data) == IF "fn" \in DOMAIN data THEN data.fn ELSE "none"

\* Exact transfer or approve calldata.
canonical_erc20(data) == Fn(data) \in {"transfer", "approve"} /\ data.form = "exact"

\* The leaf a path starts at, the value it leads to, the elements it has.
LeafOf(call, path) ==
  LET base == IF array_of(path) = <<>> THEN path ELSE array_of(path) IN
  CHOOSE i \in DOMAIN call.leaves : call.leaves[i].path = base

value_at(call, ctx, path, index) ==
  IF path = ValuePath THEN Uint(ctx.value)
  ELSE LET v == ctx.data.args[LeafOf(call, path)] IN
       IF array_of(path) = <<>> THEN v
       ELSE LET item == v.items[index] IN
            IF "parts" \in DOMAIN item THEN item.parts[Last(path)] ELSE item

length(call, ctx, path) ==
  IF array_of(path) = <<>> THEN 1 ELSE Len(ctx.data.args[LeafOf(call, path)].items)

\* What re-encoding does not see: the width of an integer, the tail of a
\* fixed-bytes word.
RECURSIVE check_leaf(_, _)
check_leaf(kind, v) ==
  CASE kind.k = "uint"  -> "uint" \in DOMAIN v /\ v.uint < 2^kind.bits
    [] kind.k = "fixed" -> "fixed" \in DOMAIN v /\ v.tail = 0
    [] kind.k = "array" -> /\ "items" \in DOMAIN v /\ Len(v.items) <= MaxItems
                           /\ \A i \in DOMAIN v.items : check_leaf(kind.of, v.items[i])
    [] kind.k = "tuple" -> /\ "parts" \in DOMAIN v
                           /\ \A i \in DOMAIN kind.of : check_leaf(kind.of[i].ty, v.parts[Last(kind.of[i].name)])
    [] OTHER            -> kind.k \in DOMAIN v

\* What is shown of a value: of a fixed-bytes word, the declared prefix.
raw_value(v) == IF "fixed" \in DOMAIN v THEN [v EXCEPT !.tail = 0] ELSE v

match_key(v) == raw_value(v)

\* A display field, and one part of a reading.
Show(at, format, raw, says) == [at |-> at, format |-> format, raw |-> raw, says |-> says]
Plain == [plain |-> TRUE]
Part(fields, used, structural) ==
  [fields |-> fields, used |-> used, structural |-> structural, warnings |-> {}, natives |-> 0]

\* An entry a reading rests on; an instance one was read for another address.
Selected(key, instance) == [key |-> key, instance |-> instance]

HasUnits(chain) == chain \in NativeChains

-----------------------------------------------------------------------------
\* The token an amount is in: the key of a listed one, Refused, or the address
\* or vault nobody listed.

TokenOf(cat, key) == IF key \in DOMAIN cat.entries /\ cat.entries[key].token # None THEN [token |-> key] ELSE [unlisted |-> key[2]]

resolve_token(cat, f, call, ctx, found) ==
  LET named == IF f.ref = TargetPath THEN ctx.to ELSE value_at(call, ctx, f.ref, 1).address IN
  IF f.format = "vaultAssetAmount"
    THEN IF <<ctx.chain, named>> \in DOMAIN cat.vaults
           THEN [token |-> <<ctx.chain, cat.vaults[<<ctx.chain, named>>]>>] ELSE [unlisted |-> named]
  ELSE IF f.ref = TargetPath
    THEN IF found.entry.token = None THEN Refused ELSE [token |-> found.key]
  ELSE TokenOf(cat, <<ctx.chain, named>>)

token_amount(cat, f, call, ctx, found, at, v) ==
  LET token == resolve_token(cat, f, call, ctx, found) IN
  IF token = Refused THEN Refused
  ELSE IF "unlisted" \in DOMAIN token THEN Part({Show(at, "raw", v, token)}, {}, TRUE)
  ELSE Part({Show(at, "tokenAmount", v, token)}, {Selected(token.token, "")}, FALSE)

\* MAX_TIMESTAMP_SECONDS bounds a date; every value has a label or is refused.
render_field(cat, f, ctx, at, v, enums) ==
  IF \/ f.format = "amount" /\ ~HasUnits(ctx.chain) /\ v.uint # 0
     \/ f.format = "date" /\ v.uint = MaxWord
     \/ f.format = "enum" /\ raw_value(v) \notin enums[f.ref]
    THEN Refused
    ELSE Part({Show(at, f.format, raw_value(v), Plain)}, {}, FALSE)

\* A token in an Enso route: native or ERC-20.
enso_token(cat, f, call, ctx, at, index, v) ==
  LET kind == value_at(call, ctx, f.ref, index).uint
      output == f.format = "ensoTokenOutput"
      data == v.bytes IN
  CASE kind = 0 /\ HasUnits(ctx.chain) /\ (output => DOMAIN data = {"amount"}) ->
         [Part({Show(at, "nativeAmount", v, [native |-> IF output THEN data.amount ELSE ctx.value])}, {}, TRUE)
            EXCEPT !.natives = IF output THEN 0 ELSE 1]
    [] kind = 1 /\ DOMAIN data = {"token", "amount"} ->
         LET token == TokenOf(cat, <<ctx.chain, data.token>>) IN
         Part({Show(at, "tokenAmount", v, token)},
              IF "token" \in DOMAIN token THEN {Selected(token.token, "")} ELSE {}, TRUE)
    [] OTHER -> Refused

\* The calls in a packed batch: plain calls to nonzero addresses.
safe_batch(packed) ==
  IF /\ "batch" \in DOMAIN packed /\ ~packed.cut
     /\ Len(packed.batch) \in 1..MaxItems
     /\ \A i \in DOMAIN packed.batch : packed.batch[i].op = 0 /\ packed.batch[i].to # ZeroAddress
    THEN [seq |-> packed.batch] ELSE Refused

\* Parts put together; one that is refused refuses the whole.
Join(parts) ==
  IF Refused \in parts THEN Refused
  ELSE [fields |-> UNION {p.fields : p \in parts}, used |-> UNION {p.used : p \in parts},
        structural |-> \E p \in parts : p.structural, warnings |-> UNION {p.warnings : p \in parts},
        natives |-> Cardinality({p \in parts : p.natives = 1})]

Under(at, reading) == {[f EXCEPT !.at = at \o f.at] : f \in reading.fields}

\* A transfer or approval to an unlisted contract, read by its shape.
shaped_erc20(ctx) ==
  LET who == ctx.data.args[1]  amount == ctx.data.args[2] IN
  IF ctx.value # 0 THEN Refused
  ELSE [fields |-> {Show(<<"who">>, "addressName", who, Plain), Show(<<"amount">>, "raw", amount, Plain)},
        used |-> {}, structural |-> TRUE, assurance |-> "shape",
        warnings |-> {"unverified"} \cup (IF who.address = ZeroAddress THEN {"zero address"} ELSE {}),
        intent |-> [action |-> ActionClass(ctx.data.fn), who |-> who.address, amount |-> amount.uint, token |-> None,
                    magnitude |-> CASE amount.uint = 0 -> "zero" [] amount.uint = MaxWord -> "unlimited" [] OTHER -> "finite"]]

\* The ERC-20 rules, which no description can turn off: the intent, None for
\* another call, or Refused.
apply_safety_rules(call, ctx, found) ==
  IF ActionClass(call.fn) # call.class THEN Refused
  ELSE IF call.class = "other" THEN None
  ELSE LET who == ctx.data.args[1].address  amount == ctx.data.args[2].uint IN
       IF \/ who = ZeroAddress \/ found.entry.token = None
          \/ call.class = "transfer" /\ who = found.key[2]
         THEN Refused
         ELSE [action |-> call.class, who |-> who, amount |-> amount, token |-> found.key,
               magnitude |-> CASE call.class = "transfer" -> "finite" [] amount = 0 -> "zero"
                               [] amount = MaxWord -> "unlimited" [] OTHER -> "finite"]

\* What a step of a shortcut calls, when it is fixed.
StepCall(ctx, step) ==
  [ctx EXCEPT !.to = step.target, !.value = step.value.word.uint,
     !.data = [fn |-> step.calldata.fn, form |-> "exact",
               args |-> [i \in DOMAIN step.calldata.args |->
                          IF IsWord(step.calldata.args[i]) THEN step.calldata.args[i].word ELSE [bytes |-> NoData]]]]

Safe(fn) == fn = "execTransaction"

\* Fields outside arrays once, those of an array once per element, an empty
\* array as one line (index 0).
Leads(call, f) ==
  \E i \in DOMAIN call.fields : /\ call.fields[i] = f
                                /\ \A j \in 1..(i - 1) : array_of(call.fields[j].path) # array_of(f.path)
Jobs(call, ctx) ==
  {j \in [field : ToSet(call.fields), index : 0..MaxItems] :
     LET size == length(call, ctx, j.field.path) IN
     IF size = 0 THEN j.index = 0 /\ Leads(call, j.field) ELSE j.index \in 1..size}

At(job) == IF array_of(job.field.path) = <<>> THEN job.field.path ELSE Append(job.field.path, Index[job.index + 1])

RECURSIVE review_at(_, _, _)

\* An embedded call: a heading, then its own fields under it.
render_embedded(cat, inner, at, depth) ==
  IF inner.data = NoData
    THEN IF inner.value # 0 /\ ~HasUnits(inner.chain) THEN Refused
         ELSE Part({Show(at, "calldata", [bytes |-> NoData], [send |-> inner.value, to |-> inner.to])}, {}, FALSE)
    ELSE LET Embedded(reading) ==
               IF ~Read(reading) THEN Refused
               ELSE [Part({Show(at, "calldata", [bytes |-> inner.data], [calls |-> Fn(inner.data), on |-> inner.to])}
                            \cup Under(at, reading), reading.used, reading.structural)
                       EXCEPT !.warnings = reading.warnings] IN
         Embedded(review_at(cat, inner, depth + 1))

\* A shortcut's steps are read where they are fixed; one that cannot be read
\* is shown as such and refuses nothing.
enso_shortcut(cat, ctx, at, depth, v) ==
  LET Reading(step) == IF depth < 2 /\ Known(step.calldata) /\ Known(step.value)
                         THEN review_at(cat, StepCall(ctx, step), depth + 1) ELSE Refused
      Step(i, step, reading) ==
        Part({Show(Append(at, Index[i]), "text", None, [step |-> step, read |-> Read(reading)])},
             IF Read(reading) THEN reading.used ELSE {}, TRUE)
      Shortcut(program) ==
        IF program = Bad
          THEN [Part({Show(at, "ensoShortcut", v, Plain)}, {}, TRUE) EXCEPT !.warnings = {"not decoded"}]
          ELSE Join({Part({Show(at, "ensoShortcut", v, Plain)}, {}, TRUE)}
                      \cup {Step(i, program.steps[i], Reading(program.steps[i])) : i \in DOMAIN program.steps}) IN
  Shortcut(IF "commands" \in DOMAIN v.bytes THEN decode(v.bytes) ELSE Bad)

\* One field of a reading.
RenderJob(cat, ctx, depth, call, found, job) ==
  LET f == job.field  at == At(job)
      v == value_at(call, ctx, f.path, job.index) IN
  IF job.index = 0 THEN Part({Show(at, "raw", [items |-> <<>>], Plain)}, {}, FALSE)
  ELSE CASE f.format \in {"ensoToken", "ensoTokenOutput"} -> enso_token(cat, f, call, ctx, at, job.index, v)
         [] f.format = "ensoShortcut" -> enso_shortcut(cat, ctx, at, depth, v)
         [] f.format = "calldata" ->
              render_embedded(cat, [ctx EXCEPT !.to = IF f.ref = TargetPath THEN ctx.to ELSE value_at(call, ctx, f.ref, job.index).address,
                                               !.value = IF f.amount = <<>> THEN 0 ELSE value_at(call, ctx, f.amount, job.index).uint,
                                               !.data = v.bytes], at, depth)
         [] f.format = "safeBatch" ->
              LET calls == safe_batch(v.bytes) IN
              IF ~Read(calls) THEN Refused
              ELSE Join({render_embedded(cat, [ctx EXCEPT !.to = calls.seq[i].to, !.value = calls.seq[i].value, !.data = calls.seq[i].data],
                                         Append(at, Index[i]), depth) : i \in DOMAIN calls.seq})
         [] f.format \in {"tokenAmount", "vaultAssetAmount"} -> token_amount(cat, f, call, ctx, found, at, v)
         [] OTHER -> render_field(cat, f, ctx, at, v, call.enums)

\* What must hold before a field is shown: exact bytes, argument shapes, the
\* values a description fixes, and no delegatecall of a Safe but to its own
\* libraries.
Constrained(cat, ctx, call) ==
  /\ ctx.value # 0 => call.native
  /\ ctx.data.form = "exact" /\ Len(ctx.data.args) = Len(call.leaves)
  /\ \A i \in DOMAIN call.leaves : check_leaf(call.leaves[i].kind, ctx.data.args[i])
  /\ Safe(call.fn) /\ value_at(call, ctx, <<"operation">>, 1).uint # 0
       => is_safe_library(cat, ctx.chain, value_at(call, ctx, <<"to">>, 1).address)
  /\ \A c \in call.constraints : \A i \in 1..length(call, ctx, c.path) :
       match_key(value_at(call, ctx, c.path, i)) \in c.allowed

\* What the whole route must hold: sources, and native value only with a
\* native source.
EnsoInputs(call, ctx) == {j \in Jobs(call, ctx) : j.field.format = "ensoToken" /\ j.index # 0}
EnsoRoute(call, ctx, natives) ==
  (\E i \in DOMAIN call.fields : call.fields[i].format = "ensoToken") =>
    /\ EnsoInputs(call, ctx) # {} /\ natives <= 1
    /\ natives = 0 => ctx.value = 0

\* The description as the evidence names it: an instance by its own address.
Entered(found, ctx) == Selected(found.key, IF found.instance THEN ctx.to ELSE "")

\* A description bound to instances says the contract is taken for one of them.
InstanceWarning(found) == IF found.instance THEN {"instance"} ELSE {}

\* The reading, once every field is rendered.
Assembled(call, ctx, found, intent, body) ==
  IF body = Refused \/ intent = Refused THEN Refused
  ELSE IF ~EnsoRoute(call, ctx, body.natives) THEN Refused
  ELSE LET structural == found.instance \/ body.structural IN
       [fields |-> body.fields, structural |-> structural, intent |-> intent,
        used |-> {Entered(found, ctx)} \cup body.used,
        warnings |-> body.warnings \cup InstanceWarning(found),
        assurance |-> CASE EnsoInputs(call, ctx) # {} -> "enso" [] structural -> "structural" [] OTHER -> "standing"]

\* With the description found for it.
ReadWith(cat, ctx, depth, found) ==
  IF found = None \/ Fn(ctx.data) = "none" THEN Refused
  ELSE IF Fn(ctx.data) \notin DOMAIN found.entry.calls THEN Refused
  ELSE LET call == found.entry.calls[ctx.data.fn] IN
       IF ~Constrained(cat, ctx, call) THEN Refused
       ELSE Assembled(call, ctx, found, apply_safety_rules(call, ctx, found),
                      Join({RenderJob(cat, ctx, depth, call, found, j) : j \in Jobs(call, ctx)}))

review_at(cat, ctx, depth) ==
  IF depth > MaxNestedCalls THEN Refused
  ELSE IF ~Listed(cat, ctx.chain, ctx.to) /\ canonical_erc20(ctx.data) THEN shaped_erc20(ctx)
  ELSE ReadWith(cat, ctx, depth, resolve(cat, ctx.chain, ctx.to, Fn(ctx.data)))

review_call(cat, ctx) == review_at(cat, ctx, 0)

\* ClearSigningEvidence::new.
Evidence(used, structural) ==
  [assurance |-> IF structural \/ \E u \in used : u.instance # "" THEN "structural" ELSE "trusted", entries |-> used]
=============================================================================
