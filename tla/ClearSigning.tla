---------------------------- MODULE ClearSigning ----------------------------
(***************************************************************************)
(* The clear-signing reader of EVM calls                                   *)
(* (crates/bloom-evm-clear-signing): which descriptions a build admits     *)
(* (descriptor.rs), the catalog made of them (catalog.rs) and how a call   *)
(* is read with it (render.rs).                                            *)
(*                                                                         *)
(* Calldata is what strict decoding makes of it: [fn, args, form], the     *)
(* arguments one per leaf of the signature, form "exact" when re-encoding  *)
(* gives the same bytes back.  A value is a record whose field names its   *)
(* kind: address, uint, bool, fixed (with its tail), bytes, items, parts.  *)
(* Text is not modelled: a display field is where it stands, the value it  *)
(* shows and what it says about it.                                        *)
(***************************************************************************)
EXTENDS EnsoProgram, FiniteSetsExt, SequencesExt

CONSTANTS
  Signature,       \* parameters of each function, by name
  Selector,        \* its four bytes
  WordBits,        \* bits of a word, 256 in the code
  MaxLeaves,       \* MAX_LEAVES_PER_FORMAT
  MaxItems,        \* MAX_ARRAY_ITEMS
  MaxNestedCalls,  \* MAX_NESTED_CALLS
  MaxFormats,      \* MAX_ADMITTED_FORMATS
  NativeChains,    \* chains with authenticated native units
  SafeLibraries,   \* [batch, create]: addresses of Safe's own libraries
  SafeChains       \* SAFE_BATCH_CHAINS

None == [none |-> TRUE]
ZeroAddress == "0x0"
MaxWord == 2^WordBits - 1
Uint(n) == [uint |-> n]
NoData == [empty |-> TRUE]
ValuePath == <<"@", "value">>
TargetPath == <<"@", "to">>

Refused == [refused |-> TRUE]
Read(r) == r # Refused

-----------------------------------------------------------------------------
\* descriptor.rs.  A parameter is [name, ty]; a type is [k] with what its
\* kind needs.

static_leaf_type(ty) ==
  \/ ty.k \in {"address", "bool"}
  \/ ty.k = "uint" /\ ty.bits \in 1..WordBits
  \/ ty.k = "fixed" /\ ty.size \in 1..32

leaf_type(ty) == ty.k = "bytes" \/ static_leaf_type(ty) \/ (ty.k = "array" /\ static_leaf_type(ty.of))

Index == <<"[0]", "[1]", "[2]", "[3]">>

\* A tuple stands for its components, a fixed array for its elements.
Members(p) ==
  IF p.ty.k = "tuple"
    THEN [i \in DOMAIN p.ty.of |-> [name |-> p.name \o p.ty.of[i].name, ty |-> p.ty.of[i].ty]]
    ELSE [i \in 1..p.ty.n |-> [name |-> Append(p.name, Index[i]), ty |-> p.ty.of]]

\* The leaves of a parameter list; a parameter with no supported type makes
\* it Refused.
RECURSIVE collect_leaves(_)
collect_leaves(params) ==
  IF params = <<>> THEN [seq |-> <<>>]
  ELSE LET p == params[1]
           listed == p.ty.k = "array" /\ p.ty.of.k = "tuple"
           own == IF p.ty.k \in {"tuple", "list"}
                    THEN IF p.ty.k = "list" \/ p.ty.of # <<>> THEN collect_leaves(Members(p)) ELSE Refused
                  ELSE IF \/ listed /\ \A i \in DOMAIN p.ty.of.of :
                                         LET ty == p.ty.of.of[i].ty IN leaf_type(ty) /\ ty.k # "array"
                          \/ ~listed /\ leaf_type(p.ty)
                    THEN [seq |-> <<[path |-> p.name, kind |-> p.ty]>>] ELSE Refused
           rest == collect_leaves(Tail(params)) IN
       IF Read(own) /\ Read(rest) THEN [seq |-> own.seq \o rest.seq] ELSE Refused

\* Every path a field can address, with its type.
addressable(leaves) ==
  UNION {LET l == leaves[i] IN
         IF l.kind.k # "array" THEN {l}
         ELSE IF l.kind.of.k # "tuple" THEN {[path |-> Append(l.path, "[]"), kind |-> l.kind.of]}
         ELSE {[path |-> Append(l.path, "[]") \o l.kind.of.of[j].name, kind |-> l.kind.of.of[j].ty] :
                 j \in DOMAIN l.kind.of.of} : i \in DOMAIN leaves}

\* The array a path reaches into; <<>> when it reaches into none.
array_of(path) ==
  IF \E i \in DOMAIN path : path[i] = "[]"
    THEN SubSeq(path, 1, (CHOOSE i \in DOMAIN path : path[i] = "[]") - 1) ELSE <<>>

\* A field is [path, rule, allowed, format, ref, amount]: rule "always", or
\* "mustMatch" with the values it admits, or one the reader rejects.
match_values(f, kind) ==
  /\ f.allowed # {} /\ kind.k # "array"
  /\ \A v \in f.allowed : kind.k \in DOMAIN v

\* ref and amount must be arguments of the same element as the field.
admit_format(f, kind, paths, enums) ==
  LET Sibling(ref, k) == /\ \E p \in paths : p.path = ref /\ p.kind.k = k
                         /\ array_of(ref) = array_of(f.path)
      TopAddress(ref) == \E p \in paths : p.path = ref /\ p.kind.k = "address" /\ array_of(ref) = <<>> IN
  CASE f.format = "raw"          -> TRUE
    [] f.format = "addressName"  -> kind.k = "address"
    [] f.format \in {"amount", "date"} -> kind.k = "uint"
    [] f.format \in {"tokenAmount", "vaultAssetAmount"} ->
         kind.k = "uint" /\ (f.ref = TargetPath \/ TopAddress(f.ref))
    [] f.format = "enum"         -> f.ref \in DOMAIN enums /\ kind.k \in {"uint", "bool", "fixed"}
    [] f.format \in {"ensoToken", "ensoTokenOutput"} -> 
         kind.k = "bytes" /\ Sibling(f.ref, "uint") /\ \A p \in paths : p.path = f.ref => p.kind.bits = 8
    [] f.format = "ensoShortcut" -> kind.k = "bytes"
    [] f.format = "calldata"     -> /\ kind.k = "bytes"
                                    /\ f.ref = TargetPath \/ Sibling(f.ref, "address")
                                    /\ f.amount = <<>> \/ Sibling(f.amount, "uint")
    [] OTHER                     -> FALSE

\* One function's description.  @.value can be referred to once a field has
\* shown it.
\* Mutant: a description may leave an argument out.
admit_call_Partial(fn, class, fields, enums) ==
  LET leaves == collect_leaves(Signature[fn]) IN
  IF Read(leaves) /\ leaves.seq # <<>>
    THEN [fn |-> fn, class |-> class, leaves |-> leaves.seq, enums |-> enums,
          fields |-> SelectSeq(fields, LAMBDA f : f.rule = "always"),
          native |-> \E i \in DOMAIN fields : fields[i].path = ValuePath,
          constraints |-> {fields[i] : i \in {j \in DOMAIN fields : fields[j].rule = "mustMatch"}}]
    ELSE Refused

admit_call(fn, class, fields, enums) ==
  LET leaves == collect_leaves(Signature[fn])
      base == addressable(leaves.seq)
      native == \E i \in DOMAIN fields : fields[i].path = ValuePath
      paths(i) == IF \E j \in 1..i : fields[j].path = ValuePath
                    THEN base \cup {[path |-> ValuePath, kind |-> [k |-> "uint", bits |-> WordBits]]} ELSE base
      Admits(i) ==
        LET f == fields[i] IN
        /\ f.rule \in {"always", "mustMatch"}
        /\ f.path = ValuePath => f.rule = "always" /\ f.format = "amount"
        /\ \A j \in 1..(i - 1) : fields[j].path # f.path
        /\ \E p \in paths(i) :
             /\ p.path = f.path
             /\ IF f.rule = "mustMatch" THEN match_values(f, p.kind)
                ELSE /\ admit_format(f, p.kind, paths(i), enums)
                     /\ array_of(f.path) # <<>> => f.format \notin {"tokenAmount", "vaultAssetAmount"} IN
  IF /\ Read(leaves) /\ Len(leaves.seq) \in 1..MaxLeaves /\ Len(fields) <= MaxLeaves
     /\ \A i \in DOMAIN fields : Admits(i)
     /\ {fields[i].path : i \in DOMAIN fields} = {p.path : p \in paths(Len(fields))}
    THEN [fn |-> fn, class |-> class, leaves |-> leaves.seq, enums |-> enums,
          fields |-> SelectSeq(fields, LAMBDA f : f.rule = "always"), native |-> native,
          constraints |-> {fields[i] : i \in {j \in DOMAIN fields : fields[j].rule = "mustMatch"}}]
    ELSE Refused

ActionClass(fn) == CASE fn = "transfer" -> "transfer" [] fn = "approve" -> "allowance" [] OTHER -> "other"

check_binding(document, key) == key \in document.deployments

\* A document is [deployments, enums, formats, extra]: formats gives each
\* function its fields; extra stands for a key the reader does not know.
\* The admitted calls, by function; Refused when any part is.
admit_document(document, binding) ==
  LET Whole(calls) == IF \A fn \in DOMAIN calls : Read(calls[fn]) THEN [calls |-> calls] ELSE Refused IN
  IF /\ ~document.extra
     /\ Cardinality(DOMAIN document.formats) <= MaxFormats
     /\ binding = <<>> \/ check_binding(document, binding)
     /\ \A f, g \in DOMAIN document.formats : Selector[f] = Selector[g] => f = g
    THEN Whole([fn \in DOMAIN document.formats |-> admit_call(fn, ActionClass(fn), document.formats[fn], document.enums)])
    ELSE Refused

-----------------------------------------------------------------------------
\* catalog.rs.  An entry is [calls, token, upgradeable, instances, batch];
\* entries are keyed by <<chain, address>>.

Field(path, format, ref) ==
  [path |-> path, rule |-> "always", allowed |-> {}, format |-> format, ref |-> ref, amount |-> <<>>]

\* How a token without a description of its own is read.
erc20_profile ==
  [fn \in {"transfer", "approve"} |->
    admit_call(fn, ActionClass(fn), <<Field(<<"who">>, "addressName", <<>>),
                                      Field(<<"amount">>, "tokenAmount", TargetPath)>>, <<>>)]

safe_batch_description ==
  [fn \in {"multiSend"} |->
    [fn |-> fn, class |-> "other", leaves |-> <<[path |-> <<"transactions">>, kind |-> [k |-> "bytes"]]>>,
     fields |-> <<Field(<<"transactions">>, "safeBatch", <<>>)>>, native |-> FALSE, constraints |-> {},
     enums |-> <<>>]]

check_unlisted_reading(calls) == \A fn \in DOMAIN calls : ~calls[fn].native /\ calls[fn].class = "other"

Entry(calls, token, upgradeable, instances, batch) ==
  [calls |-> calls, token |-> token, upgradeable |-> upgradeable, instances |-> instances, batch |-> batch]

\* A binding is [kind, address]: "listed", "upgradeable", "standard", or
\* "instances" of the one address.
Unlisted(binding) == binding.kind \in {"standard", "instances"}

\* The deployments a document is entered under, and the instance ones.
Bound(doc) == IF doc.binding.kind = "standard" THEN {} ELSE doc.document.deployments
InstanceKeys(doc) == {k \in Bound(doc) : doc.binding.kind = "instances" /\ k[2] = doc.binding.address}

Admitted(doc) == admit_document(doc.document, IF Bound(doc) = {} THEN <<>> ELSE CHOOSE k \in Bound(doc) : TRUE)

\* The catalog of admitted documents; tokens and vaults map keys to metadata
\* and to assets.
Assemble(docs, admitted, tokens, vaults) ==
  LET libraries == {<<c, a>> : c \in SafeChains, a \in SafeLibraries.batch}
      of(k) == CHOOSE d \in docs : k \in Bound(d)
      described == UNION {Bound(d) : d \in docs}
      keys == libraries \cup described \cup DOMAIN tokens
      selectors(d) == {Selector[fn] : fn \in DOMAIN d.document.formats}
      entries == [k \in keys |->
        LET token == IF k \in DOMAIN tokens THEN tokens[k] ELSE None
            upgradeable == token # None /\ token.upgradeable IN
        CASE k \in described -> Entry(admitted[of(k)].calls, token,
                                      of(k).binding.kind = "upgradeable" \/ upgradeable, k \in InstanceKeys(of(k)), FALSE)
          [] k \in libraries -> Entry(safe_batch_description, token, upgradeable, FALSE, TRUE)
          [] OTHER           -> Entry(erc20_profile, token, upgradeable, FALSE, FALSE)] IN
  IF /\ \A d \in docs : Read(admitted[d]) /\ (Unlisted(d.binding) => check_unlisted_reading(admitted[d].calls))
     /\ \A d \in docs : d.binding.kind # "standard" => Bound(d) # {}
     /\ \A k \in keys : k[1] # 0
     /\ \A d, e \in docs : d # e => Bound(d) \cap Bound(e) = {}
     /\ libraries \cap described = {}
     /\ \A d, e \in docs : d # e /\ selectors(d) \cap selectors(e) # {} =>
          /\ ~(d.binding.kind = "standard" /\ e.binding.kind = "standard")
          /\ ~\E k \in InstanceKeys(d), l \in InstanceKeys(e) : k[1] = l[1]
     /\ \A k \in DOMAIN tokens \cap described : k \notin InstanceKeys(of(k))
     /\ \A k \in DOMAIN vaults : <<k[1], vaults[k]>> \in DOMAIN tokens /\ k[2] # ZeroAddress
    THEN [entries |-> entries, vaults |-> vaults,
          standards |-> {Entry(admitted[d].calls, None, FALSE, TRUE, FALSE) : d \in {e \in docs : e.binding.kind = "standard"}}]
    ELSE Refused

\* Catalog::build.  docs is a set of [document, binding].
build(docs, tokens, vaults) == Assemble(docs, [d \in docs |-> Admitted(d)], tokens, vaults)

Listed(cat, chain, address) == <<chain, address>> \in DOMAIN cat.entries

is_safe_library(cat, chain, address) ==
  Listed(cat, chain, address) /\ (cat.entries[<<chain, address>>].batch \/ address \in SafeLibraries.create)

\* A listed address is read by its own entry alone; another by an instance
\* entry of the chain, else by a standard, that knows the selector.
resolve(cat, chain, address, fn) ==
  LET instances == {k \in DOMAIN cat.entries : k[1] = chain /\ cat.entries[k].instances /\ fn \in DOMAIN cat.entries[k].calls}
      standards == {s \in cat.standards : fn \in DOMAIN s.calls} IN
  IF Listed(cat, chain, address) THEN [entry |-> cat.entries[<<chain, address>>], key |-> <<chain, address>>, instance |-> FALSE]
  ELSE IF instances # {} THEN LET k == CHOOSE k \in instances : TRUE IN [entry |-> cat.entries[k], key |-> k, instance |-> TRUE]
  ELSE IF standards # {} THEN [entry |-> CHOOSE s \in standards : TRUE, key |-> <<0, ZeroAddress>>, instance |-> TRUE]
  ELSE None
=============================================================================
