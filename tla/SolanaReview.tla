---------------------------- MODULE SolanaReview ----------------------------
(***************************************************************************)
(* Solana messages: the strict parser and the structural reader            *)
(* (crates/bloom-solana-clear-signing: message.rs, inspection.rs), the     *)
(* one-operation approval whose blockhash may be refreshed                 *)
(* (crates/bloom-broker/src/solana_review.rs), and the verifier of native  *)
(* transfers (crates/bloom-solana-verify) with the Broker's adapter        *)
(* (assurance_verifiers.rs).                                               *)
(*                                                                         *)
(* A message is [version, signatures, readonlySigned, readonlyUnsigned,    *)
(* keys, blockhash, instructions, lookups, trailing, size]; an instruction *)
(* is [program, accounts, data], program and accounts being indices from   *)
(* 0, and data is [op, args, rest] with what is left after the arguments.  *)
(***************************************************************************)
EXTENDS MessageReview

CONSTANTS
  SolanaOwner,      \* the wallet's Ed25519 key
  SystemProgram, ComputeProgram, TokenProgram, AssociatedProgram, \* program addresses
  PumpCatalog,      \* compiled programs: address -> op -> [roles, args]
  PacketSize,       \* PACKET_DATA_SIZE
  MaxAccounts,      \* MAX_ACCOUNT_KEYS
  LamportsPerSignature,
  MicroLamports     \* 1_000_000

-----------------------------------------------------------------------------
\* message.rs

\* The accounts the lookup tables load: all writable entries over all tables,
\* then the read-only ones.
Loaded(m) ==
  FoldLeft(LAMBDA acc, t : acc + Len(t.writable) + Len(t.readonly), 0, m.lookups)

check_packet_size(m) == m.size + 1 + m.signatures <= PacketSize

sanitize(m, loaded) ==
  /\ m.signatures > 0 /\ m.readonlySigned < m.signatures
  /\ m.signatures + m.readonlyUnsigned <= Len(m.keys)
  /\ \A i \in DOMAIN m.instructions :
       LET ix == m.instructions[i] IN
       /\ ix.program \in 1..(Len(m.keys) - 1)
       /\ \A j \in DOMAIN ix.accounts : ix.accounts[j] < Len(m.keys) + loaded

parse_message(m) == m.version = "legacy" /\ m.trailing = 0 /\ m.lookups = <<>> /\ Len(m.keys) <= MaxAccounts /\ sanitize(m, 0)

parse_versioned_message(m) ==
  /\ m.size <= PacketSize /\ check_packet_size(m)
  /\ \/ parse_message(m)
     \/ m.version = "v0" /\ m.trailing = 0 /\ Len(m.keys) + Loaded(m) <= MaxAccounts /\ sanitize(m, Loaded(m))

\* Everything but the recent blockhash.
blockhash_independent_digest(m) == [m EXCEPT !.blockhash = "zero"]

-----------------------------------------------------------------------------
\* inspection.rs

\* The account an index names: a key, or an unresolved table entry found by
\* counting down the tables.
RECURSIVE LookupAt(_, _, _)
LookupAt(tables, writable, at) ==
  LET entries(t) == IF writable THEN t.writable ELSE t.readonly IN
  IF tables = <<>> THEN [left |-> at]
  ELSE IF at < Len(entries(tables[1])) THEN [table |-> tables[1].table, entry |-> entries(tables[1])[at + 1], writable |-> writable]
  ELSE LookupAt(Tail(tables), writable, at - Len(entries(tables[1])))

account(m, index) ==
  LET n == Len(m.keys)
      signer == index < m.signatures
      writable == LookupAt(m.lookups, TRUE, index - n) IN
  IF index < n
    THEN [key |-> m.keys[index + 1], signer |-> signer,
          writable |-> IF signer THEN index < m.signatures - m.readonlySigned ELSE index < n - m.readonlyUnsigned]
  ELSE IF "left" \in DOMAIN writable THEN LookupAt(m.lookups, FALSE, writable.left) ELSE writable

\* The built-in readings: roles and the names of the arguments.
Layout(program, op) ==
  CASE program \in DOMAIN PumpCatalog -> IF op \in DOMAIN PumpCatalog[program] THEN PumpCatalog[program][op] ELSE None
    [] program = SystemProgram /\ op = "transfer" -> [roles |-> 2, args |-> <<"lamports">>]
    [] program = SystemProgram /\ op = "create" -> [roles |-> 2, args |-> <<"lamports", "space", "owner program">>]
    [] program = ComputeProgram /\ op \in {"limit", "price"} -> [roles |-> 0, args |-> <<op>>]
    [] program = TokenProgram /\ op = "close" -> [roles |-> 3, args |-> <<>>]
    [] program = TokenProgram /\ op = "syncNative" -> [roles |-> 1, args |-> <<>>]
    [] program = TokenProgram /\ op = "transfer" -> [roles |-> 3, args |-> <<"amount">>]
    [] program = TokenProgram /\ op = "transferChecked" -> [roles |-> 4, args |-> <<"amount", "decimals">>]
    [] program = AssociatedProgram /\ op \in {"create", "createIdempotent"} -> [roles |-> 6, args |-> <<>>]
    [] OTHER -> None

\* An instruction is read when its layout consumes the data exactly and its
\* roles are filled; otherwise it is shown undecoded.
decode_instruction(program, data) ==
  LET layout == Layout(program, data.op) IN
  IF layout = None THEN None
  ELSE IF Len(data.args) = Len(layout.args) /\ data.rest = 0 THEN [name |-> data.op, roles |-> layout.roles, args |-> layout.args] ELSE None

ReadInstruction(m, i) ==
  LET ix == m.instructions[i]
      program == m.keys[ix.program + 1]
      read == decode_instruction(program, ix.data)
      known == read # None /\ (read # None => Len(ix.accounts) >= read.roles) IN
  [program |-> program, name |-> IF known THEN read.name ELSE "undecoded", data |-> ix.data,
   fields |-> IF known THEN [j \in DOMAIN read.args |-> <<read.args[j], ix.data.args[j]>>] ELSE <<>>,
   accounts |-> [j \in DOMAIN ix.accounts |-> account(m, ix.accounts[j])]]

inspect(m) ==
  IF ~parse_versioned_message(m) THEN Refused
  ELSE [payer |-> m.keys[1], signers |-> SubSeq(m.keys, 1, m.signatures), blockhash |-> m.blockhash,
        digest |-> m, binding |-> blockhash_independent_digest(m), instructions |-> [i \in DOMAIN m.instructions |-> ReadInstruction(m, i)]]

-----------------------------------------------------------------------------
\* solana_review.rs

validate_scope_pump(terms, class) ==
  /\ ~Exact(terms) /\ class \in PumpClasses /\ terms.selector.classes = {class} /\ terms.selector.grants = {}
  /\ terms.suites = {"ed25519"} /\ terms.operations = 1 /\ terms.signatures = 1

reading(m) ==
  LET read == inspect(m) IN
  IF read = Refused THEN Refused ELSE IF read.payer # SolanaOwner THEN Refused ELSE read

\* div_ceil of limit times price; None unless each is set exactly once.
priority_fee_budget(read) ==
  LET of(name) == {i \in DOMAIN read.instructions : read.instructions[i].name = name /\ read.instructions[i].program = ComputeProgram}
      value(name) == read.instructions[CHOOSE i \in of(name) : TRUE].fields[1][2].uint IN
  IF Cardinality(of("limit")) # 1 \/ Cardinality(of("price")) # 1 THEN None
  ELSE Uint((value("limit") * value("price") + MicroLamports - 1) \div MicroLamports)

prepare_pump(req) ==
  LET m == req.message[1]  read == reading(m) IN
  IF req.petal = None THEN Refused
  ELSE IF \/ ~validate_scope_pump(req, req.petal.class) \/ req.petal.suite # "ed25519"
          \/ Len(req.message) # 1 \/ req.evm # <<>> \/ req.safe # <<>>
    THEN Refused
  ELSE IF read = Refused THEN Refused
  ELSE IF req.petal.hashes # <<m>> \/ req.petal.digest # <<m>> THEN Refused
  ELSE Accept([kind |-> "solana_message", signer |-> SolanaOwner, binding |-> read.binding, blockhash |-> read.blockhash,
               signers |-> read.signers, instructions |-> read.instructions, fee |-> priority_fee_budget(read)])

verify_use_pump(terms, use, approved) ==
  LET actual == reading(use.payloads[1]) IN
  /\ use.claim # None /\ validate_scope_pump(terms, use.claim.class)
  /\ use.suite = "ed25519" /\ use.claim.suite = use.suite /\ Len(use.payloads) = 1
  /\ actual # Refused
  /\ approved # None /\ approved.kind = "solana_message" /\ approved.signer = SolanaOwner /\ approved.binding = actual.binding

-----------------------------------------------------------------------------
\* bloom-solana-verify and assurance_verifiers.rs: a native transfer.

\* The verifier keeps a parser of its own, which knows no lookup tables.
verifier_sanitize(m) ==
  /\ 0 < m.signatures /\ m.readonlySigned < m.signatures /\ m.signatures + m.readonlyUnsigned <= Len(m.keys)
  /\ \A ix \in Range(m.instructions) :
       0 < ix.program /\ \A at \in {ix.program} \cup Range(ix.accounts) : at < Len(m.keys)

verifier_parse_message(m) ==
  m.version = "legacy" /\ Len(m.keys) <= MaxAccounts /\ m.trailing = 0 /\ verifier_sanitize(m)

\* The lamports of a transfer, the whole data being one.
decode_transfer_data(data) ==
  IF data.op = "transfer" /\ Len(data.args) = 1 /\ data.rest = 0 THEN [lamports |-> data.args[1].uint] ELSE None

\* The message moves exactly these lamports from the account to the destination.
\* Mutant: the transfer may come with other instructions.
verify_native_transfer_Extra(m, payer, destination, lamports, digest) ==
  /\ verifier_parse_message(m) /\ m.keys[1] = payer /\ m.keys[2] = destination
  /\ m.instructions[1].data.op = "transfer" /\ m.instructions[1].data.args[1].uint = lamports

verify_native_transfer(m, payer, destination, lamports, digest) ==
  /\ m.size + 1 + 1 <= PacketSize /\ verifier_parse_message(m)
  /\ m.signatures = 1 /\ Len(m.keys) = 3 /\ m.readonlyUnsigned = 1
  /\ m.keys[1] = payer /\ m.keys[3] = SystemProgram
  /\ Cardinality({payer, m.keys[2], SystemProgram}) = 3
  /\ Len(m.instructions) = 1
  /\ LET ix == m.instructions[1] IN
     /\ ix.program = 2 /\ ix.accounts = <<0, 1>>
     /\ decode_transfer_data(ix.data) = [lamports |-> lamports] /\ lamports # 0
  /\ m.keys[2] = destination /\ digest = m

verify_fee(declared) == declared = LamportsPerSignature

SolanaNative == [chain |-> [venue |-> "solana"], token |-> "native"]

\* verify_system of the compiled verifier: the claim is what the message does.
verify_system(claim, evidence, signer) ==
  /\ evidence # None /\ signer # ""
  /\ claim.component = "bloom-machine" /\ claim.action = "solana.transfer.confirm" /\ claim.class = "solana.native-transfer"
  /\ claim.suite = "ed25519"
  /\ \E d \in claim.debits, to \in claim.dests :
       /\ claim.debits = {d} /\ claim.dests = {to} /\ to[1] = [venue |-> "solana"] /\ d.asset = SolanaNative
       /\ verify_native_transfer(evidence, signer, to[2], d.amount, claim.digest)
  /\ evidence.blockhash = claim.blockhash
  /\ claim.fee # None /\ claim.fee.asset = SolanaNative /\ verify_fee(claim.fee.amount)
=============================================================================
