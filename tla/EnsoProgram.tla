----------------------------- MODULE EnsoProgram -----------------------------
(***************************************************************************)
(* The reader of Enso shortcut programs                                    *)
(* (crates/bloom-evm-clear-signing/src/enso.rs): commands that call        *)
(* contracts with arguments taken from a list of state slots, and write    *)
(* what a call returned back into a slot.  The reader executes nothing: a  *)
(* slot written by a call is symbolic from then on.                        *)
(*                                                                         *)
(* A program is [entry, canonical, commands, initial].  A slot holds a     *)
(* literal; what a command returns at run time is known to nobody when     *)
(* the program is read.                                                    *)
(***************************************************************************)
EXTENDS Integers, Sequences, FiniteSets

CONSTANTS
  MaxCommands, \* MAX_COMMANDS
  MaxSlots,    \* the bound on the state's length
  MaxDynamic,  \* the dynamic argument table
  MaxNesting   \* nesting of dynamic arguments

\* What is read is a value, Runtime when it depends on what a call returned,
\* or Bad when the program cannot be read.
Bad == [bad |-> TRUE]
Runtime == [runtime |-> TRUE]
Known(r) == r \notin {Bad, Runtime}

\* Slot contents: one word, several whole words, or other bytes, which a raw
\* command sends as a call.
Word(v) == [word |-> v]
Dynamic(v) == [dynamic |-> v]
Ragged(call) == [ragged |-> call]
IsWord(v) == "word" \in DOMAIN v

\* The state as the reader knows it, or Replaced after a command whose return
\* value replaced it.
Slots(contents) == [slots |-> contents]
Replaced == [replaced |-> TRUE]

\* The contents of a slot; Runtime once a call wrote it.
slot(st, i) ==
  IF st = Replaced THEN Runtime ELSE IF i \in DOMAIN st.slots THEN st.slots[i] ELSE Bad

state_argument(st) ==
  IF st # Replaced /\ \A i \in DOMAIN st.slots : Known(st.slots[i]) THEN Dynamic(st.slots) ELSE Runtime

\* Heads and tails of the arguments, each [value, dynamic].  One that does not
\* fit is found whether or not another is unknown.
encode(args) ==
  LET Misfit(a) == Known(a.value) /\ (IF a.dynamic THEN "ragged" \in DOMAIN a.value ELSE ~IsWord(a.value)) IN
  IF \E i \in DOMAIN args : args[i].value = Bad \/ Misfit(args[i]) THEN Bad
  ELSE IF \E i \in DOMAIN args : args[i].value = Runtime THEN Runtime
  ELSE [seq |-> [i \in DOMAIN args |-> args[i].value]]

\* An argument names a slot, the whole state, or members: a tuple, or an array
\* whose length is in a slot.
RECURSIVE argument(_, _, _)
argument(a, st, depth) ==
  IF "state" \in DOMAIN a THEN [value |-> IF depth > 0 THEN Bad ELSE state_argument(st), dynamic |-> TRUE]
  ELSE IF "slot" \in DOMAIN a THEN [value |-> slot(st, a.slot), dynamic |-> a.dynamic]
  ELSE LET members == encode([i \in DOMAIN a.members |-> argument(a.members[i], st, depth + 1)])
           length == IF a.length = 0 THEN Word([uint |-> 0]) ELSE slot(st, a.length) IN
       [value |-> IF depth >= MaxNesting \/ Bad \in {members, length} THEN Bad
                  ELSE IF Known(length) /\ ~IsWord(length) THEN Bad
                  ELSE IF Runtime \in {members, length} THEN Runtime
                  ELSE Dynamic(IF a.length = 0 THEN members.seq ELSE <<length>> \o members.seq),
        dynamic |-> TRUE]

RECURSIVE DynamicCount(_)
DynamicCount(args) ==
  IF args = <<>> THEN 0
  ELSE (IF "members" \in DOMAIN args[1] THEN 1 + DynamicCount(args[1].members) ELSE 0) + DynamicCount(Tail(args))

\* The calldata a command sends: a slot's bytes for a raw one, else the
\* header's selector and the arguments.
Calldata(cmd, st) ==
  IF cmd.raw # 0
    THEN LET v == slot(st, cmd.raw) IN
         IF ~Known(v) THEN v ELSE IF "ragged" \in DOMAIN v THEN v.ragged ELSE [fn |-> "none", args |-> <<v>>]
    ELSE LET args == encode([i \in DOMAIN cmd.args |-> argument(cmd.args[i], st, 0)]) IN
         IF Known(args) THEN [fn |-> cmd.selector, args |-> args.seq] ELSE args

\* The native value a command sends.
CallValue(cmd, st) ==
  IF cmd.value = 0 THEN Word([uint |-> 0])
  ELSE LET v == slot(st, cmd.value) IN IF Known(v) /\ ~IsWord(v) THEN Bad ELSE v

CommandFails(cmd, st) ==
  \/ cmd.kind = "delegatecall"
  \/ Bad \in {CallValue(cmd, st), Calldata(cmd, st)}
  \/ cmd.output = "slot" /\ slot(st, cmd.slot) = Bad
  \/ cmd.raw = 0 /\ DynamicCount(cmd.args) > MaxDynamic

\* What the reader knows of the state after a command.
\* Mutant: a slot keeps its first literal.
Written_KeepsLiteral(cmd, st) == IF cmd.output = "state" THEN Replaced ELSE st

Written(cmd, st) ==
  IF cmd.output = "state" THEN Replaced
  ELSE IF cmd.output = "none" \/ st = Replaced THEN st
  ELSE [st EXCEPT !.slots[cmd.slot] = Runtime]

\* One step per command, or Bad.
RECURSIVE Steps(_, _)
Steps(cmds, st) ==
  IF cmds = <<>> THEN [steps |-> <<>>]
  ELSE IF CommandFails(cmds[1], st) THEN Bad
  ELSE LET rest == Steps(Tail(cmds), Written(cmds[1], st)) IN
       IF rest = Bad THEN Bad
       ELSE [steps |-> <<[target |-> cmds[1].target, kind |-> cmds[1].kind, value |-> CallValue(cmds[1], st),
                          calldata |-> Calldata(cmds[1], st)]>> \o rest.steps]

decode(program) ==
  IF \/ program.entry # "executeShortcut" \/ ~program.canonical
     \/ Len(program.commands) > MaxCommands \/ Len(program.initial) > MaxSlots
    THEN Bad
    ELSE Steps(program.commands, Slots(program.initial))

-----------------------------------------------------------------------------
\* The virtual machine the program is for, as the reader describes it: a
\* command runs on concrete slots and returns anything of the shape its
\* output index asks for.

Run(cmd, contents, returned) ==
  CASE cmd.output = "none"  -> contents
    [] cmd.output = "slot"  -> [contents EXCEPT ![cmd.slot] = returned]
    [] cmd.output = "state" -> [i \in DOMAIN contents |-> returned]

\* What a step the reader shows as fixed really is at run time.
Faithful(step, cmd, contents) ==
  /\ Known(step.calldata) => step.calldata = Calldata(cmd, Slots(contents))
  /\ Known(step.value) => step.value = CallValue(cmd, Slots(contents))
=============================================================================
