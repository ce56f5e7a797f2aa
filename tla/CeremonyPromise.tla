---------------------------- MODULE CeremonyPromise ----------------------------
(***************************************************************************)
(* What an owner ceremony promises, without sessions, handlers or restarts. *)
(* The Signer decides each operation once.  The Broker adopts a committed  *)
(* operation or refuses it for good, and what it has on record about an    *)
(* operation is true when it is recorded: "done" only of an adopted one,   *)
(* "dead" only of one that is not committed, was refused, or was adopted   *)
(* with a result nobody acknowledged; and an operation on record as dead   *)
(* commits no more.  An operation the Broker abandons, failing it without  *)
(* knowing the Signer's decision, is excepted.                             *)
(***************************************************************************)
CONSTANTS Ops, Sensitive

VARIABLES
  wallet,   \* operation -> "open", "committed" or "released"
  adopted,
  rejected,
  abandoned,
  record    \* operation -> "open", "done" or "dead"

promiseVars == <<wallet, adopted, rejected, abandoned, record>>

Init ==
  /\ wallet = [o \in Ops |-> "open"]
  /\ adopted = {}
  /\ rejected = {}
  /\ abandoned = {}
  /\ record = [o \in Ops |-> "open"]

\* The Signer commits the operation; the answer may be lost on the way.
Commit(o) ==
  /\ wallet[o] = "open"
  /\ record[o] = "dead" => o \in abandoned
  /\ wallet' = [wallet EXCEPT ![o] = "committed"]
  /\ abandoned' \in {abandoned, abandoned \cup {o}}
  /\ UNCHANGED <<adopted, rejected, record>>

Release(o) ==
  /\ wallet[o] = "open"
  /\ wallet' = [wallet EXCEPT ![o] = "released"]
  /\ UNCHANGED <<adopted, rejected, abandoned, record>>

Abandon(o) ==
  /\ abandoned' = abandoned \cup {o}
  /\ UNCHANGED <<wallet, adopted, rejected, record>>

Adopt(o) ==
  /\ wallet[o] = "committed" /\ o \notin adopted \cup rejected
  /\ adopted' = adopted \cup {o}
  /\ UNCHANGED <<wallet, rejected, abandoned, record>>

Reject(o) ==
  /\ wallet[o] = "committed" /\ o \notin adopted \cup rejected
  /\ rejected' = rejected \cup {o}
  /\ UNCHANGED <<wallet, adopted, abandoned, record>>

MayRecord(o, r) ==
  CASE r = "done" -> o \in adopted
    [] r = "dead" -> \/ wallet[o] = "released"
                     \/ o \in rejected \cup abandoned
                     \/ o \in Sensitive /\ o \in adopted
    [] r = "open" -> TRUE

Record(o, r) ==
  /\ MayRecord(o, r)
  /\ record' = [record EXCEPT ![o] = r]
  /\ UNCHANGED <<wallet, adopted, rejected, abandoned>>

\* A start releases an operation and records it, or adopts or refuses it and
\* records it, in one step.
Settle(o) ==
  \/ /\ wallet[o] = "open"
     /\ wallet' = [wallet EXCEPT ![o] = "released"]
     /\ record' = [record EXCEPT ![o] = "dead"]
     /\ UNCHANGED <<adopted, rejected, abandoned>>
  \/ /\ wallet[o] = "committed"
     /\ \/ /\ o \notin rejected /\ adopted' = adopted \cup {o} /\ UNCHANGED rejected
           /\ \E r \in {"done", "open"} : record' = [record EXCEPT ![o] = r]
        \/ /\ o \notin adopted /\ rejected' = rejected \cup {o} /\ UNCHANGED adopted
           /\ record' = [record EXCEPT ![o] = "dead"]
     /\ UNCHANGED <<wallet, abandoned>>

Next ==
  \E o \in Ops :
    \/ Commit(o) \/ Release(o) \/ Abandon(o) \/ Adopt(o) \/ Reject(o) \/ Settle(o)
    \/ \E r \in {"open", "done", "dead"} : Record(o, r)

Spec == Init /\ [][Next]_promiseVars
=============================================================================
