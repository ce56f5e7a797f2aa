-------------------------- MODULE MCBrokerJournal --------------------------
(* Instances of BrokerJournal for TLC. *)
EXTENDS BrokerJournal, TLC

CONSTANTS a1, a2, a3, usd

\* No limit that depends on time, no declared value.
NoTimeLimits == [a \in Approvals |-> {}]
NoValues == [a \in Approvals |-> <<>>]
ManyOperations == [a \in Approvals |-> 9]

\* Lineage instance: a by-key revocation on the key of a2 and a3.
LineageTargets == [key |-> {a2, a3} \cap Approvals]
NoTargets == <<>>

\* Ledger instance: an approval a1 without time limits and its renewal a2, which
\* is limited to one operation in any window of 1 (a row at time 1 has left it at
\* time 2), to two operations and three signatures in any window of 2 and to a
\* rolling value of 3.
LedgerCharges ==
  {[signatures |-> 1, values |-> [x \in {usd} |-> 2]], [signatures |-> 2, values |-> <<>>]}
LedgerOperations == [a \in Approvals |-> IF a = a1 THEN 2 ELSE 1]
LedgerSignatures == [a \in Approvals |-> 3]
LedgerRates == [a \in Approvals |->
  IF a = a1 THEN {}
  ELSE {[operations |-> 1, signatures |-> 2, duration |-> 1],
        [operations |-> 2, signatures |-> 3, duration |-> 2]}]
LedgerValues == [a \in Approvals |-> [x \in {usd} |-> 3]]
LedgerRolling == [a \in Approvals |->
  IF a = a1 THEN {} ELSE {[asset |-> usd, maximum |-> 3, duration |-> 2]}]

\* Publication instance: one kind of charge, limits out of the way.
OneCharge == {[signatures |-> 1, values |-> <<>>]}

\* Only the approvals, named by the limits and targets above, are told apart.
Symmetry ==
  Permutations(OperationIds) \cup Permutations(ActivationIds) \cup Permutations(Digests)
    \cup Permutations(Fields) \cup Permutations(AttemptIds) \cup Permutations(Envelopes)
    \cup Permutations(Results)
=============================================================================
