-------------------------- MODULE MCSigningService --------------------------
(* Instances of SigningService for TLC. *)
EXTENDS SigningService, TLC

CONSTANTS a1, a2, o1, d1, d2, f1, r1

NoTimeLimits == [a \in Approvals |-> {}]
NoValues == [a \in Approvals |-> <<>>]
FewOperations == [a \in Approvals |-> 2]
NoTargets == <<>>
Signed == [o \in OperationIds |-> r1]

Charge == [signatures |-> 1, values |-> <<>>]
OneCharge == {Charge}
Single == [op |-> o1, approval |-> a1, digest |-> d1, fields |-> f1, batch |-> FALSE,
           charge |-> Charge]
\* One request retried by every call.
OneBatch == {[Single EXCEPT !.batch = TRUE]}
\* The same operation id used again under another approval, and as a batch.
Conflicting == {Single, [Single EXCEPT !.approval = a2, !.digest = d2, !.batch = TRUE]}

Symmetry == Permutations(Calls) \cup Permutations(ActivationIds)
=============================================================================
