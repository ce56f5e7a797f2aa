----------------------- MODULE MCRevocationAuthority -----------------------
(* Instances of RevocationAuthority for TLC. *)
EXTENDS RevocationAuthority, TLC

CONSTANTS a1, a2, a3, o1, o2, i1, i2, i3, k1, k2

NoTimeLimits == [a \in Approvals |-> {}]
NoValues == [a \in Approvals |-> <<>>]
FewOperations == [a \in Approvals |-> 2]
OneCharge == {[signatures |-> 1, values |-> <<>>]}
Ids == [a \in Approvals |-> CASE a = a1 -> i1 [] a = a2 -> i2 [] a = a3 -> i3]

Request(kind, a, o, k) == [kind |-> kind, approval |-> a, op |-> o, key |-> k]

\* a1 is active under epoch 0 and a2 its renewal, both automation; a3 is an Exact
\* approval of epoch 1.  All use the key k1; k2 has no approval and is asked for
\* under the operation id of the other revocation.
Epochs == [a \in Approvals |-> IF a = a3 THEN 1 ELSE 0]
Renewal == [a \in Approvals |-> IF a = a2 THEN a1 ELSE None]
KeyApprovals == [k \in {k1, k2} |-> IF k = k1 THEN Approvals ELSE {}]
AllRequests ==
  {Request("sign", a1, o1, None), Request("sign", a3, o1, None),
   Request("prepare", a2, o1, None), Request("prepare", a3, o1, None),
   Request("reconcile", None, o1, None), Request("revoke_all", None, o1, None),
   Request("revoke", a1, o1, None), Request("revoke_for_key", None, o1, k1),
   Request("revoke_for_key", None, o1, k2), Request("revoke_for_key", None, o2, k1)}
=============================================================================
