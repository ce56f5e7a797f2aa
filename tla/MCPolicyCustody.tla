---------------------------- MODULE MCPolicyCustody ----------------------------
EXTENDS PolicyCustody, Sequences, TLC

Operations ==
  [reg |-> "register", up1 |-> "update", up2 |-> "update", del |-> "delete",
   all |-> "allocate", ret |-> "retire", dv1 |-> "derive", dv2 |-> "derive"]

\* Two updates race; a registration is adopted late; a deletion races reads;
\* accounts and scopes.
OperationSets == {{"up1", "up2"}, {"reg", "up1"}, {"del", "up1"}, {"all", "ret"}, {"dv1", "dv2"}}

Evm(account) == [profile |-> "evm", account |-> account]
Solana(account) == [profile |-> "solana", account |-> account]

AccountTerms ==
  {[derivations |-> {Evm(None)}, retire |-> FALSE, version |-> 1],
   [derivations |-> {Evm(None), Solana(1)}, retire |-> FALSE, version |-> 1],
   [derivations |-> {}, retire |-> TRUE, version |-> 1]}

Child(profile, account, index) == [profile |-> profile, account |-> account, index |-> index]

ChildLists ==
  {<<Child("evm", 0, 1)>>, <<Child("evm", 1, 1)>>,
   <<Child("evm", 0, 1), Child("solana", 1, 0)>>,
   <<Child("evm", 0, 2), Child("solana", 1, 0)>>,
   <<Child("evm", 0, 1), Child("evm", 0, 2)>>}

PermittedScopes == [p \in {"p", "q", "legacy"} |-> IF p = "q" THEN {"s1"} ELSE {"s1", "s2"}]
=============================================================================
