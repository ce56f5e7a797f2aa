SPECIFICATION Spec
CONSTANTS
  Calls = {c1, c2}
  Kind <- Operations
  Worlds <- OperationSets
  Policies = {"p", "q", "legacy"}
  Legacy = "legacy"
  MaxVersion = 3
  Terms <- AccountTerms
  Receipts <- ChildLists
  Scopes = {"s1", "s2"}
  Permits <- PermittedScopes
  Keys = {k1}
  MaxFaults = 1
  None = None
CHECK_DEADLOCK FALSE
INVARIANTS SwapWasReviewed AccountsAsReviewed ScopedKeyKeepsScope
PROPERTIES PolicyNeverGoesBack
