SPECIFICATION Spec
CONSTANTS
  None = None
  a1 = a1
  a2 = a2
  a3 = a3
  usd = usd
  Approvals = {a1, a2}
  OperationIds = {o1, o2}
  ActivationIds = {k1, k2}
  Digests = {d1}
  Fields = {}
  AttemptIds = {}
  Envelopes = {}
  Results = {}
  Assets = {usd}
  Charges <- LedgerCharges
  MaxOperations <- LedgerOperations
  MaxSignatures <- LedgerSignatures
  RateLimits <- LedgerRates
  ValueLimits <- LedgerValues
  RollingLimits <- LedgerRolling
  KeyTargets <- NoTargets
  DurableClockGuard = TRUE
  MaxTime = 2
  MaxBatchChildren = 2
INVARIANTS
  SpendingBudget
  RollingOperations
  RollingSpending
  RenewalConsumesLineage
SYMMETRY Symmetry
CHECK_DEADLOCK FALSE
