SPECIFICATION Spec
CONSTANTS
  None = None
  a1 = a1
  a2 = a2
  a3 = a3
  usd = usd
  Approvals = {a1, a2}
  OperationIds = {o1}
  ActivationIds = {k1, k2}
  Digests = {d1, d2}
  Fields = {f1}
  AttemptIds = {t1, t2}
  Envelopes = {e1, e2}
  Results = {r1, r2}
  Assets = {usd}
  Charges <- OneCharge
  MaxOperations <- ManyOperations
  MaxSignatures <- ManyOperations
  RateLimits <- NoTimeLimits
  ValueLimits <- NoValues
  RollingLimits <- NoTimeLimits
  KeyTargets <- LineageTargets
  DurableClockGuard = TRUE
  MaxTime = 1
  MaxBatchChildren = 2
INVARIANTS
  PublishedIsCharged
  AuditCorrelated
PROPERTIES
  NoActivationAfterKeyStop
SYMMETRY Symmetry
CHECK_DEADLOCK FALSE
