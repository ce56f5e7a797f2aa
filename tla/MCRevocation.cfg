SPECIFICATION FairRevocationSpec
CONSTANTS
  None = None
  a1 = a1
  a2 = a2
  a3 = a3
  o1 = o1
  o2 = o2
  i1 = i1
  i2 = i2
  i3 = i3
  k1 = k1
  k2 = k2
  Digests = {d1}
  Fields = {f1}
  AttemptIds = {}
  Envelopes = {}
  Results = {r1}
  Assets = {}
  Charges <- OneCharge
  MaxOperations <- FewOperations
  MaxSignatures <- FewOperations
  RateLimits <- NoTimeLimits
  ValueLimits <- NoValues
  RollingLimits <- NoTimeLimits
  DurableClockGuard = FALSE
  MaxTime = 1
  MaxBatchChildren = 1
  ActivationIds = {i1, i2, i3}
  ActivationOf <- Ids
  Seeded = {a1}
  Approvals = {a1, a2, a3}
  OperationIds = {o1, o2}
  KeyTargets <- KeyApprovals
  Calls = {c1, c2}
  Requests <- AllRequests
  EpochOf <- Epochs
  RenewalOf <- Renewal
  Automation = {a1, a2}
  MaxEpoch = 2
INVARIANTS
  AuthorizedWasLive
  KeyStopReachesEveryTarget
PROPERTIES
  CallsEnd
CHECK_DEADLOCK FALSE
