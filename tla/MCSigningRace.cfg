SPECIFICATION ServiceSpec
CONSTANTS
  None = None
  a1 = a1
  a2 = a2
  o1 = o1
  d1 = d1
  d2 = d2
  f1 = f1
  r1 = r1
  Approvals = {a1, a2}
  OperationIds = {o1}
  ActivationIds = {k1, k2}
  Digests = {d1, d2}
  Fields = {f1}
  AttemptIds = {c1, c2}
  Envelopes = {e1}
  Results = {r1}
  Assets = {}
  Charges <- OneCharge
  MaxOperations <- FewOperations
  MaxSignatures <- FewOperations
  RateLimits <- NoTimeLimits
  ValueLimits <- NoValues
  RollingLimits <- NoTimeLimits
  KeyTargets <- NoTargets
  DurableClockGuard = FALSE
  MaxTime = 1
  MaxBatchChildren = 1
  Calls = {c1, c2}
  Requests <- Conflicting
  SignerResult <- Signed
  MaxCrashes = 1
INVARIANTS
  SentAtMostOnce
  SignedIsNeverReleased
  OutcomeAgrees
PROPERTIES
  ImplementsJournal
SYMMETRY Symmetry
