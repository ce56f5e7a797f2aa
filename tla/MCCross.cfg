SPECIFICATION Spec
CONSTANTS
  Threads = {t1, t2}
  Faults <- SomeFaults
CHECK_DEADLOCK FALSE
INVARIANTS CancelEndsBothTabs AddedIsNotReportedDead
PROPERTIES TabsEnd AddedIsAdopted
