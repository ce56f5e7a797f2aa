SPECIFICATION FairSpec
CONSTANTS
  m1 = m1
  m2 = m2
  Mutators = {m1, m2}
  Worlds <- BothWorlds
  MaxKey = 2
  MaxPeer = 1
INVARIANTS
  NoSpuriousLatch
  RetainedIsCommitted
PROPERTIES
  CommittedIsRetained
