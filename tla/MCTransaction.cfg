CONSTANTS
  c1 = c1
  c2 = c2
  x = x
  y = y
  NoConn = NoConn
  NoBlock = NoBlock
  Conns = {c1, c2}
  Cells <- MCCells
  Values <- MCValues
  Blocks <- MCBlocks
  InitialDb <- MCInitialDb

SPECIFICATION FairSpec

INVARIANTS
  IInv
  NoStaleDepth
  LockOnlyInBlock
  WorkIsPrefix

PROPERTIES
  AtomicCommit
  BlocksEnd
