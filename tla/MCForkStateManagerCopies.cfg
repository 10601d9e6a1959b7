CONSTANTS
  mo = mo
  mc = mc
  w1 = w1
  r0 = r0
  Genesis = Genesis
  Empty = Empty
  NoState = NoState
  Original = mo
  Managers <- MCManagers
  Written <- MCWritten
  BlockNumbers <- MCBlockNumbers
  PastBlockRoots <- MCPastBlockRoots
  ForkBlockNumber = 1
  MaxRoots = 4
  MaxCheckpoints = 1

SPECIFICATION Spec

INVARIANT CopiesTypeOK
