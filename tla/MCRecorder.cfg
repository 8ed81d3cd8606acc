SPECIFICATION Spec
CONSTANTS
  Addr <- MCAddr
  Key = {1}
  Val = {0, 1}
  Worlds <- MCWorlds
  Forks <- MCForks
  MaxTxs = 2
  MaxOps <- Three_Two
  MaxBal = 2
  MaxSpawned = 1
CHECK_DEADLOCK FALSE
INVARIANTS TypeOK FaithfulReplay InputIsPreState OutputIsEffect
PROPERTY RevertRestores
