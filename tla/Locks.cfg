\* Every message and two miners.  The threads may end up waiting for each other.
CONSTANTS
  net = net
  stake = stake
  work = work
  Nil = Nil
  Net = net
  Miners = {stake, work}
  MaxRounds = 2
  Commands = {"block", "tx", "version", "checkpoint"}
SPECIFICATION FairSpec
INVARIANTS
  OnlyCheckpointsOverlap AcceptUnlockedOnlyInNet OnlyNetDeadlocks
PROPERTIES
  LocksReleased
CHECK_DEADLOCK FALSE
