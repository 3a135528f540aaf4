\* Restarts; checkpoints on the lighter branch, with a block of too little work
\* and a stake of the other branch on it; two blocks refused for other reasons;
\* the tip of the heavier branch may be handed in by a thread of our own.  The
\* peer sends what it is asked for.
CONSTANTS
  g = g
  a1 = a1
  a2 = a2
  a3 = a3
  b1 = b1
  b2 = b2
  b3 = b3
  c2 = c2
  c3 = c3
  d2 = d2
  Nil = Nil
  Genesis = g
  Blocks = {g, a1, a2, a3, b1, b2, b3, c2}
  Prev <- MCPrev
  Height <- MCHeight
  ChainTrust <- MCChainTrust
  Txs = {}
  vtx <- MCvtx
  NumOut <- NoTx
  vin <- NoTx
  Minted = {}
  NonStandard = {}
  Maturity = 0
  BadBlocks = {}
  Stake <- MCStake
  Kernel <- MCKernel
  Unsound = {b3}
  Refused = {c2}
  TooLittle = {a2}
  Checkpoints = {a1, a3}
  Own = {b2}
  MayRestart = TRUE
SPECIFICATION FairSpec
INVARIANTS
  CheckpointOnBestChain
PROPERTIES
  CheckpointAdvances PendingSettled
