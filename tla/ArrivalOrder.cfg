\* Blocks in any order, two of one stake, one with its kernel on one side of
\* the fork, one that does not connect, one refused, one with too little work,
\* restarts.  The peer sends what it is asked for.
CONSTANTS
  g = g
  a1 = a1
  a2 = a2
  a3 = a3
  b1 = b1
  b2 = b2
  b3 = b3
  c2 = c2
  c3 = c3
  d2 = d2
  Nil = Nil
  Genesis = g
  Blocks = {g, a1, a2, a3, b1, b2, b3, c2, c3, d2}
  Prev <- MCPrev
  Height <- MCHeight
  ChainTrust <- MCChainTrust
  Txs = {}
  vtx <- MCvtx
  NumOut <- NoTx
  vin <- NoTx
  Minted = {}
  NonStandard = {}
  Maturity = 0
  BadBlocks = {b2}
  Stake <- MCStake
  Kernel <- MCKernel
  Unsound = {}
  Refused = {a3}
  TooLittle = {d2}
  Checkpoints = {}
  Own = {}
  MayRestart = TRUE
SPECIFICATION FairSpec
INVARIANTS
  TypeOK OrphanMapsAgree OrphansWait OrderIndependent
PROPERTIES
  OrphansConnect
