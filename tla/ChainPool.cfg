\* A transaction in the pool that spends one of a disconnected block.
CONSTANTS
  g = g
  r = r
  p = p
  a1 = a1
  a2 = a2
  a3 = a3
  x4 = x4
  b1 = b1
  b2 = b2
  b3 = b3
  b3ok = b3ok
  c0 = c0
  s = s
  t1 = t1
  t2 = t2
  t3 = t3
  t4 = t4
  t5 = t5
  t6 = t6
  t7 = t7
  t8 = t8
  Nil = Nil
  Genesis = g
  Blocks = {g, r, p, a1, a2, b1, b2, b3ok}
  Prev <- MCPrev
  Height <- MCHeight
  ChainTrust <- MCChainTrust
  Txs = {c0, s, t1, t2, t3, t4, t5, t8}
  vtx <- MCvtx
  NumOut <- MCNumOut
  vin <- MCvin
  Minted = {c0, s}
  BadBlocks = {}
  NonStandard = {}
  Maturity = 1
  PayeeBlocks = {}
  Estimated = {r, p}
  Events = {}
SPECIFICATION FairSpec
INVARIANTS
  PoolConnected
CHECK_DEADLOCK FALSE
