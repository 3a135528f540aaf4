\* Every fault at once: crashes, rollback at start-up, sync-checkpoints, a bad
\* block, an unknown payee, and transactions that race with blocks.
CONSTANTS
  g = g
  r = r
  p = p
  a1 = a1
  a2 = a2
  a3 = a3
  x4 = x4
  b1 = b1
  b2 = b2
  b3 = b3
  b3ok = b3ok
  c0 = c0
  s = s
  t1 = t1
  t2 = t2
  t3 = t3
  t4 = t4
  t5 = t5
  t6 = t6
  t7 = t7
  t8 = t8
  Nil = Nil
  Genesis = g
  Blocks = {g, r, p, a1, a2, a3, x4, b1, b2}
  Prev <- MCPrev
  Height <- MCHeight
  ChainTrust <- MCChainTrust
  Txs = {c0, s, t1, t2, t3, t4, t5}
  vtx <- MCvtx
  NumOut <- MCNumOut
  vin <- MCvin
  Minted = {c0, s}
  BadBlocks = {a3}
  NonStandard = {t2, t3, t5}
  Maturity = 1
  PayeeBlocks = {b1}
  Estimated = {r, p}
  Events = {"crash", "rollback", "checkpoint", "list", "race"}
SPECIFICATION FairSpec
INVARIANTS
  SoundUntilStale MemoryFollowsDisk
PROPERTIES
  SetBestChainEnds
CHECK_DEADLOCK FALSE
