\* Three branches over a common history of names; calls that end halfway.
CONSTANTS
  g = g
  h1 = h1
  h2 = h2
  h3 = h3
  h4 = h4
  a1 = a1
  a2 = a2
  b1 = b1
  b2 = b2
  b3 = b3
  d4 = d4
  d5 = d5
  n = n
  m = m
  k = k
  l = l
  fund = fund
  n1 = n1
  n2 = n2
  n3 = n3
  n4 = n4
  n5 = n5
  n6 = n6
  n7 = n7
  n8 = n8
  n9 = n9
  m1 = m1
  m2 = m2
  m3 = m3
  m4 = m4
  m5 = m5
  k1 = k1
  k2 = k2
  k3 = k3
  k4 = k4
  l1 = l1
  Nil = Nil
  Genesis = g
  Prev <- MCPrev
  Height <- MCHeight
  ChainTrust <- MCHeight
  vtx <- MCvtx
  NumOut <- MCNumOut
  vin <- MCvin
  Minted = {}
  BadBlocks = {}
  NonStandard = {}
  Maturity = 0
  NameOf <- MCNameOf
  OpOf <- MCOpOf
  nOut <- MCnOut
  Rental <- MCRental
  NAMEINDEX_CHAIN_SIZE = 3
  Blocks = {g, h1, h2, h3, h4, a1, a2, b1, b2, b3, d4, d5}
  Txs = {fund, n1, n2, n3, n4, n5, n6, n7, n8, n9, m1, m2, m3, m4, m5, k1, k2, k3, k4, l1}
  Names = {n, m, k, l}
  Underpaid = {k4}
  Submitted = {m5}
  RELEASE_HEIGHT = 1
  INT_MAX = 12
SPECIFICATION Spec
INVARIANTS
  TypeOK NamesPathIndependent OnlyHolderChanges ActiveChainStart
  AbortOnlyOnRefused PendingUnconfirmed
