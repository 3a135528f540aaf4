\* Reads and writes through three handles; Exists only outside transactions.
CONSTANTS
  Keys = {k1, k2}
  Values = {v1}
  Nil = Nil
  Handles = {h1, h2, h3}
  Writers = {h1, h2}
  ExistsInTxn = FALSE
  MaxBatch = 2
SPECIFICATION Spec
PROPERTIES
  Transactional
