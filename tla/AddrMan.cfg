\* Small buckets, so that entries are thrown out of both tables.
CONSTANTS
  s1 = s1
  s1x = s1x
  s2 = s2
  s3 = s3
  i1 = i1
  i2 = i2
  i3 = i3
  p = p
  q = q
  b1 = b1
  b2 = b2
  k1 = k1
  k2 = k2
  Services = {s1, s1x, s2, s3}
  Ips = {i1, i2, i3}
  Ip <- MCIp
  Sources = {p, q}
  NewBuckets = {b1, b2}
  TriedBuckets = {k1, k2}
  NewBucket <- MCNewBucket
  TriedBucket <- MCTriedBucket
  ADDRMAN_NEW_BUCKET_SIZE = 1
  ADDRMAN_TRIED_BUCKET_SIZE = 1
  ADDRMAN_NEW_BUCKETS_PER_ADDRESS = 2
  ADDRMAN_GETADDR_MAX_PCT = 40
  ADDRMAN_GETADDR_MAX = 1
  MaxId = 5
SPECIFICATION Spec
INVARIANTS
  TypeOK CheckEntries CheckTried CheckCounts BucketsBounded
PROPERTIES
  TriedKept ReloadSame
