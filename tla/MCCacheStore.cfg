CONSTANTS
  b1 = b1  b2 = b2  b3 = b3
  yes = yes  no = no
  near = near  long = long  far = far  short = short
  Buckets = {b1, b2, b3}
  Vecs <- MCVecs
  Responses = {"r1"}
  Observations = {yes, no}
  Hash <- MCHash
  Unit <- MCUnit
  Dim <- MCDim
  Dot <- MCDot
  TotalCapacity = 4
  MaxObs = 1
  ShardCount = 2
  MaxID = 3
  MaxSeen = 2
  MaxOther = 1
SYMMETRY MCSymmetry
SPECIFICATION MCSpec
CHECK_DEADLOCK FALSE
INVARIANTS StoreTypeOK IndexMatchesLRU WithinCapacity ReservoirCount HoldsMostRecentlyUsed
PROPERTY ImplementsContract
