SPECIFICATION RunSpec
CONSTANTS
  Plans <- AllPlans
  data = data
  index = index
  W = {data, index}
  First = data
  ChunkPackets = 3
  MaxQuota = 2
  MaxOther = 1
INVARIANTS SavedIsDurable RestoredIsComplete LocalChecksumIsExact ChunkIsDurable
