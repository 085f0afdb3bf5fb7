CONSTANTS
  f1 = f1
  f2 = f2
  small = small
  large = large
  k1 = k1
  k2 = k2
  Files <- MCFiles
  Values <- MCValues
  Size <- MCSize
  Keys <- MCKeys
  MetaKeys <- MCMetaKeys
  Capacity = 10
  SeqWrap = 3
  MaxRequests = 4
  MaxFaults = 2
SYMMETRY Symmetry
SPECIFICATION MCSpec
CHECK_DEADLOCK FALSE
INVARIANTS
  CrashKeepsFiles
  PowerLossKeepsFiles
  MemoryFollowsDisk
  KeyNeverLost
  FormatsOncePerRequest
  AllocatorIsBestFit
