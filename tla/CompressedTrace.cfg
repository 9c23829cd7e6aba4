CONSTANTS
  Threads = {t1, t2}
  BlockSize = 2
  MaxStream = 13
  MaxWrite = 5
  UINT64_MAX = 99
  MaxBlocks = 3
  MaxFile = 4
  MaxRequest = 3
SPECIFICATION MCSpec
INVARIANT RingIntact
INVARIANT FileIsStreamPrefix
INVARIANT GoodMeansComplete
INVARIANT AtEndExact
PROPERTY CallsReturn
PROPERTY ImplementsStreamReader
