CONSTANTS
  Device <- PairDevice
  Seed <- OneSeed
  Link <- PairLink
  Operation = {x, y}
  BlockCount = 3
  MerkleLimit = 3
  BlockLimit = 2
SPECIFICATION FairSpec
INVARIANTS
  OneExchangePerStream
PROPERTIES
  NothingIsLost
  EventuallyShared
CHECK_DEADLOCK FALSE
