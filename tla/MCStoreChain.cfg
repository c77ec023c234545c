CONSTANTS
  Device <- ThreeDevice
  Seed <- OneSeed
  Link <- ChainLink
  Operation = {x}
  BlockCount = 1
  MerkleLimit = 1
  BlockLimit = 1
SPECIFICATION FairSpec
PROPERTIES
  EveryoneGetsTheStore
CHECK_DEADLOCK FALSE
