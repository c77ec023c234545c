CONSTANTS
  Device <- TwoSeedDevice
  Seed <- TwoSeeds
  Link <- TwoSeedLink
  Operation = {x}
  BlockCount = 1
  MerkleLimit = 1
  BlockLimit = 1
SPECIFICATION Spec
INVARIANTS
  OperationsOnlyWhileSyncing
CHECK_DEADLOCK FALSE
