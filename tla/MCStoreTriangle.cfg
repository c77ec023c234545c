CONSTANTS
  Device <- ThreeDevice
  Seed <- OneSeed
  Link <- TriangleLink
  Operation = {x}
  BlockCount = 2
  MerkleLimit = 1
  BlockLimit = 1
SPECIFICATION Spec
INVARIANTS
  TypeOK
  MissingWhileDownloading
  WaitsOnlyForWhatIsMissing
  OneRequestOutstanding
CHECK_DEADLOCK FALSE
