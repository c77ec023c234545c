CONSTANTS
  HeaderId <- ForestId
  ParentIds <- ForestParents
  Author <- ForestAuthor
  Device <- PairDevice
  Link <- PairLink
  MaxHave = 3
  MaxDeliver = 2
SPECIFICATION Spec
INVARIANTS
  KnownIsClosed
CHECK_DEADLOCK FALSE
