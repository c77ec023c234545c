CONSTANTS
  HeaderId <- MergeId
  ParentIds <- MergeParents
  Author <- MergeAuthor
  Device <- PairDevice
  Link <- PairLink
  MaxHave = 3
  MaxDeliver = 2
SPECIFICATION Spec
INVARIANTS
  WaitsOnlyWhenCaughtUp
CHECK_DEADLOCK FALSE
