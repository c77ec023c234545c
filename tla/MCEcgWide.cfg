CONSTANTS
  HeaderId <- WideId
  ParentIds <- WideParents
  Author <- WideAuthor
  Device <- PairDevice
  Link <- WideLink
  MaxHave = 2
  MaxDeliver = 2
SPECIFICATION Spec
PROPERTIES
  ProposesSomethingNew
CHECK_DEADLOCK FALSE
