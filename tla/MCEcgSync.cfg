CONSTANTS
  HeaderId <- ForestId
  ParentIds <- ForestParents
  Author <- ForestAuthor
  Device <- PairDevice
  Link <- PairLink
  MaxHave = 3
  MaxDeliver = 2
SPECIFICATION SentFairSpec
INVARIANTS
  TypeOK
  QueuesInSnapshot
  TheyKnowIsTrue
  DeliverableInOrder
  WaitsOnlyWhenCaughtUp
  OneRequestOutstanding
  SendsOnce
PROPERTIES
  ProposesSomethingNew
  ImplementsReplicas
  EventuallyConsistent
CHECK_DEADLOCK FALSE
