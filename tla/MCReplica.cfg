CONSTANTS
  LeafCount <- MCLeafCount
  Chunk <- MCChunk
  Content <- MCContent
  Hash <- MCHash
  ChunkHash <- MCChunkHash
  Pair <- MCPair
  Honest <- MCHonest
  HeaderId <- MCHeaderId
  ParentIds <- MCParentIds
  Operations <- MCOperations
  InitialKey <- MCInitialKey
  MaxWrong = 2
SPECIFICATION FairReplicaSpec
INVARIANTS
  TypeOK
  CausallyClosed
  IndexesMatchHeaders
  DepthIsMinimal
  SearchFindsAncestors
  ContentIsTheCreators
  TreeIsNeverStuck
  KeysAreDetermined
  NothingOverwrittenIsShown
  RegistersConverge
PROPERTIES
  DownloadEnds
CHECK_DEADLOCK FALSE
