CONSTANTS
  Hashes <- MCHashes
  Docs <- MCDocs
  Doc <- MCDoc
  Home <- MCHome
  NShards = 2
  Replicas <- MCReplicas
  ShardOf <- MCShardOf
  WithBangs <- MCWithBangs
  PerPage = 2
  Attempts = 2
  Queries <- MCQueries
  Unreadable <- MCUnreadable
SPECIFICATION Spec
INVARIANTS
  LossesAreTold
  KeepsTheOrder
  BangWins
PROPERTIES
  SearchEnds
CHECK_DEADLOCK FALSE
