CONSTANTS
  Hashes <- MCHashes
  Docs <- MCDocs
  Segments <- MCSegments
  SegmentOf <- MCSegmentOf
  Pages <- MCPages
  Requests <- MCRequests
SPECIFICATION Spec
INVARIANTS
  ShowsAGreedyRanking
  SegmentsDoNotShow
PROPERTIES
  RankingEnds
CHECK_DEADLOCK FALSE
