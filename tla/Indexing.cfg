CONSTANTS
  us = us
  fr = fr
  h1 = h1
  h2 = h2
  Unknown = Unknown
  Attempts = 2
  TopN = 2
  FinalSegments = 2
  Plans <- MCPlans
  Content <- MCContent
  Wanted <- MCWanted
  Titled <- MCTitled
  RegionOf <- MCRegionOf
  HostOf <- MCHostOf
  WordsOf <- MCWordsOf
SPECIFICATION Spec
INVARIANTS
  EveryPageIsThere
  PagesKeepTheirUrls
  CountersTellThePages
  PanicsAreAccountedFor
PROPERTIES
  RunEnds
CHECK_DEADLOCK FALSE
