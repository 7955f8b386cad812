CONSTANTS
  a1 = a1
  a2 = a2
  b1 = b1
  h1 = h1
  h2 = h2
  s1 = s1
  s2 = s2
  Nodes <- MCNodes
  Pages <- MCPages
  Hosts <- MCHosts
  HostOf <- MCHostOf
  Segments <- MCSegments
  Builds <- MCFullOnly
  CacheSizes <- MCRoomy
  BlockSize = 2
  MaxEdges = 3
SYMMETRY MCSymmetry
SPECIFICATION SpecWebgraph
INVARIANT
  SegmentsHoldWhatWasPut
