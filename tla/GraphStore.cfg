CONSTANTS
  n1 = n1
  n2 = n2
  n3 = n3
  Nodes <- MCNodes
  CacheSizes <- MCBoth
  TornSizes <- MCRoomyOnly
  BlockSize = 2
  MaxEdges = 2
  Unit = 2
SYMMETRY MCSymmetry
SPECIFICATION Spec
INVARIANTS
  IdsAreABijection
  NothingIsInvented
  CentralitiesAreHarmonic
PROPERTIES
  ImplementsEdgeMultigraph
