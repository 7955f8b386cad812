CONSTANTS
  n1 = n1
  n2 = n2
  n3 = n3
  Nodes <- MCNodes
  CacheSizes <- MCTightOnly
  TornSizes <- MCNone
  BlockSize = 2
  MaxEdges = 2
  Unit = 2
SYMMETRY MCSymmetry
SPECIFICATION Spec
INVARIANT
  InsertedEdgesAreRead
