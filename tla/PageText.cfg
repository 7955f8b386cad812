CONSTANTS
    Piece <- MCPiece
    Tags <- MCTags
    Kinds <- MCKinds
    MaxEdges = 5
    Plain <- MCPlain
SPECIFICATION Spec
INVARIANTS
    ParagraphsAreBlocks
    LinksAreFound
    KeptNextToGood
CHECK_DEADLOCK FALSE
