CONSTANTS
    Junk = Junk
    Piece <- MCPiece
    Blanks = {1, 2, 5}
    MaxSize = 6
    Bits = 4
SPECIFICATION Spec
INVARIANTS
    HalfFullIsCString
    TrimExact
    NumbersRecognised
    RoundingExact
PROPERTY ImplementsText
