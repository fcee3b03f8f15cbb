CONSTANTS
    Key = {0, 1, 2}
    Hash <- MCHash
    Value = {v1, v2}
    Zeros = Zeros
    Requested = {0, 1, 3}
    DEFAULT_MAP_CAPCITY = 8
    MaxCapcity = 8
    MaxShifts = 1
    LoadFactors = {0, 4}
SPECIFICATION HashsetSpec
SYMMETRY Symmetry
INVARIANTS
    MapWellFormed
    HeldIntact
    IterationExact
    ArrayExact
PROPERTY ImplementsDictionary
