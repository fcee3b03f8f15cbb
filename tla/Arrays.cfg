\* Two pointers and NULL, and two elements, are enough to see a change of order.
CONSTANTS
    Pointer = {n1, n2}
    Null = Null
    Unset = Unset
    Cap = 0
    MaxCapcity = 4
    Unwritten = Unwritten
    Element = {e1, e2}
    Capcities = {0, 2}
    NoPtr = NoPtr
    MaxElements = 4
    MaxCalls = 6
SPECIFICATION ArraysSpec
SYMMETRY Symmetry
PROPERTIES
    ImplementsLifo
    ImplementsList
    IterationExact
