\* Two nodes are enough to see a change of order.
CONSTANTS
    Node = {n1, n2}
    Null = Null
    Junk = Junk
    DEFAULT_QUEUE_SIZE = 2
    MaxCapcity = 7
SPECIFICATION Spec
SYMMETRY Symmetry
INVARIANT PoppedIntact
PROPERTY ImplementsFifo
