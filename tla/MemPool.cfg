CONSTANTS
    Capacity = 16
    RESERVE_ALLOC_SIZE = 2
    Request = {1, 2, 4}
SPECIFICATION Spec
INVARIANTS
    BlocksApart
    FreeAccounted
    OwnersServed
    RetryFits
