CONSTANTS
    group_size = 2
    capcity = 5
    MaxSize = 8
SPECIFICATION Spec
INVARIANTS
    OnesAreMembers
    CountNeverShort
    ExactUntilReset
