CONSTANTS
    B = 8
    L = 2
    Width = 64
    Sizes = {0, 1, 3, 5, 8, 16, 21}
    MaxBytes = 30
SPECIFICATION Spec
INVARIANTS
    TypeOK
    NothingLost
    HashedIsPadded
CHECK_DEADLOCK FALSE
