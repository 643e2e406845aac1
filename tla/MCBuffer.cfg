SPECIFICATION Spec
CONSTANTS
    Sizes = {1, 2, 3}
    IovMax = 3
    WritevMax = 4
    MaxBytes = 7
INVARIANT TypeOK
INVARIANT ResumeExact
INVARIANT VectorExact
CHECK_DEADLOCK FALSE
