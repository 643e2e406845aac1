SPECIFICATION ServerSpec
CONSTANTS
    Sizes = {1, 2, 3}
    IovMax = 3
    WritevMax = 4
    MaxBytes = 5
INVARIANT VectorExact
