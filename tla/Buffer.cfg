\* Two buffers, and strings longer than a block; none is taken from while it has no block.
SPECIFICATION Spec
CONSTANTS
    Buffers = {b, c}
    Bytes = {0, 1}
    MinSize = 2
    MaxWrite = 3
    MaxBytes = 4
    EmptySwaps = FALSE
SYMMETRY Symmetry
INVARIANTS
    IInv
    SameAsString
