SPECIFICATION MCSpec
CONSTANTS
    MaxEnd = 4
    MaxSize = 5
    PadUnit = 1
    Versions = {old, new}
SYMMETRY Editions
VIEW State
INVARIANT
    WellFormed
PROPERTY
    ImplementsDocument
