CONSTANTS
    Items = {i1, i2, i3, i4}
    Null = Null
SPECIFICATION Spec
SYMMETRY ItemSymmetry
INVARIANT SpecNonDecreasingToLeaf
CHECK_DEADLOCK FALSE
