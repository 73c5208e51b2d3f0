CONSTANTS
    Items = {i1, i2, i3, i4, i5}
    Null = Null
SPECIFICATION Spec
SYMMETRY ItemSymmetry
INVARIANTS TypeOK ZIndexIsHeight UlBelowLink
\* The page stops creating items once the pool is used up.
CHECK_DEADLOCK FALSE
