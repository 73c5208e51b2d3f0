\* The order the loop's comment announces, on every table of at most six rows.
CONSTANT MaxRows <- MCMaxRows
SPECIFICATION Spec
INVARIANT ScannedFromEnd
CHECK_DEADLOCK FALSE
