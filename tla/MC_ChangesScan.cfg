\* populateChanges over every revision table of at most six rows.
CONSTANT MaxRows <- MCMaxRows
SPECIFICATION Spec
INVARIANT ScanCoversPairs
\* populateChanges returns once the table is removed.
CHECK_DEADLOCK FALSE
