\* populateToc over every document of at most four title blocks.
CONSTANTS
    MaxLevel <- MCMaxLevel
    MaxHeadings <- MCMaxHeadings
    Bad = Bad
    Undef = Undef
    NotCreated = NotCreated
SPECIFICATION Spec
INVARIANT TocFollowsOutline
\* The each() ends after the last title block.
CHECK_DEADLOCK FALSE
