\* onLoad's tab construction over every version-details div of five children.
CONSTANTS
    MaxChildren <- MCMaxChildren
    None = None
SPECIFICATION Spec
INVARIANT TabsMatchPanels TabsSurviveMissingLink
\* the each() ends once every heading is visited.
CHECK_DEADLOCK FALSE
