CONSTANTS
    ChangeDialogs = {c1, c2}
    InfoDialogs = {n1, t1}
    Callouts = {n1, t1}
    Null = Null
    MaxPending = 2
    PreviewLen = 3
    Text <- FullText
    n1 = n1
    t1 = t1
    Order <- MCOrder
    Contents <- MCContents
SPECIFICATION PageSpec
INVARIANT InfoMatchesCallout
PROPERTY InfosEventuallyMade
