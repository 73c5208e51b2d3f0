CONSTANTS
    ChangeDialogs = {c1, c2}
    InfoDialogs = {n1}
    Null = Null
    MaxPending = 2
SPECIFICATION Spec
INVARIANT DisplayedIsTracked
