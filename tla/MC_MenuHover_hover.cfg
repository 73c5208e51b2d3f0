CONSTANTS
    r1 = r1
    r2 = r2
    r3 = r3
    a = a
    b = b
    c = c
    d = d
    Items <- MCItems
    MenuParent <- MCParent
    Null = Null
    Outside = Outside
    Handles = {h1, h2, h3, h4}
    NoTimer = NoTimer
SPECIFICATION OutsideSpec
PROPERTY NoAutoHideUnderPointer
