CONSTANTS
    p1 = p1
    p2 = p2
    n1 = n1
    n2 = n2
    n3 = n3
    none = none
    Paths = {p1, p2}
    Inodes = {n1, n2, n3}
    Missing = none
    MaxBlobs = 3
SYMMETRY CacheSymmetry
SPECIFICATION Spec
INVARIANT FdsOwned
INVARIANT NoHandleLeak
INVARIANT CursorInList
PROPERTY ImplementsScriptCache
