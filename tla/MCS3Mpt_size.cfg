\* Is the size set on a completed object the size of its data?
CONSTANTS
    c1 = c1
    c2 = c2
    c3 = c3
    Clients <- MCClients
    PartNums = {1, 2}
    Data = {"a", "b"}
    Ops <- MCOps
    Remotes = {FALSE, TRUE}

SPECIFICATION Spec
SYMMETRY MCSymmetry
INVARIANT ObjSizeMatchesData

\* Every handler answers; then nothing is left to do.
CHECK_DEADLOCK FALSE
