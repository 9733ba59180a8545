\* Concurrent put, complete and abort of one multipart upload.
CONSTANTS
    c1 = c1
    c2 = c2
    c3 = c3
    Clients <- MCClients
    PartNums = {1, 2}
    Data = {"a", "b"}
    Ops <- MCOps
    Remotes = {FALSE, TRUE}

SPECIFICATION Spec
SYMMETRY MCSymmetry
INVARIANT TypeOK
INVARIANT CompletedInPartOrder
INVARIANT ObjectMatchesParts

\* Every handler answers; then nothing is left to do.
CHECK_DEADLOCK FALSE
