\* Can a completion and an abort of one upload both succeed?
CONSTANTS
    c1 = c1
    c2 = c2
    c3 = c3
    Clients <- MCClients
    PartNums = {1, 2}
    Data = {"a", "b"}
    Ops <- MCOps
    Remotes = {FALSE, TRUE}

SPECIFICATION Spec
SYMMETRY MCSymmetry
INVARIANT CompleteAbortExclusive

\* Every handler answers; then nothing is left to do.
CHECK_DEADLOCK FALSE
