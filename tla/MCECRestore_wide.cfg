\* Encoded restore with 1 data and 2 parity slices: up to two slices are
\* rebuilt and the redistribution loop can run out of empty targets.
CONSTANTS
    Self = s0
    p1 = p1
    p2 = p2
    p3 = p3
    Peers <- MCPeers
    HrwOrder <- MCHrwOrder
    Gens <- MCGen1
    DataCnt = 1
    ParityCnt = 2
    CopyModes = {FALSE, TRUE}
    NoMD = NoMD
    NoNode = NoNode
    NoObj = NoObj

SPECIFICATION Spec
INVARIANT TypeOK
INVARIANT RestoredSlicesReleased
INVARIANT ReplicaCoverage
INVARIANT SliceCoverage
PROPERTY ImplementsOutcome

\* One restore request ends: the jogger has nothing left to do.
CHECK_DEADLOCK FALSE
