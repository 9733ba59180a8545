\* Encoded restore (meta.IsCopy = false): discovery races, slice timeouts,
\* checksum failures, rebuild and redistribution.
CONSTANTS
    Self = s0
    p1 = p1
    p2 = p2
    p3 = p3
    Peers <- MCPeers
    HrwOrder <- MCHrwOrder
    Gens <- MCGens
    DataCnt = 2
    ParityCnt = 1
    CopyModes = {FALSE, TRUE}
    NoMD = NoMD
    NoNode = NoNode
    NoObj = NoObj

SPECIFICATION Spec
INVARIANT RestoresNewestGeneration
INVARIANT SliceCoverage
\* One restore request ends: the jogger has nothing left to do.
CHECK_DEADLOCK FALSE
