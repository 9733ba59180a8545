\* Encoded restore: is MainObjIntact kept by the code?
CONSTANTS
    Self = s0
    p1 = p1
    p2 = p2
    p3 = p3
    Peers <- MCPeers
    HrwOrder <- MCHrwOrder
    Gens <- MCGens
    DataCnt = 2
    ParityCnt = 1
    CopyModes = {FALSE}
    NoMD = NoMD
    NoNode = NoNode
    NoObj = NoObj

SPECIFICATION Spec
INVARIANT MainObjIntact
CHECK_DEADLOCK FALSE
