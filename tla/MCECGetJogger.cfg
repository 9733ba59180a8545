\* The jogger loop: replies and their meaning, with stop() at any time.
CONSTANTS
    r1 = r1
    r2 = r2
    r3 = r3
    Reqs <- MCReqs
    QueueCap = 2
    NoReq = NoReq

SPECIFICATION Spec
INVARIANT TypeOK
INVARIANT SuccessMeansRestored
PROPERTY AnsweredWhenLomResolves

\* After stop() the jogger returns and nothing is left to do.
CHECK_DEADLOCK FALSE
