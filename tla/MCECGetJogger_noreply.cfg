\* Is every caller waiting on ErrCh released?
CONSTANTS
    r1 = r1
    r2 = r2
    r3 = r3
    Reqs <- MCReqs
    QueueCap = 2
    NoReq = NoReq

SPECIFICATION Spec
PROPERTY EveryTakenAnswered

\* After stop() the jogger returns and nothing is left to do.
CHECK_DEADLOCK FALSE
