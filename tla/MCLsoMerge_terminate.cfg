\* Does MergeLso always return?  Pages as in the order run.
CONSTANTS
    Names <- MCNames
    DirNames <- MCDirs
    Statuses = {0, 1}
    Vers = {""}
    Locs = {""}
    MaxLists = 2
    MaxSizes = {0, 2}
    ExtraCap = 1
    MaxPage = 2
    NoEnt = NoEnt

SPECIFICATION Spec
PROPERTY Terminates

\* MergeLso returns; its caller goes on.
CHECK_DEADLOCK FALSE
