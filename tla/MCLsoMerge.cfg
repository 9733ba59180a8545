\* Order and content of the merged page: a directory, two statuses, the
\* present flag and versions, over at most two pages of two entries.
CONSTANTS
    Names <- MCNames
    DirNames <- MCDirs
    Statuses = {0, 1}
    Vers = {"", "v"}
    Locs = {""}
    MaxLists = 2
    MaxSizes = {0, 2}
    ExtraCap = 1
    MaxPage = 2
    NoEnt = NoEnt

SPECIFICATION Spec
INVARIANT TypeOK
INVARIANT MergedInOrder
INVARIANT PresentPreferred
INVARIANT VersionFilled

\* MergeLso returns; its caller goes on.
CHECK_DEADLOCK FALSE
