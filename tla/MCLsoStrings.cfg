\* Every bag over five keys and five values, every version argument, every
\* list of up to two name/value pairs, and every directory/prefix pair of
\* paths up to three characters long.
CONSTANTS
    StdCustomProps <- MCStd
    VersionObjMD <- MCVersion
    OrigFntl <- MCOrig
    Keys <- MCKeys
    Vals <- MCVals
    Versions <- MCVersions
    MaxPairs = 2
    Paths <- MCPaths
    Names <- MCNames
SPECIFICATION HelpersSpec
INVARIANT RoundTrip
INVARIANT PropsRoundTrip
INVARIANT ValAgrees
INVARIANT SkipDirSound
INVARIANT NormalizeMostSpecific
INVARIANT StrictAgreesWithMime
