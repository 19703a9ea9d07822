SPECIFICATION FairSpec
CONSTANTS
    Releases <- MCReleases
    First <- MCFirst
    Jobs = {j1, j2}
    Torn = Torn
    None = None
    MaxFaults = 2
    MaxClicks = 1
INVARIANTS
    TypeOK
    MixedIsSeen
    NotedIsInstalled
PROPERTIES
    Updated
    StaysUpToDate
\* A machine whose agent is torn stays as it is.
CHECK_DEADLOCK FALSE
