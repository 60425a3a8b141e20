\* Two callers racing for the one slot of the free tier, on a working disk.
SPECIFICATION FairSpec
CONSTANTS
    NoJob = NoJob
    Callers = {c1, c2}
    Targets = {a}
    NAdapters = 1
    FindingIds = {}
    Malformed = {FALSE}
    MaxTargets = 1
    MaxActiveJobs = 1
    MaxFindingsShown = 1
    MaxJobs = 3
    MaxFaults = 0
    MaxStops = 0
INVARIANTS OvershootBounded
PROPERTIES EveryJobEnds
CHECK_DEADLOCK FALSE
