\* One adapter returns a malformed finding among others.
SPECIFICATION Spec
CONSTANTS
    NoJob = NoJob
    Callers = {c1}
    Targets = {a}
    NAdapters = 1
    FindingIds = {f}
    Malformed = {TRUE, FALSE}
    MaxTargets = 0
    MaxActiveJobs = 1
    MaxFindingsShown = 0
    MaxJobs = 1
    MaxFaults = 0
    MaxStops = 0
INVARIANTS DropsRecorded
CHECK_DEADLOCK FALSE
