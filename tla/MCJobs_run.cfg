\* One job in detail: two targets, two adapters, failing writes, a restart.
SPECIFICATION Spec
CONSTANTS
    NoJob = NoJob
    Callers = {c1}
    Targets = {a, b}
    NAdapters = 2
    FindingIds = {f, g}
    Malformed = {FALSE}
    MaxTargets = 0
    MaxActiveJobs = 1
    MaxFindingsShown = 1
    MaxJobs = 1
    MaxFaults = 2
    MaxStops = 1
SYMMETRY Symmetry
INVARIANTS TypeOK CompletedIsWhole ProgressHonest
PROPERTIES ProgressAdvances TerminalIsFinal
CHECK_DEADLOCK FALSE
