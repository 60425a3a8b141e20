\* A renewal the console acknowledged is the one that is stored.
SPECIFICATION Spec
CONSTANTS
    Day = 1
    DefaultDays = 2
    Operators = {alice}
    DefIds = {d1}
    NoDef = NoDef
    Threads = {t1}
    Sched = Sched
    Requests = {"save", "run", "reauthorise", "delete"}
    DayChoices = {0}
    Intervals = {1}
    Survives = {TRUE}
    Notifies = {TRUE}
    MaxDefinitions = 2
    MaxActiveJobs = 1
    MaxClock = 3
    MaxLag = 1
    MaxRequests = 3
    MaxJobs = 2
    MaxFaults = 0
    MaxCrashes = 0
SYMMETRY Symmetry
INVARIANTS ReaffirmationSticks
CHECK_DEADLOCK FALSE
