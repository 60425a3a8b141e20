\* Two handlers, the scheduler, notifications, failing disk writes and a restart.
SPECIFICATION Spec
CONSTANTS
    Day = 1
    DefaultDays = 2
    Operators = {alice}
    DefIds = {d1}
    NoDef = NoDef
    Threads = {t1, t2}
    Sched = Sched
    Requests = {"save", "run", "reauthorise", "delete"}
    DayChoices = {0}
    Intervals = {0, 1}
    Survives = {TRUE, FALSE}
    Notifies = {TRUE}
    MaxDefinitions = 1
    MaxActiveJobs = 1
    MaxClock = 3
    MaxLag = 1
    MaxRequests = 2
    MaxJobs = 2
    MaxFaults = 1
    MaxCrashes = 1
SYMMETRY Symmetry
INVARIANTS TypeOK RunsAreAuthorised
PROPERTIES DeletedStaysDeleted Refines
CHECK_DEADLOCK FALSE
