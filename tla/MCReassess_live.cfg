\* Fair scheduling over a daily assessment: two due dates, a lapse, a renewal,
\* with a failed write and a restart.
SPECIFICATION FairSpec
CONSTANTS
    Day = 1
    DefaultDays = 3
    Operators = {alice}
    DefIds = {d1}
    NoDef = NoDef
    Threads = {t1}
    Sched = Sched
    Requests = {"save", "run", "reauthorise", "delete"}
    DayChoices = {0}
    Intervals = {1}
    Survives = {TRUE}
    Notifies = {FALSE}
    MaxDefinitions = 2
    MaxActiveJobs = 1
    MaxClock = 5
    MaxLag = 0
    MaxRequests = 2
    MaxJobs = 6
    MaxFaults = 1
    MaxCrashes = 1
INVARIANTS ScheduledRunsSpaced
PROPERTIES DueIsServed
