\* Three runs one after the other, and a failing write, a lost export or a stop.
SPECIFICATION Spec
CONSTANTS
    f1 = f1
    f2 = f2
    x = x
    y = y
    Ids = {f1, f2}
    Tools = {x, y}
    NoFinding = NoFinding
    Sinks = {siem, file}
    Rules = {"change", "worse"}
    Reports <- MCReports
    MaxRuns = 3
    MaxOverlap = 1
    MaxFaults = 1
INVARIANTS TypeOK LedgerFollows FoldedJustly NoticesHonest
CHECK_DEADLOCK FALSE
