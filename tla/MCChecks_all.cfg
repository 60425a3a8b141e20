\* Every profile, three sites, two answers lost.
SPECIFICATION Spec
CONSTANTS
    Sites <- MCSites
    Scans <- MCScans
    Installed = {"nuclei", "testssl", "nmap"}
    Ports = {22, 80, 443, 993, 3306, 8080}
    MaxFiles = 3
    MaxLost = 2
    MaxAnswers = 1
CHECK_DEADLOCK FALSE
INVARIANTS TypeOK  NothingOverlooked DerivedWhole SilenceIsExplained
