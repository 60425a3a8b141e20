\* Two callers, a failed write or a restart.
SPECIFICATION Spec
CONSTANTS
    Texts <- MCTexts
    Blank = ""
    Norm <- MCNorm
    HostOf <- MCHostOf
    NoHost <- MCNoHost
    Assessable <- MCAssessable
    NetworkOf <- MCNetworkOf
    Requests <- MCRequests
    Callers = {c1, c2}
    MaxSubmits = 3
    MaxFaults = 1
INVARIANTS TypeOK GateAccounts LogKeeps
CHECK_DEADLOCK FALSE
