\* Two submissions at once.
SPECIFICATION Spec
CONSTANTS
    Texts <- MCTexts
    Blank = ""
    Norm <- MCNorm
    HostOf <- MCHostOf
    NoHost <- MCNoHost
    Assessable <- MCAssessable
    NetworkOf <- MCNetworkOf
    Requests <- MCTwoRequests
    Callers = {c1, c2}
    MaxSubmits = 2
    MaxFaults = 0
INVARIANTS LossShows
CHECK_DEADLOCK FALSE
