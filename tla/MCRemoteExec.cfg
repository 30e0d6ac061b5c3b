CONSTANTS
    cell1 = cell1
    cell2 = cell2
    reset1 = reset1
    Requests <- AllRequests
    Resets <- ResetCalls
    MaxAge = 1
    MaxNonces = 2
    MaxSkew = 1
    MaxTime = 5
    MaxAccepted = 4
    Restarted = Restarted

SPECIFICATION Spec

SYMMETRY Symmetry

INVARIANTS
    SecondTimeOnlyIfForgotten
    LateCallsOvertakeNothingOld
