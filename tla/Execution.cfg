\* Three kinds of graders with two cases each, in a slot whose limits are 20, 10 and 10 seconds in
\* ticks of 10.
SPECIFICATION FairSpec
CONSTANTS
    Kind = {"python", "backend", "frontend"}
    Cases = 2
    MaxWritten = 1
    Name = {n1}
    RunLimit = 2
    SetupLimit = 1
    RemoveLimit = 1
    MaxOutput = 2
INVARIANTS
    TypeOK
    AcceptedIsComplete
    CauseIsTrue
    InvalidHasCause
    ReadyIsClean
    EndsWithinLimits
PROPERTIES
    ExecutionEnds
