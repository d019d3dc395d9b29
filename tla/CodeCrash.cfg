\* As Execution.
SPECIFICATION Spec
CONSTANTS
    Kind = {"python", "backend", "frontend"}
    Cases = 2
    MaxWritten = 1
    Name = {n1}
    RunLimit = 2
    SetupLimit = 1
    RemoveLimit = 1
    MaxOutput = 2
INVARIANTS
    RetriedIsDocker
