\* Two presses of Submit, each sent up to twice, while one event happens elsewhere.
SPECIFICATION Spec
CONSTANTS
    Uuid = {u1, u2}
    Code = {c1, c2}
    Starter = c1
    None = None
    Environments <- Deployments
    Verdicts = {"pass", "fail"}
    Attempts = 2
    Failures = 0
    MaxVersion = 2
    MaxEvents = 1
SYMMETRY Symmetric
INVARIANTS
    TypeOK
    PressedOnce
    RefusalIsFinal
    ShownIsRecorded
    AcceptedIsTrue
    ShownIsActive
