\* No faults.
CONSTANTS
    Job = {j1}
    Version = {v1}
    Code = {c1}
    Token = {t1, t2}
    NoToken = NoToken
    NoInput = NoInput
    NoVersion = NoVersion
    Update = {}
    Judge = {d1}
    Caller = {r1}
    SlotCount = 2
    Fault = {}
    MaxFaults = 0
SPECIFICATION Spec
SYMMETRY Symmetry
INVARIANTS
    StopReachesWork
