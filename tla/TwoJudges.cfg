\* Two judges share the table; one may crash, and claim answers may be lost.
CONSTANTS
    Job = {j1}
    Version = {v1}
    Code = {c1}
    Token = {t1, t2}
    NoToken = NoToken
    NoInput = NoInput
    NoVersion = NoVersion
    Update = {}
    Judge = {d1, d2}
    Caller = {r1}
    SlotCount = 1
    Fault = {"crash", "claimReply"}
    MaxFaults = 2
SPECIFICATION Spec
SYMMETRY Symmetry
INVARIANTS
    OneExecution
