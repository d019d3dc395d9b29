\* Three requests use one UUID with two programs while the problem's content changes.
CONSTANTS
    Job = {j1}
    Version = {v1, v2}
    Code = {c1, c2}
    Token = {t1}
    NoToken = NoToken
    NoInput = NoInput
    NoVersion = NoVersion
    Update = {v1, v2, NoVersion}
    Judge = {d1}
    Caller = {r1, r2, r3}
    SlotCount = 1
    Fault = {"acceptReply"}
    MaxFaults = 1
SPECIFICATION Spec
SYMMETRY Symmetry
INVARIANTS
    SubmitReplyMatches
PROPERTIES
    ImplementsStore
