\* Two submissions that compete with a Run for a single slot, and one fault of any kind.
CONSTANTS
    Job = {j1, j2}
    Version = {v1}
    Code = {c1}
    Token = {t1, t2, t3}
    NoToken = NoToken
    NoInput = NoInput
    NoVersion = NoVersion
    Update = {}
    Judge = {d1}
    Caller = {r1}
    SlotCount = 1
    Fault = {"crash", "shutdown", "claim", "claimReply", "save", "saveReply",
             "acceptReply", "cancelReply", "lease"}
    MaxFaults = 1
SPECIFICATION Spec
SYMMETRY Symmetry
INVARIANTS
    TypeOK
    SlotsMatch
    NoLostWakeup
