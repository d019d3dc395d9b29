\* One submission and one fault of any kind, with the hourly ticker and without.
CONSTANTS
    Job = {j1}
    Version = {v1}
    Code = {c1}
    Token = {t1, t2, t3}
    NoToken = NoToken
    NoInput = NoInput
    NoVersion = NoVersion
    Update = {}
    Judge = {d1}
    Caller = {r1}
    SlotCount = 2
    Fault = {"crash", "shutdown", "claim", "claimReply", "save", "saveReply",
             "acceptReply", "cancelReply", "lease"}
    MaxFaults = 1
SPECIFICATION FairSpec
INVARIANTS
    ActiveMatchesWork
PROPERTIES
    AcceptedJobEnds
    EndsPromptly
    ShutdownEnds
