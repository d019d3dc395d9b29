\* Two submissions, one program text, one problem with one version; three tokens are enough for
\* both rows to be owned while a stale claim of either is still held.
CONSTANTS
    Job = {j1, j2}
    Version = {v1}
    Code = {c1}
    Token = {t1, t2, t3}
    NoToken = NoToken
    NoInput = NoInput
    NoVersion = NoVersion
    Update = {v1, NoVersion}
SPECIFICATION StoreSpec
SYMMETRY Symmetry
INVARIANTS
    StoreInv
    AtMostTwoExecutions
PROPERTIES
    LeaseProtectsOwner
    ImplementsContract
CHECK_DEADLOCK FALSE
