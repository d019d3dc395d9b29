\* Two tabs on devices whose clocks disagree; a tab may be closed before its last save arrives.
CONSTANTS
    Tab = {t1, t2}
    Problem = {p1}
    Code = {c1, c2}
    Now = {1, 3}
    None = None
    Fault = {"late"}
    MaxFaults = 0
    MaxEdits = 2
    MaxSubmissions = 0
    MaxReads = 1
SPECIFICATION Spec
SYMMETRY Symmetry
INVARIANTS
    NoEditLost
    EditorNeverGoesBack
PROPERTIES
    DraftsOnlyGetNewer
    EditsShowAtOnce
    ImplementsContract
