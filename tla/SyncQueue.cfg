CONSTANTS
    hook = hook
    badge = badge
    NoOne = NoOne
    NoOp = NoOp
    Other = Other
    Docs = {d1, d2}
    Users = {ann}
    Flushers <- MCHookOnly
    Hook <- MCHook
    MaxAttempts = 2
    MaxEdits = 2
    MaxOthers = 0
    MaxCloses = 1
SPECIFICATION Spec
SYMMETRY Symmetry
INVARIANTS
    TypeOK
    NothingVanishes
    ReplayBuriesNothing
