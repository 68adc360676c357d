CONSTANTS
    hook = hook
    badge = badge
    NoOne = NoOne
    NoOp = NoOp
    Other = Other
    Docs = {d1}
    Users = {ann, ben}
    Flushers <- MCHookOnly
    Hook <- MCHook
    MaxAttempts = 2
    MaxEdits = 1
    MaxOthers = 0
    MaxCloses = 0
SPECIFICATION Spec
PROPERTY ReplayedByAuthor
