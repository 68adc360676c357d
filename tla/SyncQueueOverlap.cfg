CONSTANTS
    hook = hook
    badge = badge
    NoOne = NoOne
    NoOp = NoOp
    Other = Other
    Docs = {d1}
    Users = {ann, ben}
    Flushers <- MCHookAndBadge
    Hook <- MCHook
    MaxAttempts = 2
    MaxEdits = 1
    MaxOthers = 1
    MaxCloses = 1
SPECIFICATION Spec
INVARIANT
    GivenUpHonestly
PROPERTY
    QueueDrains
