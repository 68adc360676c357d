CONSTANTS
    a = a
    b = b
    NoCopy = NoCopy
    Certs <- MCCerts
    Jobless <- MCNone
    Stored <- MCStored
    Lists = {l1}
    MaxEdits = 2
    MaxSaves = 2
    MaxTroubles = 1
    MaxTries = 2
SPECIFICATION Spec
PROPERTY UnsavedStays
CHECK_DEADLOCK FALSE
