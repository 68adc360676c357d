CONSTANTS
    a = a
    b = b
    NoCopy = NoCopy
    Certs <- MCCerts
    Jobless <- MCJobless
    Stored <- MCStored
    Lists = {l1}
    MaxEdits = 2
    MaxSaves = 2
    MaxTroubles = 1
    MaxTries = 2
SPECIFICATION FairSpec
INVARIANTS TypeOK LossesAreNamed
PROPERTY Converges
CHECK_DEADLOCK FALSE
