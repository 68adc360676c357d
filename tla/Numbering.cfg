CONSTANTS
    LG = LG
    RT = RT
    NoJob = NoJob
    NoRow = NoRow
    NoPage = NoPage
    Clerks = {r1, r2}
    Devices = {d1, d2}
    Tags <- MCTags
    Spells <- MCSpells
    MaxJobs = 2
    MaxDrafts = 2
    MaxSaves = 2
    MaxDeletes = 1
SPECIFICATION Spec
SYMMETRY Symmetry
INVARIANTS TypeOK ReservedOnce SuffixesDense
PROPERTY CountsNew
CHECK_DEADLOCK FALSE
