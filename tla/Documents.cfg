SPECIFICATION Spec
CONSTANTS
    Types <- MCTypes
    AwayTypes <- MCAwayTypes
    NoCopy = NoCopy
INVARIANTS
    TypeOK
    FinalWasComplete
    WordMatchesScreen
    ScreenShowsWhatIsOffered
    WorkIsKept
