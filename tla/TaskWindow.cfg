CONSTANTS
    Null = Null
    Bad = Bad
    Scenarios <- MCScenarios
    MaxBatch = 2
    MaxSent = 2
    MaxPrompts = 2
SPECIFICATION Spec
INVARIANTS
    TypeOK
    CommandShowsItsOwn
    SurfacesAgree
    PanelOfFocus
    BadgesOfFocus
    ListNotBehind
    ManagerTellsTheTruth
    DiscardEndsTask
PROPERTIES
    ReadsTheJournal
    StoreIsDisposable
\* The scripts end, and the user may stop.
CHECK_DEADLOCK FALSE
