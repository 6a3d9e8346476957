\* The window's requests through its bridge host to Core.
SPECIFICATION FairSpec
CONSTANTS
    None = None
    MaxAsked = 3
    Scenarios <- MCScenarios
INVARIANTS TypeOK ContractHonoured SecondBootAfterTimeout ConfigKeepsKeys
PROPERTY EverySettled
\* Nobody has to ask for anything.
CHECK_DEADLOCK FALSE
