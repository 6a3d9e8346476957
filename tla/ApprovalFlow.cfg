\* Two tasks, one answer, one session opened anew.
SPECIFICATION FairSpec
CONSTANTS
    t1 = t1
    t2 = t2
    None = None
    Tasks = {t1, t2}
    MaxEvents = 5
    MaxAnswers = 1
    MaxResets = 1
    Undecodable = TRUE
INVARIANTS
    TypeOK
    ProjectionOfPrefix
    NeverAnotherTask
    MistakenOnlyUnseen
PROPERTY AskReachesCard
\* The bounds on events and answers stop it.
CHECK_DEADLOCK FALSE
