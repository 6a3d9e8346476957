\* An answer that resolves an ask the user never saw.
SPECIFICATION Spec
CONSTANTS
    t1 = t1
    None = None
    Tasks = {t1}
    MaxEvents = 5
    MaxAnswers = 2
    MaxResets = 0
    Undecodable = FALSE
INVARIANT NeverMistaken
CHECK_DEADLOCK FALSE
