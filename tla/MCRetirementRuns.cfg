CONSTANTS
    Threads = {t1, t2}
    NoThread = NoThread
    Page = 3
    OldRows = 1
    Sizes = {0, 2}
    MaxThreads = 2
    MaxRestarts = 1
SPECIFICATION Spec
INVARIANT GuardsHold
PROPERTIES AnswerIsWhole CardsStand GuardsAreFreed
