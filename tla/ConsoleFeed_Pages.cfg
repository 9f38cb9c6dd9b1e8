\* Three flows, a list of two, pages of one, two event sources at a time.
CONSTANTS
    all = all  odd = odd
    Filters = {all, odd}
    Matching <- EveryOther
    PageSize = 1
    MaxRows = 2
    MaxFlows = 3
    MaxStreams = 2
    None = None
SPECIFICATION Spec
INVARIANTS
    SelectedKept
    ExplicitPauseSurvives
    LiveWhenRunning
    EndIsComplete
