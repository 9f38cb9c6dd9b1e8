\* A page requested before the filters were changed.
CONSTANTS
    all = all  odd = odd
    Filters = {all, odd}
    Matching <- EveryOther
    PageSize = 1
    MaxRows = 2
    MaxFlows = 2
    MaxStreams = 2
    None = None
SPECIFICATION Spec
PROPERTIES
    RowsMatchFilter
