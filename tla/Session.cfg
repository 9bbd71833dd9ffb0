SPECIFICATION LiveSpec
CONSTANTS
    c1 = c1
    c2 = c2
    None = None
    Code <- MCCode
    Line <- MCLine
    Slot <- MCSlot
    Runs <- MCRuns
CHECK_DEADLOCK FALSE
INVARIANTS
    TraceIsOfShownCode
    LoadingHasRequest
    PlayerHasPoint
    ErrorHasNoTrace
    PopupHasTrace
PROPERTIES
    NextStopsAtHits
    WaitEnds
