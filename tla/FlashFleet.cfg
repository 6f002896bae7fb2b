SPECIFICATION LivePipelineSpec
CONSTANTS
    Pucks = {"p1", "p2"}
    Upstreams = {"u1", "u2"}
    MaxRuns = 3
INVARIANTS
    PipelineTypeOK
    InventoryIsTrue
    VerifiedMeansBooted
    SheetIsTrue
PROPERTIES
    CaptureFirst
    OnlyHintedPuck
    RunEnds
