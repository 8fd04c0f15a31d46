CONSTANTS
    Texts = {"a", "b", "c"}
    Accepted = {"a", "b"}
    MaxRuns = 3
SPECIFICATION PipelineSpec
INVARIANTS
    StaleIsReported
    RejectedKeepsTree
CHECK_DEADLOCK FALSE
