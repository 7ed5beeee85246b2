SPECIFICATION PipelineSpec
CONSTANTS
    Outcomes <- AllOutcomes
    MaxLost = 0
CHECK_DEADLOCK FALSE
INVARIANTS FindingsReachDownstream
