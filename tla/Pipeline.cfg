SPECIFICATION FairPipelineSpec
CONSTANTS
    Outcomes <- AllOutcomes
    MaxLost = 1
CHECK_DEADLOCK FALSE
INVARIANTS PipelineTypeOK ChecksIndependent EntriesReachDownstream NoPlaceholderShown VerdictsAgree
PROPERTIES EverySessionEnds
