SPECIFICATION Spec
CONSTANTS
    readme = readme
    source = source
    Files = {readme, source}
    Readme = readme
    MaxEvidence = 1
    PlannerIds = {0, 1, 2}
    MaxClaims = 2
    MaxHits = 3
CHECK_DEADLOCK FALSE
INVARIANTS NoEvidenceNoVerdict
