SPECIFICATION Spec
CONSTANTS
    law = law
    art = art
    All = All
    N = 3
    Labels = {law, art}
    Label <- MCLabel
    Filters = {law, All}
    Limit = 2
    Ttl = 1
    MaxTime = 2
    Readers = {r1}
    Erasers = {e1}
CHECK_DEADLOCK FALSE
INVARIANTS LiveIndexed DeletedLeavesIndex ListingAgrees
