SPECIFICATION FairSpec
CONSTANTS
    q = q
    d = d
    own = own
    other = other
    lane1 = lane1
    lane2 = lane2
    p1 = p1
    p2 = p2
    p3 = p3
    Blank = Blank
    NoQuery = NoQuery
    NoId = NoId
    Keys = {q, d}
    DoiKeys = {d}
    Calls = {own, other, lane1, lane2}
    Own = own
    Others = {other}
    Lanes <- MCLanes
    MaxLanes = 2
    Papers = {p1, p2, p3}
    Found <- MCFound
    Passages <- MCPassages
    Lines <- MCLines
    MaxLines = 2
    MaxPieces = 2
    Ttl = 1
    MaxRetries = 1
INVARIANTS AnswersFresh MergedExact RepliesMatchRequests
PROPERTY EveryLineServed
