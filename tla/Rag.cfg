SPECIFICATION IndexSpec
CONSTANTS
    MaxWords = 3
    Overlap = 2
    Names <- MCNames
    Files = {f1}
    NoFile = none
    Docs <- MCDocs
    ChunkDocs <- MCChunkDocs
    MaxVersion = 2
    Jobs = {j1, j2}
    Limit = 1
SYMMETRY Alike
INVARIANTS ChunksFaithful StoreShowsLastIngest
CHECK_DEADLOCK FALSE
