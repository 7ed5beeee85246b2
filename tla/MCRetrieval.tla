---------------------------- MODULE MCRetrieval ----------------------------
\* A small instance of McpServer: every kind of line, two lanes that may ask for the
\* same key, one citation, and another process that shares the cache.
EXTENDS McpServer

CONSTANTS q, d, own, other, lane1, lane2, p1, p2, p3

MCLanes == <<lane1, lane2>>
MCFound == [k \in Keys |-> IF k = q THEN <<p1, p2, NoId, p1>> ELSE <<>>]
MCPassages == {<<>>, <<p3, p2>>}

Line(kind, key, plan) == [kind |-> kind, key |-> key, plan |-> plan]
MCLines ==
    {Line(kind, Blank, <<>>) : kind \in {"hello", "notification", "unreadable", "faulty", "long",
                                         "critique", "unknown"}}
      \cup {Line("search", d, <<>>),
            Line("research", Blank, <<q, q, q>>),
            Line("research", Blank, <<NoQuery, Blank, q>>)}
=============================================================================
