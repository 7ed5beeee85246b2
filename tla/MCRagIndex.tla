----------------------------- MODULE MCRagIndex -----------------------------
\* Three names of one stem, of which a user who types a collection as it is listed
\* means the one of another name; one file, edited once.
EXTENDS RagIndex

Clean == [stem |-> "law", hash |-> 0, text |-> 0, clean |-> TRUE]
Dirty == [stem |-> "law", hash |-> 1, text |-> 1, clean |-> FALSE]
MCNames == {Clean, Dirty, Listed(CollectionFor(Dirty))}

\* Nothing; one chunk; two.
MCDocs == {<<>>, <<2>>, <<2, 2>>}

Alike == Permutations(Jobs)

\* Every document of up to four sentences of up to five words.
MCChunkDocs == UNION {[1..n -> 1..5] : n \in 0..4}

=============================================================================
