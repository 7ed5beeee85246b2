------------------------------ MODULE RagIndex ------------------------------
(***************************************************************************)
(* The user's document collections (tools/mcp/rag.py): chunk_text,          *)
(* RAGIndexer, which writes a file's chunks to Qdrant, and RAGSearchTool,   *)
(* which reads them.  Each `thesis ingest` is a process of its own, every   *)
(* call to Qdrant a step: indexers, deletions, searches and edits of the    *)
(* files interleave, and an indexer may die between two calls.              *)
(*                                                                          *)
(* A document is the sequence of its sentences' lengths; a word is its      *)
(* place in the document.  The md5 a point's id is cut from is taken to be  *)
(* injective; a name's is cut to 6 hex digits, and names may share them.    *)
(***************************************************************************)
EXTENDS Integers, Sequences, FiniteSets, SequencesExt, FiniteSetsExt

CONSTANTS
    MaxWords,   \* max_words
    Overlap,    \* overlap_words
    Names,      \* the collection names users type: [stem, hash, text, clean]
    Files,      \* source paths
    NoFile,     \* an idle indexer's
    Docs,       \* what a file may hold
    ChunkDocs,  \* the documents chunk_text is checked on
    MaxVersion, \* bound on the versions of a file
    Jobs,       \* indexer processes
    Limit       \* limit of a search

\* chunk_text and the command line refuse an overlap that is not below max_words.
ASSUME RagAssumption ==
    /\ Overlap \in Nat /\ MaxWords \in Nat /\ Overlap < MaxWords
    /\ Docs \cup ChunkDocs \subseteq Seq(Nat \ {0})
    /\ Names \subseteq [stem : STRING, hash : Nat, text : Nat, clean : BOOLEAN]
    /\ \A n \in Names : IF n.clean THEN n.stem # "" /\ n.text = 0 ELSE n.hash # 0
    /\ NoFile \notin Files

-----------------------------------------------------------------------------
\* chunk_text.  A state of its loop: the chunks so far, the words of the
\* sentences gathered for the next one, and the words to replay before them.
Step == MaxWords - Overlap

Tail_(words) == SubSeq(words, IF Len(words) > Overlap THEN Len(words) - Overlap + 1 ELSE 1,
                       Len(words))

Flush_Forgets(s) ==
    IF s.buf = <<>> THEN s
    ELSE [chunks |-> Append(s.chunks, s.carry \o s.buf), buf |-> <<>>, carry |-> <<>>]

\* flush: the carry comes from the sentences of this chunk, not from its own carry.
Flush(s) ==
    IF s.buf = <<>> THEN s
    ELSE [chunks |-> Append(s.chunks, s.carry \o s.buf), buf |-> <<>>, carry |-> Tail_(s.buf)]

\* A sentence longer than a chunk, cut in windows of MaxWords that start Step apart.
Windows(words) ==
    [i \in 1..((Len(words) + Step - 1) \div Step) |->
       SubSeq(words, (i - 1) * Step + 1,
              IF (i - 1) * Step + MaxWords < Len(words) THEN (i - 1) * Step + MaxWords
              ELSE Len(words))]

TakeSentence(s, words) ==
    IF Len(words) > MaxWords
    THEN [chunks |-> Flush(s).chunks \o Windows(words), buf |-> <<>>,
          carry |-> Tail_(Last(Windows(words)))]
    ELSE LET room == IF Len(s.buf) + Len(words) > MaxWords THEN Flush(s) ELSE s
         IN  [room EXCEPT !.buf = @ \o words]

\* The last word of each sentence, and its words.
Ends(doc) ==
    LET last[n \in 0..Len(doc)] == IF n = 0 THEN 0 ELSE last[n - 1] + doc[n]
    IN  last

Sentence(doc, n) == [k \in 1..doc[n] |-> Ends(doc)[n - 1] + k]

Nothing == [chunks |-> <<>>, buf |-> <<>>, carry |-> <<>>]

\* The loop over the sentences, and the last flush.
Gathered(doc) ==
    LET after[n \in 0..Len(doc)] ==
          IF n = 0 THEN Nothing ELSE TakeSentence(after[n - 1], Sentence(doc, n))
    IN  after

Chunks(doc) == Flush(Gathered(doc)[Len(doc)]).chunks

-----------------------------------------------------------------------------
Coll(stem, hash) == [stem |-> stem, hash |-> hash]

\* _collection_for.  A clean name is kept as it is (its hash is the suffix it
\* happens to end in, 0 for none); any other is reduced to its stem and gets 6
\* digits of its md5 as suffix, unless nothing is left of it.  Its text tells it
\* from the other names of that stem with those digits.
CollectionFor(name) ==
    IF name.stem = "" THEN Coll("default", 0) ELSE Coll(name.stem, name.hash)

\* list_collections shows a collection by this name.
Listed(coll) == [stem |-> coll.stem, hash |-> coll.hash, text |-> 0, clean |-> TRUE]

VARIABLES
    file,       \* each file's version and what it holds
    colls,      \* collections that exist
    points,     \* the points stored, by id
    job,        \* indexers at work
    query,      \* a search under way, and what it found
    complete    \* history: the last ingest of a file under a name, while nothing
                \* has touched that file in that collection since

indexVars == <<file, colls, points, job, query, complete>>

NoName == Listed(Coll("", 0))
NoJob == [pc |-> "idle", name |-> NoName, file |-> NoFile, version |-> 0,
          chunks |-> <<>>, at |-> 0, alone |-> TRUE]
Unasked == [pc |-> "idle", name |-> NoName, found |-> {}]

InitIndex ==
    /\ file \in [Files -> {[version |-> 1, doc |-> doc] : doc \in Docs}]
    /\ colls = {} /\ points = <<>>
    /\ job = [j \in Jobs |-> NoJob]
    /\ query = Unasked
    /\ complete = <<>>

\* History: something touches these files in this collection; other indexers in
\* the middle of them are no longer alone.
Within(name, f, coll, files) == CollectionFor(name) = coll /\ f \in files

Touched(coll, files) ==
    Restrict(complete, {p \in DOMAIN complete : ~Within(p[1], p[2], coll, files)})
Crowd(coll, files) ==
    [j \in Jobs |-> IF Within(job[j].name, job[j].file, coll, files)
                    THEN [job[j] EXCEPT !.alone = job[j].at = 0] ELSE job[j]]

-----------------------------------------------------------------------------
Edit(f, doc) ==
    /\ file[f].version < MaxVersion
    /\ file' = [file EXCEPT ![f] = [version |-> @.version + 1, doc |-> doc]]
    /\ UNCHANGED <<colls, points, job, query, complete>>

\* ingest_file: read the file and chunk it.  A file without text ends here.
Read(j, f, name) ==
    /\ job[j].pc = "idle"
    /\ Chunks(file[f].doc) # <<>>
    /\ job' = [job EXCEPT ![j] =
         [pc |-> "ensure", name |-> name, file |-> f, version |-> file[f].version,
          chunks |-> Chunks(file[f].doc), at |-> 0, alone |-> TRUE]]
    /\ UNCHANGED <<file, colls, points, query, complete>>

\* ensure_collection: is it there?
Ensure(j) ==
    /\ job[j].pc = "ensure"
    /\ job' = [job EXCEPT ![j].pc =
                 IF CollectionFor(job[j].name) \in colls THEN "add" ELSE "create"]
    /\ UNCHANGED <<file, colls, points, query, complete>>

\* Qdrant refuses to create what exists, and the indexer dies of it.
Create(j) ==
    LET coll == CollectionFor(job[j].name)
    IN  /\ job[j].pc = "create"
        /\ job' = [job EXCEPT ![j] = IF coll \in colls THEN NoJob ELSE [@ EXCEPT !.pc = "add"]]
        /\ colls' = colls \cup {coll}
        /\ UNCHANGED <<file, points, query, complete>>

\* A dictionary in which the key now has this value.
Put(f, key, value) == [k \in DOMAIN f \cup {key} |-> IF k = key THEN value ELSE f[k]]

PointId_WithContent(coll, f, i, version) == <<coll, f, <<i, version>>>>

\* A point's id comes from its path and its place, not from what it holds.
PointId(coll, f, i, version) == <<coll, f, <<i>>>>

\* client.add upserts the chunks in order, batch by batch; as it begins it creates
\* a collection that was deleted meanwhile, later it fails on one.
Add(j) ==
    LET me == job[j]
        coll == CollectionFor(me.name)
        i == me.at + 1
        point == [name |-> me.name, file |-> me.file, index |-> i,
                  version |-> me.version, words |-> me.chunks[i]]
        touched == Touched(coll, {me.file})
    IN  /\ me.pc = "add" /\ (me.at = 0 \/ coll \in colls)
        /\ colls' = colls \cup {coll}
        /\ points' = Put(points, PointId(coll, me.file, i, me.version), point)
        /\ IF i < Len(me.chunks)
           THEN /\ job' = [Crowd(coll, {me.file}) EXCEPT ![j] = [me EXCEPT !.at = i]]
                /\ complete' = touched
           ELSE /\ job' = [Crowd(coll, {me.file}) EXCEPT ![j] = NoJob]
                /\ complete' =
                     IF me.alone
                     THEN Put(touched, <<me.name, me.file>>,
                              [version |-> me.version, chunks |-> me.chunks])
                     ELSE touched
        /\ UNCHANGED <<file, query>>

\* The indexer is killed, or Qdrant fails.
Die(j) ==
    /\ job[j].pc # "idle"
    /\ job' = [job EXCEPT ![j] = NoJob]
    /\ UNCHANGED <<file, colls, points, query, complete>>

\* delete_collection, by a name the user typed or one off the list.
Delete(name) ==
    LET coll == CollectionFor(name)
    IN  /\ coll \in colls
        /\ colls' = colls \ {coll}
        /\ points' = Restrict(points, {id \in DOMAIN points : id[1] # coll})
        /\ job' = Crowd(coll, Files)
        /\ complete' = Touched(coll, Files)
        /\ UNCHANGED <<file, query>>

\* execute_impl: no such collection is no papers; else the query is embedded ...
Ask(name) ==
    /\ query.pc = "idle" /\ CollectionFor(name) \in colls
    /\ query' = [pc |-> "embedding", name |-> name, found |-> {}]
    /\ UNCHANGED <<file, colls, points, job, complete>>

\* ... and the best points come back, or none when the query fails.
AnswerQuery ==
    LET there == {points[id] : id \in {p \in DOMAIN points : p[1] = CollectionFor(query.name)}}
    IN  /\ query.pc = "embedding"
        /\ \E found \in {{}} \cup kSubset(Min({Limit, Cardinality(there)}), there) :
             query' = [query EXCEPT !.pc = "done", !.found = found]
        /\ UNCHANGED <<file, colls, points, job, complete>>

TakePapers ==
    /\ query.pc = "done"
    /\ query' = Unasked
    /\ UNCHANGED <<file, colls, points, job, complete>>

NextIndex ==
    \/ \E f \in Files, doc \in Docs : Edit(f, doc)
    \/ \E j \in Jobs, f \in Files, name \in Names : Read(j, f, name)
    \/ \E j \in Jobs : Ensure(j)
    \/ \E j \in Jobs : Create(j)
    \/ \E j \in Jobs : Add(j)
    \/ \E j \in Jobs : Die(j)
    \/ \E name \in Names \cup {Listed(c) : c \in colls} : Delete(name)
    \/ \E name \in Names : Ask(name)
    \/ AnswerQuery
    \/ TakePapers

IndexSpec == InitIndex /\ [][NextIndex]_indexVars

-----------------------------------------------------------------------------
Faithful(doc) ==
    LET chunks == Chunks(doc)
        first(i) == chunks[i][1]
        end(i) == IF i = 0 THEN 0 ELSE Last(chunks[i])
        long == {Ends(doc)[n - 1] + 1 : n \in {m \in 1..Len(doc) : doc[m] > MaxWords}}
    IN  /\ end(Len(chunks)) = Ends(doc)[Len(doc)]
        /\ \A i \in DOMAIN chunks :
             /\ \A k \in DOMAIN chunks[i] : chunks[i][k] = first(i) + k - 1
             /\ end(i - 1) + 1 - first(i) \in 0..Overlap
             /\ end(i) - end(i - 1) \in 0..MaxWords
             /\ i > 1 /\ Overlap > 0 /\ first(i) \notin long => first(i) <= end(i - 1)

BadlyChunked == {doc \in ChunkDocs : ~Faithful(doc)}

\* chunk_text loses no word and repeats few: every chunk is a run of consecutive
\* words with at most MaxWords new ones, which replays at most Overlap words and
\* exactly from the end of the chunk before; it replays some wherever it can, which
\* is everywhere but before a sentence too long for a chunk.
ChunksFaithful == BadlyChunked = {} /\ \A f \in Files : Faithful(file[f].doc)

\* Once an ingest has ended and nothing else has touched that file in its
\* collection, the store holds the version it read: every word, and no chunk of
\* another version at its places, however many indexers died or were overtaken on
\* the way, and whatever is done in other collections.  Chunks of a longer version
\* may remain behind its last place.
StoreShowsLastIngest ==
    \A p \in DOMAIN complete :
      LET last == complete[p]
          mine == {points[id] : id \in {q \in DOMAIN points :
                     q[1] = CollectionFor(p[1]) /\ points[q].file = p[2]}}
          current == {x \in mine : x.index <= Len(last.chunks)}
      IN  /\ \A i \in DOMAIN last.chunks : \E x \in current : x.words = last.chunks[i]
          /\ \A x \in current : x.version = last.version

=============================================================================
