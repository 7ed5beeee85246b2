-------------------------- MODULE LiteratureSearch --------------------------
(***************************************************************************)
(* ThesisOrchestrator's literature search (thesis_flow.py,                  *)
(* _search_literature_from_plan and _deduplicate_papers): up to MaxLanes    *)
(* lanes of a plan, each a tool call, and the RAG queries, all concurrent;  *)
(* gather waits for every one of them and keeps their order.                *)
(***************************************************************************)
EXTENDS ToolCalls, Sequences, SequencesExt

CONSTANTS
    Lanes,      \* the tool calls of this search, in lane order
    MaxLanes,   \* lanes of a plan that are searched
    NoQuery,    \* a lane whose query is empty
    Papers,     \* the ids of papers
    NoId,       \* a paper without any id
    Found,      \* the papers the API has for each key, by their ids
    Passages    \* what the RAG queries may return

ASSUME SearchAssumption ==
    /\ Lanes \in Seq(Calls) /\ MaxLanes = Len(Lanes) /\ IsInjective(Lanes)
    /\ Found \in [Keys -> Seq(Papers \cup {NoId})] /\ Passages \subseteq Seq(Papers \cup {NoId})

VARIABLE search     \* the search under way and its result

NoSearch == [pc |-> "idle", keys |-> <<>>, begun |-> 0, rag |-> <<>>, asked |-> FALSE,
             papers |-> <<>>]

InitSearch == search = NoSearch

-----------------------------------------------------------------------------
\* The plan is cut to MaxLanes before lanes without a query are skipped.
Looked(plan) == IF Len(plan) < MaxLanes THEN Len(plan) ELSE MaxLanes

Asked(plan) ==
    LET upTo[n \in 0..Looked(plan)] ==
          IF n = 0 THEN <<>>
          ELSE IF plan[n] = NoQuery THEN upTo[n - 1] ELSE Append(upTo[n - 1], plan[n])
    IN  upTo

LanesOf(plan) == Asked(plan)[Looked(plan)]

StartSearch(plan) ==
    /\ search.pc = "idle"
    /\ search' = [NoSearch EXCEPT !.pc = "searching", !.keys = LanesOf(plan)]

\* gather starts its coroutines in order.
BeginLane ==
    /\ search.pc = "searching" /\ search.begun < Len(search.keys)
    /\ Execute(Lanes[search.begun + 1], search.keys[search.begun + 1])
    /\ search' = [search EXCEPT !.begun = @ + 1]

\* The RAG queries end; one that fails counts as one that found nothing.
EndRag ==
    /\ search.pc = "searching" /\ ~search.asked
    /\ \E ids \in Passages : search' = [search EXCEPT !.rag = ids, !.asked = TRUE]
    /\ UNCHANGED callVars

\* A lane whose answer is an error contributes nothing.
PapersOf(c) == IF call[c].what = "found" THEN Found[call[c].key] ELSE <<>>

LanePapers ==
    LET upTo[i \in 0..Len(search.keys)] ==
          IF i = 0 THEN <<>> ELSE upTo[i - 1] \o PapersOf(Lanes[i])
    IN  upTo

AllPapers == LanePapers[Len(search.keys)] \o search.rag

Deduplicated_KeepsAll(ids) == SelectSeq(ids, LAMBDA id : id # NoId)

\* _deduplicate_papers: the first paper of each id; none without an id.
Unseen(ids, n) == ids[n] # NoId /\ \A m \in 1..(n - 1) : ids[m] # ids[n]

Kept(ids) ==
    LET upTo[n \in 0..Len(ids)] ==
          IF n = 0 THEN <<>>
          ELSE IF Unseen(ids, n) THEN Append(upTo[n - 1], ids[n]) ELSE upTo[n - 1]
    IN  upTo

Deduplicated(ids) == Kept(ids)[Len(ids)]

LanesDone == \A i \in 1..Len(search.keys) : call[Lanes[i]].pc = "done"

\* gather: every lane and the RAG have ended.
Gather ==
    /\ search.pc = "searching" /\ search.asked
    /\ search.begun = Len(search.keys) /\ LanesDone
    /\ search' = [search EXCEPT !.pc = "done", !.papers = Deduplicated(AllPapers)]
    /\ UNCHANGED callVars

\* The caller takes the result.
EndSearch ==
    /\ search.pc = "done"
    /\ search' = NoSearch
    /\ call' = [c \in Calls |-> IF \E i \in 1..search.begun : c = Lanes[i] THEN Idle
                                ELSE call[c]]
    /\ UNCHANGED cache

-----------------------------------------------------------------------------
IdsOf(s) == ToSet(s) \ {NoId}

\* The place in the plan whose answer brought a paper first; the RAG comes last.
PlaceOf(id) ==
    LET lane == [i \in 1..Len(search.keys) |-> call[Lanes[i]]]
        brought(i) == IF i > Len(lane) THEN IdsOf(search.rag)
                      ELSE IF lane[i].what = "found" THEN IdsOf(Found[lane[i].key]) ELSE {}
    IN  CHOOSE i \in 1..(Len(lane) + 1) :
          id \in brought(i) /\ \A j \in 1..(i - 1) : id \notin brought(j)

\* The merged list that _search_literature_from_plan and _deduplicate_papers end with has
\* every id that an answered lane or the RAG found, once, and no other: a lane that fails
\* or answers late takes nothing with it, and the order is that of the plan, whoever
\* answers first.  No more than MaxLanes lanes are ever searched.  (A paper without an id
\* is dropped, thesis_flow.py:589-591; what of the list a prompt shows is
\* ThesisPipeline's matter.)
MergedExact ==
    /\ Len(search.keys) <= MaxLanes
    /\ search.pc = "done" =>
         LET lane == [i \in 1..Len(search.keys) |-> call[Lanes[i]]]
             answered == {i \in DOMAIN lane : lane[i].what = "found"}
         IN  /\ \A i \in DOMAIN lane : lane[i].pc = "done" /\ lane[i].key = search.keys[i]
             /\ IsInjective(search.papers)
             /\ ToSet(search.papers) =
                  (UNION {IdsOf(Found[lane[i].key]) : i \in answered}) \cup IdsOf(search.rag)
             /\ \A i, j \in DOMAIN search.papers :
                  i < j => PlaceOf(search.papers[i]) <= PlaceOf(search.papers[j])

=============================================================================
