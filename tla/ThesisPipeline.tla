--------------------------- MODULE ThesisPipeline ---------------------------
(***************************************************************************)
(* The thesis pipeline (core/orchestrator/thesis_flow.py): what one         *)
(* execute() does between its awaits.  Agents talk only through the         *)
(* session's blackboard in Redis; a blackboard operation that fails is      *)
(* logged and skipped.  Sessions share nothing here: every operation is on  *)
(* the Blackboard of its own session id, so one session is modelled.        *)
(*                                                                          *)
(* The route is the one _execute_inner always gets (phase "full", 1.00 USD  *)
(* left): every agent is active.  An agent's call is                        *)
(*   own          answered and parsed into the agent's result;              *)
(*   empty        an answer that parses to an empty result, among them the  *)
(*                "[ALL_PROVIDERS_FAILED]" response of generate();          *)
(*   placeholder  an exception, recorded in errors.                         *)
(***************************************************************************)
EXTENDS Integers, FiniteSets

CONSTANTS
    Outcomes,   \* what a stage's call may come to
    MaxLost     \* bound on the Redis operations that fail

ASSUME PipelineAssumption ==
    /\ Outcomes \subseteq {"own", "empty", "placeholder"}
    /\ "own" \in Outcomes
    /\ MaxLost \in Nat

Agents == {"planner", "researcher", "checker", "synthesizer", "critic", "supervisor"}
Stages == Agents \cup {"memory", "corpus", "search"}

\* An entry is named for the stage that posts it: planner is an agent_output,
\* researcher the lit_map, checker the citation_audit, synthesizer the status
\* entry with the report, critic and supervisor a critique each.
Kinds == Stages \cup {"task", "route"}

VARIABLES
    pc,         \* where _execute_inner is
    stage,      \* each stage: idle, running, or what it came to
    errors,     \* stages that appended to errors
    board,      \* entries under the session's blackboard prefix
    lost,       \* history: Redis operations that failed
    shared,     \* shared_entries, the snapshot checker and synthesizer get
    read,       \* the entries each agent's prompt was compiled from
    result,     \* session.status once assembled
    episode,    \* the stored episode's quality.accepted
    saved       \* status of the record in the session store

pipelineVars == <<pc, stage, errors, board, lost, shared, read, result, episode, saved>>

InitPipeline ==
    /\ pc = "new"
    /\ stage = [g \in Stages |-> "idle"]
    /\ errors = {}
    /\ board = {}
    /\ lost = 0
    /\ shared = {}
    /\ read = [g \in Agents |-> {}]
    /\ result = "none"
    /\ episode = "none"
    /\ saved = "none"

-----------------------------------------------------------------------------
\* _add_entry: what may come of posting to board b after l lost operations.
Puts(kind, b, l) ==
    {<<b \cup {kind}, l>>} \cup (IF l < MaxLost THEN {<<b, l + 1>>} ELSE {})

\* _get_entries: the session's entries, or none when Redis fails.
Gets(b, l) == {<<b, l>>} \cup (IF l < MaxLost THEN {<<{}, l + 1>>} ELSE {})

PutsIfAnswered_Always(g, outcome, b, l) == Puts(g, b, l)

\* A stage posts its result unless it raised.
PutsIfAnswered(g, outcome, b, l) ==
    IF outcome = "placeholder" THEN {<<b, l>>} ELSE Puts(g, b, l)

Settled(g) == stage[g] \notin {"idle", "running"}

Settle_OnlyAgentsReport(g, outcome) ==
    errors' = IF outcome = "placeholder" /\ g \in Agents
              THEN errors \cup {g} ELSE errors

\* The except clause of each stage.
Settle(g, outcome) ==
    errors' = IF outcome = "placeholder" THEN errors \cup {g} ELSE errors

-----------------------------------------------------------------------------
\* execute: the task and route entries, then planner, memory and corpus under
\* one gather.  The planner compiles its prompt before it first waits, so before
\* either of the others has posted.
Begin ==
    /\ pc = "new"
    /\ \E p1 \in Puts("task", board, lost) :
       \E p2 \in Puts("route", p1[1], p1[2]) :
       \E g \in Gets(p2[1], p2[2]) :
         /\ board' = p2[1]
         /\ read' = [read EXCEPT !["planner"] = g[1]]
         /\ lost' = g[2]
    /\ stage' = [h \in Stages |->
                IF h \in {"planner", "memory", "corpus"} THEN "running" ELSE "idle"]
    /\ pc' = "planning"
    /\ UNCHANGED <<errors, shared, result, episode, saved>>

\* One of the concurrent stages ends: _run_planner, _run_memory, _run_corpus,
\* _run_checker, _run_synthesizer.
EndConcurrent(g) ==
    /\ g \in {"planner", "memory", "corpus", "checker", "synthesizer"}
    /\ pc \in {"planning", "checking"} /\ stage[g] = "running"
    /\ \E outcome \in Outcomes \ (IF g \in Agents THEN {} ELSE {"empty"}) :
         /\ stage' = [stage EXCEPT ![g] = outcome]
         /\ Settle(g, outcome)
         /\ \E p \in PutsIfAnswered(g, outcome, board, lost) :
              /\ board' = p[1]
              /\ lost' = p[2]
    /\ UNCHANGED <<pc, shared, read, result, episode, saved>>

StartSearch_WhenPlanned ==
    /\ pc = "planning"
    /\ Settled("planner")
    /\ stage' = [stage EXCEPT !["search"] = "running"]
    /\ pc' = "searching"
    /\ UNCHANGED <<errors, board, lost, shared, read, result, episode, saved>>

\* The gather of phase A returns: _search_literature_from_plan starts.
StartSearch ==
    /\ pc = "planning"
    /\ \A g \in {"planner", "memory", "corpus"} : Settled(g)
    /\ stage' = [stage EXCEPT !["search"] = "running"]
    /\ pc' = "searching"
    /\ UNCHANGED <<errors, board, lost, shared, read, result, episode, saved>>

\* The lanes and RAG queries are in, each failure an empty list: post what was
\* found, if anything, and call the researcher with the board as it is.
Searched ==
    /\ pc = "searching"
    /\ \E found \in {"own", "empty"} :
         /\ stage' = [stage EXCEPT !["search"] = found, !["researcher"] = "running"]
         /\ \E p \in (IF found = "own" THEN Puts("search", board, lost)
                      ELSE {<<board, lost>>}) :
            \E g \in Gets(p[1], p[2]) :
              /\ board' = p[1]
              /\ read' = [read EXCEPT !["researcher"] = g[1]]
              /\ lost' = g[2]
    /\ pc' = "researching"
    /\ UNCHANGED <<errors, shared, result, episode, saved>>

EndResearcher_EarlySnapshot ==
    /\ pc = "researching"
    /\ \E outcome \in Outcomes :
         /\ stage' = [stage EXCEPT !["researcher"] = outcome]
         /\ Settle("researcher", outcome)
         /\ \E g \in Gets(board, lost) :
            \E p \in PutsIfAnswered("researcher", outcome, board, g[2]) :
              /\ board' = p[1]
              /\ shared' = g[1]
              /\ lost' = p[2]
    /\ pc' = "checking"
    /\ UNCHANGED <<read, result, episode, saved>>

\* The researcher ends; the board is read once for checker and synthesizer.
EndResearcher ==
    /\ pc = "researching"
    /\ \E outcome \in Outcomes :
         /\ stage' = [stage EXCEPT !["researcher"] = outcome]
         /\ Settle("researcher", outcome)
         /\ \E p \in PutsIfAnswered("researcher", outcome, board, lost) :
            \E g \in Gets(p[1], p[2]) :
              /\ board' = p[1]
              /\ shared' = g[1]
              /\ lost' = g[2]
    /\ pc' = "checking"
    /\ UNCHANGED <<read, result, episode, saved>>

StartChecker ==
    /\ pc = "checking" /\ stage["checker"] = "idle"
    /\ stage' = [stage EXCEPT !["checker"] = "running"]
    /\ read' = [read EXCEPT !["checker"] = shared]
    /\ UNCHANGED <<pc, errors, board, lost, shared, result, episode, saved>>

StartSynthesizer_ReadsBoard ==
    /\ pc = "checking"
    /\ stage["checker"] # "idle" /\ stage["synthesizer"] = "idle"
    /\ stage' = [stage EXCEPT !["synthesizer"] = "running"]
    /\ read' = [read EXCEPT !["synthesizer"] = board]
    /\ UNCHANGED <<pc, errors, board, lost, shared, result, episode, saved>>

\* The gather starts the checker first; with every provider short-circuited that
\* one may end, and post, before the synthesizer starts.
StartSynthesizer ==
    /\ pc = "checking"
    /\ stage["checker"] # "idle" /\ stage["synthesizer"] = "idle"
    /\ stage' = [stage EXCEPT !["synthesizer"] = "running"]
    /\ read' = [read EXCEPT !["synthesizer"] = shared]
    /\ UNCHANGED <<pc, errors, board, lost, shared, result, episode, saved>>

StartCritic_NeedsAnswers ==
    /\ pc = "checking"
    /\ \A g \in {"checker", "synthesizer"} : stage[g] \in {"own", "empty"}
    /\ \E g \in Gets(board, lost) :
         /\ read' = [read EXCEPT !["critic"] = g[1]]
         /\ lost' = g[2]
    /\ stage' = [stage EXCEPT !["critic"] = "running"]
    /\ pc' = "critiquing"
    /\ UNCHANGED <<errors, board, shared, result, episode, saved>>

\* The gather of phase C returns: the critic is called.
StartCritic ==
    /\ pc = "checking"
    /\ \A g \in {"checker", "synthesizer"} : Settled(g)
    /\ \E g \in Gets(board, lost) :
         /\ read' = [read EXCEPT !["critic"] = g[1]]
         /\ lost' = g[2]
    /\ stage' = [stage EXCEPT !["critic"] = "running"]
    /\ pc' = "critiquing"
    /\ UNCHANGED <<errors, board, shared, result, episode, saved>>

\* The critic ends and the supervisor is called.
EndCritic ==
    /\ pc = "critiquing"
    /\ \E outcome \in Outcomes :
         /\ stage' = [stage EXCEPT !["critic"] = outcome, !["supervisor"] = "running"]
         /\ Settle("critic", outcome)
         /\ \E p \in PutsIfAnswered("critic", outcome, board, lost) :
            \E g \in Gets(p[1], p[2]) :
              /\ board' = p[1]
              /\ read' = [read EXCEPT !["supervisor"] = g[1]]
              /\ lost' = g[2]
    /\ pc' = "reviewing"
    /\ UNCHANGED <<shared, result, episode, saved>>

\* The supervisor ends; the session is assembled, its episode stored (a failure
\* is only logged), and the save begins.
EndSupervisor ==
    /\ pc = "reviewing"
    /\ \E outcome \in Outcomes :
         /\ stage' = [stage EXCEPT !["supervisor"] = outcome]
         /\ Settle("supervisor", outcome)
         /\ \E p \in PutsIfAnswered("supervisor", outcome, board, lost) :
              /\ board' = p[1]
              /\ lost' = p[2]
    /\ result' = IF errors' = {} THEN "complete" ELSE "partial"
    /\ \E e \in {"none", IF errors' = {} THEN "accepted" ELSE "rejected"} :
         episode' = e
    /\ pc' = "saving"
    /\ UNCHANGED <<shared, read, saved>>

\* session_store.save ends; its failure is swallowed.
SaveSession ==
    /\ pc = "saving"
    /\ \E record \in {"none", result} : saved' = record
    /\ pc' = "returned"
    /\ UNCHANGED <<stage, errors, board, lost, shared, read, result, episode>>

\* The caller's task is cancelled at an await: CancelledError is no Exception,
\* so it passes every except clause.  Inside the save the record may or may not
\* have reached the store.
Cancel ==
    /\ pc \notin {"new", "returned", "cancelled"}
    /\ pc' = "cancelled"
    /\ \E record \in {"none"} \cup (IF pc = "saving" THEN {result} ELSE {}) :
         saved' = record
    /\ UNCHANGED <<stage, errors, board, lost, shared, read, result, episode>>

Progress ==
    \/ \E g \in Stages : EndConcurrent(g)
    \/ StartSearch
    \/ Searched
    \/ EndResearcher
    \/ StartChecker
    \/ StartSynthesizer
    \/ StartCritic
    \/ EndCritic
    \/ EndSupervisor
    \/ SaveSession

NextPipeline == Begin \/ Progress \/ Cancel

PipelineSpec == InitPipeline /\ [][NextPipeline]_pipelineVars

\* Provider calls, tool calls and store operations return: every call to a
\* provider is under asyncio.wait_for, the tools' HTTP clients have timeouts.
FairPipelineSpec == PipelineSpec /\ WF_pipelineVars(Progress)

-----------------------------------------------------------------------------
\* The entries each template in prompts/ has a section for (compiler.py:50-95).
Slots ==
    [planner     |-> {"task", "memory"},
     researcher  |-> {"task", "search", "memory"},
     checker     |-> {"task", "researcher", "memory"},
     synthesizer |-> {"task", "researcher", "memory"},
     critic      |-> {"task", "researcher", "synthesizer", "memory", "corpus"},
     supervisor  |-> {"task", "planner", "researcher", "synthesizer", "checker", "critic",
                      "memory", "corpus"}]

\* What _extract_context gets out of an entry.  It looks for an agent_output's
\* "result", which the planner's entry calls "output", and for a route_decision's
\* guidance or rationale, which a thesis route calls "reason"; and of a lit_search
\* it takes the query and the source, not the papers.
Legible == Kinds \ {"planner", "route", "search"}

\* _extract_context and _render: the results an agent's prompt shows.
Shown(g) == {h \in Slots[g] \cap Legible : h \in read[g]}

-----------------------------------------------------------------------------
\* Where each stage may be running.
Place ==
    [planner |-> "planning", memory |-> "planning", corpus |-> "planning",
     search |-> "searching", researcher |-> "researching", checker |-> "checking",
     synthesizer |-> "checking", critic |-> "critiquing", supervisor |-> "reviewing"]

\* Every variable keeps its type, and no stage is left running behind a gather
\* that has returned.
PipelineTypeOK ==
    /\ pc \in {"new", "planning", "searching", "researching", "checking",
               "critiquing", "reviewing", "saving", "returned", "cancelled"}
    /\ stage \in [Stages -> {"idle", "running", "own", "empty", "placeholder"}]
    /\ errors \subseteq Stages
    /\ board \subseteq Kinds
    /\ lost \in 0..MaxLost
    /\ shared \subseteq Kinds
    /\ read \in [Agents -> SUBSET Kinds]
    /\ result \in {"none", "complete", "partial"}
    /\ episode \in {"none", "accepted", "rejected"}
    /\ saved \in {"none", "complete", "partial"}
    /\ \A g \in Stages : stage[g] = "running" => pc \in {Place[g], "cancelled"}

Started(g) == stage[g] # "idle"

\* thesis_flow.py:288-293: checker and synthesizer work from the same evidence
\* and neither consumes the other's output, whichever of them ends first.
ChecksIndependent ==
    /\ "synthesizer" \notin read["checker"]
    /\ "checker" \notin read["synthesizer"]
    /\ Started("checker") /\ Started("synthesizer") =>
         read["checker"] = read["synthesizer"]

\* The stages that have ended, in every run, before an agent is called.
Upstream ==
    LET searched == {"planner", "memory", "corpus", "search"}
        checked == searched \cup {"researcher", "checker", "synthesizer"}
    IN  [planner |-> {}, researcher |-> searched,
         checker |-> searched \cup {"researcher"}, synthesizer |-> searched \cup {"researcher"},
         critic |-> checked, supervisor |-> checked \cup {"critic"}]

\* A stage that ended with a result to post; a search that found no paper posts none.
Answered(h) == stage[h] = "own" \/ (stage[h] = "empty" /\ h # "search")

\* As long as Redis works, the prompt of an agent is compiled from a snapshot with the
\* entry of every stage that ended with a result before the agent was called, whichever
\* stages ran at once and whichever failed; and it shows that entry where the agent's
\* template has a section for it, but for the two the compiler cannot read: the plan,
\* posted as "output" and read as "result" (compiler.py:64), and the papers of the search,
\* of which it takes the query and the source only (compiler.py:136).
EntriesReachDownstream ==
    \A g \in Agents :
      Started(g) /\ lost = 0 =>
        \A h \in Upstream[g] :
          Answered(h) => /\ h \in read[g]
                         /\ h \in Slots[g] \ {"planner", "search"} => h \in Shown(g)

\* docs/architecture.md:45, "Each stage's output is appended to the blackboard so
\* downstream agents see" it: as long as Redis works, an agent's prompt shows the result
\* of every stage before it that its template has a section for.
FindingsReachDownstream ==
    \A g \in Agents :
      Started(g) /\ lost = 0 =>
        \A h \in Upstream[g] \cap Slots[g] : Answered(h) => h \in Shown(g)

\* No prompt shows a placeholder as though an agent had found it.
NoPlaceholderShown ==
    \A g \in Agents :
      \A h \in Shown(g) \cap Stages : stage[h] \in {"own", "empty"}

\* What is left of a session tells the same story everywhere: the status it was
\* assembled and saved with, and the episode later sessions learn from, say
\* whether every stage went through, failures inside a gather included.
VerdictsAgree ==
    /\ result # "none" =>
         (result = "complete" <=> \A g \in Stages : stage[g] # "placeholder")
    /\ saved \in {"none", result}
    /\ episode # "none" => (episode = "accepted" <=> result = "complete")

\* A started session ends, with a session to return unless its caller gave up,
\* whichever of its stages failed.
EverySessionEnds ==
    pc = "planning" ~> ((pc = "returned" /\ result # "none") \/ pc = "cancelled")

=============================================================================
