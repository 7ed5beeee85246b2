# A TLA+ verification of OpenWorkers

OpenWorkers runs panels of LLM agents over several model providers: a thesis
assistant behind an HTTP API, a CLI and an MCP server, and auditors that check the
claims of a README or a pull request against a repository. These modules specify
the parts of it in which concurrency, failure and ordering decide whether it is
correct. TLC checks nine specifications on small instances. TLAPS proves every safety
property of theirs that holds, the invariants and the action properties, for every value
of the constants; what is model-checked only is liveness.

Paths such as `providers/unified.py:197` are in the repository.

## 1. The system

Everything runs on one asyncio event loop (plus worker threads for file and PDF
work), so what a coroutine does between two awaits is atomic and everything else
interleaves. That is the granularity of the modules: one action per stretch
between awaits, all its calls included.

| Component | State it keeps | Operations | What is hard |
|---|---|---|---|
| Resilience (`providers/resilience.py`) | one breaker per provider, process-wide: state, counter, `opened_at` | `call_with_resilience`, `call_with_retry`, `is_open`, `reset` | concurrent callers finish in any order, after the breaker moved, after `reset` replaced it |
| Routing (`providers/unified.py`) | per `UnifiedLLM` a health cache with a TTL | `generate`: order, three skips, attempt, bookkeeping, fallback | the state read by the skips moves while calls are awaited |
| Budget guard (`providers/budget.py`) | tally of the session | `check`, `record_actual`, `__enter__` | check and charge are on two sides of an await |
| Adapters (`providers/adapters.py`) | none | SDK calls under `wait_for(120)` | time-outs, error classes |
| Task API (`apps/api/main.py`) | `_tasks` (bounded), `_task_handles` | submit, get, list, delete, `_run_task` | eviction, cancellation and results in any order |
| Rate limiter (`apps/api/rate_limit.py`) | per client and window a deque of times, the time of the last prune | `dispatch` | boundaries, pruning of clients still limited |
| Thesis pipeline (`core/orchestrator/thesis_flow.py`, `providers/thesis_agents.py`) | local to `execute()` | planner, memory and corpus at once, search, researcher, checker and synthesizer at once, critic, supervisor, save | what a prompt is compiled from, and what a stage that failed leaves behind |
| Blackboard (`core/blackboard/engine.py`) | Redis keys per session | `add_entry`, `get_all_entries`, `clear` | Redis may fail at each one |
| Prompt compiler, templates (`core/orchestrator/compiler.py`, `prompts/`) | none | which entries reach which section | keys that writer and reader call differently |
| Router (`core/router/engine.py`) | none | `route`, budget and privacy degradation | thresholds |
| Code audit (`core/orchestrator/readme_flow.py`, `pr_flow.py`, `providers/code_audit_agents.py`) | local to `audit()` | planner, grep, checker with the trust gate, critic, report | ids of claims, evidence against verdicts, failing stages |
| Source adapters (`core/sources/`) | none | `search_any`, `fetch`, diff parser | limits and order |
| Session stores (`core/sessions/store.py`) | Redis key with expiry and sorted-set index without, or a Postgres table | `save`, `load`, `list_sessions`, `delete`, `count`, `clear_all` | every operation but `save` is a sequence of commands, and index and keys drift apart |
| Tool cache and registry (`tools/cache.py`, `tools/mcp/engine.py`) | Redis keys with a TTL, shared by all processes | `MCPTool.execute`: get, compute, set | a result that comes late, malformed entries, failing Redis, failures that must not be remembered |
| User RAG, corpus, embeddings (`tools/mcp/rag.py`, `core/corpus/`, `core/embeddings.py`) | Qdrant collections, points whose id is a hash of path and place | chunk, ingest, search, delete | windows and overlaps, re-ingestion by processes that die or overtake each other, names that collide |
| Academic search (`tools/mcp/academic.py`) | none | HTTP with retries under a deadline | which end of a request is an answer |
| Literature search (`thesis_flow.py`, `_search_literature_from_plan`) | local | up to three lanes of a plan and the RAG under `gather`, merge, deduplicate | a lane that fails, lanes that answer in any order |
| Episodic memory (`core/memory/episodic.py`) | Qdrant collection | store, retrieve | — |
| MCP server (`apps/mcp_server/`) | the orchestrator, built on the first `tools/call` | stdio JSON-RPC loop, one line at a time | pipelined lines, errors at every stage, a request that blocks those behind it |
| Legacy orchestrator, worker, CLI, evals, scripts, configuration, logging | — | — | sequential drivers and data |

How they meet: the API creates an orchestrator per task and runs it as an asyncio
task with a handle. The orchestrator installs one budget guard for the session and
calls each agent through one `UnifiedLLM`, whose `generate` asks the process-wide
breaker registry, its own health cache and the guard before it awaits a provider.
Agents exchange results only over the session's blackboard; the compiler turns a
snapshot of it into a prompt. Audits use the same `UnifiedLLM`, with no blackboard
and no guard. The literature search and the MCP server's tools go through
`MCPTool.execute`, which shares its Redis cache with every other process.
`DELETE /tasks/{id}` cancels the asyncio task, and the cancellation
surfaces at whichever await the pipeline, the routing or the breaker is in.

What makes each part correct:

- *breaker*: trips on exactly `fail_max` consecutive transient endings, stays OPEN
  until it may probe, recovers when the provider does;
- *routing*: no provider asked twice or silently left out, skips justified, every
  call ends;
- *budget*: a session spends no more than its cap, or a bound that can be named;
- *task API*: the record, the handle and the asyncio task never come apart, and every
  task ends;
- *rate limiter*: never more than the limit in any window, no unjustified refusal, no
  state for quiet clients;
- *pipeline*: what a stage found is in front of every agent called later, no failure passes for a
  finding, checker and synthesizer stay independent, and status, episode and saved
  record agree;
- *audit*: no verdict without evidence, and none on the README's own word;
- *sessions*: what can be loaded can be found, what was deleted cannot, and a listing
  is what SQL would have answered;
- *tool calls and search*: an answer is no older than the cache's lifetime, a failure
  is never remembered, and the merged papers are those of the lanes that answered;
- *MCP server*: a reply to each request that is owed one, in order, with its id where
  the server knows it;
- *RAG*: no word of a document is lost, and a finished ingest is what the store shows of
  its collection.

`PROJECT.json` lists the hazards of the code, each at its line, with the properties
that would catch them going wrong.

## 2. Modules

```
BreakerRules ──► CircuitBreaker ──► CircuitBreakerProofs (uses BreakerRulesProofs)
     │
     └────────► ProviderRouting ──► RoutingRefinement ──► RoutingProofs
                                        │ INSTANCE            │ INSTANCE
                                        ▼                     ▼
                                   BudgetGuard ────────► BudgetGuardProofs
RateLimiter ──┐
TaskQueue ────┴──► ApiProofs               CodeAudit ──► CodeAuditProofs
ThesisPipeline ──┐
SessionStore ────┴──► SessionProofs
ToolCalls ──► LiteratureSearch ──► McpServer ──┐
RagIndex ──────────────────────────────────────┴──► RetrievalProofs
```

Each specification `M` that is checked has a module `MCM` with the values of its
constants (`MCRetrieval` for McpServer and the modules it extends). Modules whose proofs share a file name their initial and next-state predicates
apart (`InitQueue`, `NextIndex`). An operator named `X_Something` right before `X` is not part of the
specification: it is `X` with a plausible bug, and shows that a property would notice it.

**BreakerRules** is one breaker as a value and what each event makes of it:
`Admitted` (OPEN to HALF_OPEN when the timeout elapsed), `AfterSuccess`,
`AfterTransient`, `AfterExcluded` (permanent errors and cancellations), `Aged`. The
counter saturates at `FailMax` and the age at `ResetTimeout`, because the code
only compares them with these.

**CircuitBreaker** is `call_with_resilience` under concurrent callers. `call[c]` is
the attempt a caller is in and whether it still holds the registered breaker object;
`Reset` detaches the running calls. `up` is the provider. The history `recent` holds
the last endings, in the order in which calls end.

**BudgetGuard** is the abstract specification of a session's spending: calls in
flight with the estimate they were admitted with (`pending`), and the tally. `Over` is
how far an answer can cost more than its estimate, since the estimate assumes
`BUDGET_OUTPUT_TOKEN_FLOOR` output tokens and answers may be longer. It has no run of its
own: the routing is checked, and proved, to implement it.

**ProviderRouting** is `generate()` for any number of sessions and calls: `Walk` is the
loop with its three skips up to the next await, `Answer` and `Fail` the two ends of
an attempt with everything they write, `Cancel` the cancelled task. Breakers are
shared, health caches and tallies per session.

**RoutingRefinement** maps a watched session's calls to BudgetGuard: a call is
pending exactly while it awaits a provider. `GuardImplemented` is the abstract
specification as a property of the routing.

**RateLimiter** is `dispatch`: prune, trim both windows, refuse or log. `log` has the
keys `_state` has; `admits` is the history of the admitted requests, against which
bounds and refusals are stated.

**TaskQueue** is the task store with the asyncio tasks: `aio[id]` says what the task
is doing, `cancelled` which cancellations have not been delivered yet. A cancellation
before the first step runs no `finally` clause (`CancelUnstarted`); one that arrives
together with the result may be absorbed by `wait_for` before Python 3.12
(`CancelLost`; the package allows 3.9).

**ThesisPipeline** is one `execute()`. A stage ends with its own result, an empty one
(what an unparsable answer or `[ALL_PROVIDERS_FAILED]` becomes) or a placeholder
(an exception). `read[g]` is the snapshot a prompt is compiled from, `Slots`,
`Legible` and `Shown` what the compiler and the templates make of it. Redis may fail
at `MaxLost` operations, and the task may be cancelled at any await. The route is the
one `_execute_inner` always gets, with all agents active. Sessions share nothing in
this module, so one is enough.

**CodeAudit** is one audit, of a README in the searched tree, of one outside it or of
a pull request. Claims are places in the planner's list with an id, `hits` are the
files that match in walk order, `evidence` the matches that are kept, `Gated` is
`_enforce_trust_gate` for one claim. Dictionaries keyed by id are what they are in
the code: of equal ids the last one counts (`Heeded`).

**SessionStore** is RedisSessionStore command by command. `left[id]` is the life of a
session's key, `indexed` the sorted set, `stamp` the score `save` gave; `reader` and
`eraser` are the listings and deletions under way, of which other callers see every
state in between. `SqlPage` is the abstract answer: PgSessionStore's, which filters
before it cuts. `Abandon` is a caller that dies, or a Redis that fails, between two
commands; `torn` remembers what that left behind.

**ToolCalls** is `MCPTool.execute` with `SearchCache` and the retried request of the
arXiv, Semantic Scholar and CrossRef tools. The cache client is synchronous, so
looking up and storing are one step each; between them a call awaits the API through
`request` and `sleep`. An entry carries the ticks since the API gave it, which is how
`AnswersFresh` can speak of the answer's age and not of the key's.

**LiteratureSearch** composes several tool calls into one search: `LanesOf` cuts the
plan, `BeginLane` starts the lanes in `gather`'s order, `Gather` waits for all of them,
`Deduplicated` is `_deduplicate_papers`. The loops are recursive functions of the place
they have come to (`Asked`, `LanePapers`, `Kept`), as in RagIndex, so that they can be
proved about.

**McpServer** puts both behind the stdio loop: `server` is the position in `run()`,
`built` whether the orchestrator exists, `replies` what was sent and under which id.
A line has a kind, and the kinds differ in what the loop does with them: what needs no
tool; a notification; what is no JSON (`unreadable`) or raises before a tool is called
(`faulty`: `params` that are a list, `server.py:143`); a line beyond the 64 KiB of
`StreamReader`, whose rest is read as further lines (`Overrun`, `SkipRest`, bounded by
`MaxPieces`); and calls of the tools, of which a critique is awaited (`Critique`) and an
unknown one is not. All of these, the unknown tool too, need the orchestrator first
(`Build`, outside `_call_tool`'s `try`). No piece of a long line is taken to be a request,
and every reply to be one that can be encoded and written. Calls of another process
(`Others`) use the same cache.

**RagIndex** is `tools/mcp/rag.py`. `Chunks` is `chunk_text` as a fold over the
sentences' lengths, with a word represented by its place in the document, so that a
chunk can be compared with the text it should hold. Each indexer is a process: `Read`,
`Ensure`, `Create`, one `Add` per batch, and `Die` between any two. `CollectionFor` is
`_collection_for`: a name is the stem it is reduced to, whether it was clean, the six hex
digits of md5 that are kept of the original, and what tells it from the other names with
that stem and those digits (`text`). Of Qdrant it assumes that `client.add` creates a
collection that is missing as it begins and upserts its batches in order, one point per
batch here; of the full md5 a point's id is cut from, that it is injective. `complete` is
the history the properties are stated against: the last ingest of a file in a collection
that nothing has touched there since.

## 3. Runs

| Run | States | Question and bounds |
|---|---|---|
| `breaker` | 15 166 | 2 callers, `FailMax` 2, timeout 2 ticks, 2 attempts. Two callers are enough for a late success, a late failure and a detached call against a breaker the other one moved. Threshold 2 is the least for which "consecutive" means something. |
| `routing` | 276 668 | 2 calls of one session, 2 providers of different prices and a mode whose preferred provider is unavailable, cap 3, `FailMax` 2, timeout, TTL and clock of one tick, 2 attempts. Breaker, health and budget each refuse a provider in some state, alone and together; the two calls reach the bound `MaxUsd + Over + (n-1)(MaxEst+Over)` when both are let through on one tally that has room for one of them. It is finite because a new session resets the tally. |
| `rate_limiter` | 395 322 | 2 clients, windows of 1 and 3 ticks with limits 2 and 3, prune interval 2, time up to 7: more than two full windows and three prunes. `MaxTime` is the only cap that is not in the code. |
| `task_queue` | 23 560 | 4 ids, a store of 2: two evictions can follow each other while evicted tasks still run. Ids are drawn once, so it may stop when they are used up. |
| `pipeline` | 881 845 | all outcomes of all stages, one lost Redis operation anywhere, cancellation at any await. One loss is enough: no property relates two. It stops when the session has returned. |
| `audit` | 23 934 | up to 2 claims with ids from {none, 1, 2}, up to 3 matches per claim over two files, at most 2 snippets, every answer of the checker. Two claims are enough for a collision. It stops with the report. |
| `sessions` | 4 638 179 | 3 sessions of two labels against a page of 2, one listing and one deletion or `clear_all` at a time, keys that live one tick, 2 ticks. Three sessions overflow the page and leave a shorter one after a filter; the listing, the deletion and the saves interleave command by command. It stops when time and ids are used up. |
| `retrieval` | 617 472 | 2 lines of any kind, a long one in up to 2 pieces, among them a citation and a research with a plan of 2 lanes that may ask for the same key or be cut, blank or empty; a call of another process, a cache of 1 tick, 1 retry. Two lines are enough for a call to fail before the orchestrator is built and the next to build it, and for one to find what the other, or the other process, has stored; one tick for an entry to grow old while a call is under way and to expire. |
| `rag` | 2 210 672 | chunks of 3 words that overlap by 2; all 781 documents of up to 4 sentences of up to 5 words for `chunk_text`; one file that is edited once; three names with one stem, of which two mean the same collection and one another; two interchangeable indexers; documents of no, one and two chunks: a re-ingest may leave a point of the old tail behind. A sentence of 5 is longer than a chunk and leaves a rest in its windows. It stops when the file is empty and can be edited no more. |

The properties of these runs, by hazard:

- *late and crossing results*: `OpenNeverClosesDirectly`, `CounterExact` (the counter
  is the length of the run of transient endings), `ConsecutiveFailuresTrip`,
  `TripsOnlyOnConsecutiveFailures`, `RecoversWhenUp`;
- *fallback*: `EveryProviderAccounted`, `OpenIsNeverLeft` (the code's actual promise,
  see below), `GenerateEnds`;
- *money*: `SpendBounded`, `GuardImplemented`;
- *limits*: `WindowBound`, `RefusedOnlyWhenFull`, `QuietClientsForgotten`;
- *task races*: `RecordTellsTruth`, `HandlesAreLive`, `DeleteStopsWork`, `Lifecycle`,
  `EvictsOnlyWhenFull`, `EveryTaskEnds`;
- *partial failure in the pipeline*: `ChecksIndependent`, `EntriesReachDownstream`,
  `NoPlaceholderShown`, `VerdictsAgree`, `EverySessionEnds`;
- *the trust gate*: `GateHolds`, `TiedOrUnsupported`, `ReadmeIsNoEvidence`,
  `SummaryAddsUp`;
- *an index apart from its keys*: `LiveIndexed`, `DeletedLeavesIndex`, `ListingAgrees`;
- *late, failing and shared answers*: `AnswersFresh`, `MergedExact`;
- *replies*: `RepliesMatchRequests`, `EveryLineServed`;
- *documents*: `ChunksFaithful`, `StoreShowsLastIngest`.

`ClosedBelowThreshold` and the type invariants, but for those of the task queue and the
pipeline, are proved and in no run.

Three runs check what the repository says of itself and find it otherwise:

| Run | The repository says | What the run shows |
|---|---|---|
| `routing_stuck` | a tripped provider is skipped "until the reset timeout expires" (`providers/unified.py:238-241`) | `generate` skips on the stored state, and only a call it does not skip would move it to HALF_OPEN. The provider stays skipped for ever: `OpenIsNeverLeft` is proved. |
| `audit_same_id` | "a no-evidence verdict is *always* unsupported" (`providers/code_audit_agents.py:283`) | of two claims with one id, the first is judged on the evidence of the second |
| `pipeline_unseen` | each stage's output is appended "so downstream agents see" it (`docs/architecture.md:45`); the "researcher retrieves from" the user's PDFs (`README.md:151`) | the papers of the search are on the researcher's snapshot, but the compiler takes only the query and the source of a `lit_search` entry (`compiler.py:136`); the plan is posted as `output` and read as `result` (`compiler.py:64`). `EntriesReachDownstream`, which passes and is proved, is what is left: every entry is on the snapshot, and all but these two are shown. |

## 4. Fairness

Liveness is checked only under what the code's scheduling gives.

- `breaker`: the clock ticks; a caller keeps calling; a call that can succeed infinitely
  often does (`SF` on `Succeed`): a provider that stays up answers some calls before
  they are cancelled. Nothing is assumed of failures, resets or short circuits, and
  `RecoversWhenUp` speaks only of providers that stay up. It is about callers of
  `call_with_resilience`; behind `generate` it does not hold, see `routing_stuck`.
- `routing`: every awaited attempt ends (`WF` on a call's resolution): adapters put a
  time-out of 120 s on every call and `call_with_retry` bounds the attempts.
- `task_queue`: the event loop runs ready tasks and `orch.execute` ends (`WF` on each
  task's own steps). Submissions, deletions and the loss of a cancellation are not
  fair.
- `pipeline`: stages return (`WF` on `Progress`), for the reasons above; cancellation
  is not fair.
- `retrieval`: `WF` on `ServerStep`, everything the server's own event loop does: ready
  coroutines run, a sleep ends, a critique ends (its provider calls are under the time-out
  above), and a request that was sent ends, with an answer or with
  an error: `_request_with_retry` gives each attempt a read time-out and bounds their
  number (a connection that is never made is given up by the operating system only, since
  the client's own connect time-out is replaced, see below).
  Nothing is assumed of the client or of the other process.

No fairness is used for the rate limiter, the audit, the session store and the RAG.

## 5. Proofs

The assumptions are the named `ASSUME`s of the modules: `FailMax`, `Attempts` and
`MaxEvidence` positive, sets of calls finite, each provider listed once, estimates between
1 and a bound, limits and widths natural with the minute inside the hour, a store of at
least one task, lifetimes and page sizes positive, a blank query no cache key, the lanes'
calls apart from the server's own and from those of other processes, papers and passages
sequences of ids, an overlap below the chunk's length, names as `_collection_for` tells
them apart. TLC evaluates all of them. What BudgetGuard needs of its
constants is a definition (`GuardAssumption`) and a hypothesis of its theorems; the routing's
instance is shown to satisfy it (`GuardAssumptionHolds`).

Each argument is an inductive invariant: the properties together with what has to be known
of every state for a step to keep them.

- **BreakerRulesProofs**: the rules keep the type of a breaker, keep OPEN open and
  keep CLOSED below the threshold. Used by both proofs that follow.
- **CircuitBreakerProofs**: `CounterExact` is inductive with `TypeOK`, by cases on
  what an ending appends to `recent` (`RememberShape`, `TransientExact`,
  `OtherExact`). `FailuresTrip` and `TripsOnFailuresOnly` follow from it, which is why
  the counter's exact meaning is an invariant of its own. `OpenThroughHalfOpen` and
  `ThresholdHolds` need only the rules.
- **BudgetGuardProofs**: the bound is not inductive alone, since a call that was
  admitted has yet to be charged. `Reserve` says that some call in flight leaves
  room in the bound for its own cost and for the worst cost of all the others; `AdmitStep` and `LeaveStep` count the calls
  in flight with the cardinality theorems. `CeilingWhenSerial` concludes that with one
  call at a time and estimates that are upper bounds the hard ceiling holds: the race
  and the estimate are the only two ways past it.
- **RoutingProofs**: `TypeCorrect`; `OpenForever`, for every timeout, from the fact that
  no step of `generate` applies `Admitted` to an OPEN breaker; and
  `RoutingImplementsGuard`, with a lemma for each step of the routing against an action
  or a stutter of BudgetGuard. `RoutingSpendBounded` then carries the abstract bound
  over through the instance. `ProvidersAccounted` is inductive with the types: the try
  order has every available provider at one place only (`OrderOnce`), so what a walk
  passes is added once (`WalkAccounts`) and the end of the order means all of them; every
  other step leaves what a call has accounted for alone (`AccountStep`).
- **ApiProofs**, rate limiter: the invariant is that a stored log is the suffix of the
  admitted requests that start at some cutoff no later than now minus the width
  (`LogIsSuffix`), and that these are sorted (`Sorted`). Trimming, pruning and
  appending preserve it; `LimitHolds`, `RefusalsJustified` and `StateBounded` follow.
- **ApiProofs**, task queue: `QueueInv` joins the three properties, since none is inductive
  alone: a deletion keeps record, handle and asyncio task together only if every recorded
  task that may run has its handle, and that only if the records are true. It adds that
  the store is within its bound, so that a submission evicts one record at most
  (`SubmitShape`), and that a cancellation under way is of a task with neither record nor
  handle, so that it may be delivered, or lost, at any time. The action properties
  `StatusGoesForward` and `EvictionOnlyWhenFull` follow step by step.
- **CodeAuditProofs**: the invariant `AuditInv` says which lists exist at which stage
  and that evidence lies outside an excluded README. With distinct ids the evidence
  heeded for an id is the claim's own (`OwnPool`), and the gate cites only what it
  heeds (`GateCites`); from these `TrustGate`. `SourcesTied` and `NoSelfVerification`
  need no distinct ids. For `ReportComplete` every verdict is one of the two legal words
  (`GateLegal`, whatever the checker wrote), so counting them by word counts each claim
  once (`EachCountedOnce`).
- **SessionProofs**, pipeline: `PipelineInv` has five parts. `OrderInv`: stages run in
  their order, an agent after everything upstream of it. `HonestInv`: an entry on the board,
  in the snapshot or in a prompt is from a stage that answered; from it no placeholder is
  ever shown. `SnapshotInv`: checker and synthesizer read one snapshot taken before either
  began. `NothingLostInv`: while Redis has lost nothing, an answer is on the board, then in
  the snapshot, then in the prompts; from it `EntriesArrive`, with `BeforeSnapshot` for the
  stages that are over before a snapshot is taken and `SlotsLegible` for the sections of the
  templates the compiler can fill. `VerdictInv`: result, episode and record are derived once
  from the errors, which are the placeholders. There is a lemma for each action.
- **SessionProofs**, store: `LiveIndexed` and `DeletedLeavesIndex` are inductive only with
  what deletions under way know (`ErasersInv`: a `ZREM` is pending only for keys that are
  gone, and a `clear_all` that found all living keys misses only those saved since).
  For the listing, `PageInv` relates a page half read to the answer SQL gave when it was
  cut; `PageAgainstSql` is the step at which it is cut: a page of an index that holds
  every living session cannot leave out one that SQL keeps and take one it does not.
  `ReadersStep` carries it over expiry, saves and deletions, for any page size.
- **RetrievalProofs**, tool calls and server: `CallsInv` says of every entry and every call
  that age and remaining life add up and that a sleeping call has an attempt left; it is
  stated entry by entry (`CallsInvParts`), so that a step is a new good entry and a new
  good call (`CallsInvPointwise`). `ServerInv` ties the server's position to the lines taken
  and to `built`; `ReplyStep` is the one lemma for all replies. `AnswersAreFresh` and
  `RepliesAccounted` follow.
- **RetrievalProofs**, search: `SearchInv` says that a lane that has begun is a call for its
  query, and that once the search is done the result is `Merged` from the lanes' calls. It
  is kept because no step but the end of the search takes back or changes the call of a
  lane (`Lasts`): calls proceed, others make theirs, entries expire, and an answer stays.
  What `Gather` computes is `MergedOf`: a result that keeps the first of each id
  (`KeptFirsts`) of lists joined in order (`LanePapersHold`) has each paper once, all of
  them, and in the order of the lane that brought it first.
- **RetrievalProofs**, RAG: `StoreInv` says that a point lies at the id made of what it
  shows of itself (`PointsInv`), and that what an undisturbed indexer has added so far (`JobsInv`) and a
  finished ingest (`CompleteInv`) are at their places. Undisturbed means by anything in the
  same collection, under whatever name: the proof needs nothing of `_collection_for`.
  `LastIngestShown` follows.
- **RetrievalProofs**, chunks: `EveryDocumentWellChunked` is about every document, every
  chunk size and every overlap below it. `ChunksCut` says what the loop has after each
  sentence: chunks that cut the words so far, in order, replaying at most the overlap, and a
  buffer that continues them; `TakeKeeps`, `FlushKeeps` and `Windowed` are its three ways of
  going on.

What a recursion computes cannot be proved by the library's induction theorems, which take
the induction hypothesis as an operator. It is proved by a least counterexample instead:
the places at which a claim fails are a set of numbers, `Smallest` gives the least of them,
and the step from the place before it refutes it. That a recursive function exists is
proved in the same way (`LoopExists`, `EndsAre`, `GatheredAre`).

Model-checked only: the liveness properties `RecoversWhenUp`, `GenerateEnds`,
`EveryTaskEnds`, `EverySessionEnds` and `EveryLineServed`, since fairness and ENABLED are
beyond the prover. The three divergences of section 3 are counterexamples.

## 6. What is left out, and why

- Data: prompts, answers, formatting, logging, metrics. Error classification is a
  choice between transient and permanent.
- `MAX_BUDGET_USD` unset and dry runs switch the guard or the providers off;
  `reserve()` and the `budget` parameter of `generate` have no caller.
- `get`, list and health endpoints read only. The `X-RateLimit` headers are not
  modelled (the remaining count does not include the request being answered).
- A reused `ReadmeAuditOrchestrator` keeps its first adapter and greps that repository
  for every later audit, against its comment at `readme_flow.py:77-79`. No caller
  reuses one, so the audit model begins with a fresh one.
- The pool of PgSessionStore: two first calls of one store would both open one, but every
  task makes its own store and each calls it once at a time.
- Text extraction, the splitting into sentences, embeddings and their cache.
- Vector stores, PDF extraction, vendor SDKs and HTTP are external.
- The router's degradations, the source adapters' fetching and diff parser, the thesis
  corpus: planned, see below.
- The legacy orchestrator, the CLI, the worker stub, the evaluation harnesses and the
  scripts drive what is modelled one call after another.

Divergences noticed while reading that no run shows:

- "Per-session hard USD ceiling" (`docs/CONFIGURATION.md:89`) holds for one call at a
  time only (`CeilingWhenSerial`): two that pass `check` on the same tally together
  exceed it, by no more than `SpendBounded` says;
- over-fetching is to keep the README's exclusion from shrinking "the result set below
  `max_evidence_per_claim`" (`readme_flow.py:172-173`), but the doubled limit is applied in
  walk order before the README is filtered out: a README walked first that matches that
  often leaves a claim no evidence, though another file has some;
- "two distinct user inputs cannot collapse to the same backing collection"
  (`rag.py:18-19`), but they can: a clean name that reads like a stem with its suffix, two
  names of one stem that agree in the 24 bits kept of their md5 (`rag.py:83`), or two names
  of which nothing is left, which all mean `default` (`rag.py:79-80`;
  `tests/test_rag.py:231-234` expects it). A search under one then finds what was ingested
  under the other. What does hold is stated of collections, not of names
  (`StoreShowsLastIngest`), and names of the `rag` run do collapse;
- `RedisSessionStore.delete` does nothing for a session that has expired, so its index
  entry, and `count()`, never recover (`store.py:92`); and `list_sessions` cuts the page
  before it filters, so pages come back short (`store.py:63`);
- the academic tools retry every HTTP error, a 404 too, whatever `_RETRYABLE_STATUSES`
  lists, and their `extensions={"timeout": {"read": ...}}` replaces the client's connect
  and pool time-outs;
- `_deduplicate_papers` never merges the same paper of arXiv (`arxiv_id`) and of Semantic
  Scholar (`paper_id`), and the lanes are cut before blank ones are skipped;
- an exception in the MCP server is answered with a null id (`server.py:222`), and
  `QDRANT_URL` is taken out of the environment after the settings may have been cached;
- re-ingesting a document that became shorter leaves its old tail searchable
  (`rag.py:282`); a chunk may hold up to `max_words + overlap_words` words, and the last
  window of a long sentence only words of the one before;
- the thesis corpus makes up an id per ingest, so that ingesting twice duplicates;
- the estimate is called a "conservative upper-bound" (`providers/budget.py:108`) but
  assumes a floor of output tokens; `Over` stands for the difference;
- a budget that no provider fits ends in an ordinary `[ALL_PROVIDERS_FAILED]` response,
  not in the error of `providers/budget.py:53-55`; agents parse it into an empty
  result and the session is `complete`;
- `tests/test_api.py:7` speaks of LRU eviction; the store evicts in order of submission;
- `Blackboard.clear` has no caller (`docs/architecture.md:65`: "Cleared after session
  completes");
- the planner's prompt is compiled before memory retrieval has posted the guidance its
  template has a section for;
- the vendors' 5xx errors reach `is_transient_error` in wordings it may not match, though
  `docs/CONFIGURATION.md:96` says they are retried.

## 7. Plan

Done: resilience, routing with the budget refinement, rate limiter, task queue, pipeline,
audit, session store, tool calls with the literature search and the MCP server, RAG; a
theorem for every invariant and every safety action property that a passing run checks.

Next, in this order:

1. Source adapters: what `fetch` keeps under its limits, the diff parser's line numbers.
2. The router's budget and privacy degradations against a reference definition.
3. Thesis corpus: a scroll while documents are ingested.
4. TaskQueue composed with ThesisPipeline: a deletion during a save.
