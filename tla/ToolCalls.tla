------------------------------ MODULE ToolCalls ------------------------------
(***************************************************************************)
(* Calls of the academic search tools: MCPTool.execute (tools/mcp/engine.py) *)
(* around the shared Redis result cache (tools/cache.py) and the retried    *)
(* HTTP request of the arXiv, Semantic Scholar and CrossRef tools           *)
(* (tools/mcp/academic.py).                                                 *)
(*                                                                          *)
(* The cache client is synchronous, so looking an answer up is one step,    *)
(* and so is storing it: execute_impl returns and cache.set runs with no    *)
(* await in between.  Between the two a call awaits the API.  Calls of      *)
(* several processes share the cache and nothing stops two of them from     *)
(* asking for the same key.                                                 *)
(***************************************************************************)
EXTENDS Integers

CONSTANTS
    Calls,      \* tool calls that may be under way at once
    Keys,       \* cache keys: a tool and its parameters
    DoiKeys,    \* those of crossref_verification
    Blank,      \* a query of white space
    Ttl,        \* search_cache_ttl_seconds, in ticks
    MaxRetries  \* _MAX_RETRIES

ASSUME CallsAssumption ==
    /\ DoiKeys \subseteq Keys /\ Blank \notin Keys
    /\ Ttl \in Nat \ {0} /\ MaxRetries \in Nat

VARIABLES
    cache,      \* what Redis holds under each key
    call        \* the tool calls under way

callVars == <<cache, call>>

Empty == [what |-> "none", age |-> 0, left |-> 0]
Malformed == [what |-> "malformed", age |-> 0, left |-> 0]
Entry(what, age, left) == [what |-> what, age |-> age, left |-> left]
Genuine == {"found", "absent"}

\* age: ticks since the API gave this answer.
Idle == [pc |-> "idle", key |-> Blank, attempt |-> 0, what |-> "none", age |-> 0]
Answer(k, what, age) ==
    [pc |-> "done", key |-> k, attempt |-> 0, what |-> what, age |-> age]
Asking(k, n) == [pc |-> "request", key |-> k, attempt |-> n, what |-> "none", age |-> 0]

InitCalls ==
    /\ cache \in [Keys -> {Empty, Malformed}]
    /\ call = [c \in Calls |-> Idle]

-----------------------------------------------------------------------------
Hit_Refreshes(c, k) ==
    /\ cache[k].what \in Genuine
    /\ call' = [call EXCEPT ![c] = Answer(k, cache[k].what, cache[k].age)]
    /\ cache' = [cache EXCEPT ![k].left = Ttl]

\* SearchCache.get answers.
Hit(c, k) ==
    /\ cache[k].what \in Genuine
    /\ call' = [call EXCEPT ![c] = Answer(k, cache[k].what, cache[k].age)]
    /\ UNCHANGED cache

\* It does not: nothing there, or Redis fails, or what is there does not parse and
\* is deleted, if Redis lets it.
Miss(c, k) ==
    /\ call' = [call EXCEPT ![c] = Asking(k, 0)]
    /\ cache' \in {cache} \cup
         (IF cache[k] = Malformed THEN {[cache EXCEPT ![k] = Empty]} ELSE {})

\* execute: look the answer up, else begin execute_impl.  A blank query is
\* refused there, before any request.
Execute(c, k) ==
    /\ call[c].pc = "idle"
    /\ \/ k \in Keys /\ (Hit(c, k) \/ Miss(c, k))
       \/ /\ k = Blank
          /\ call' = [call EXCEPT ![c] = Answer(k, "error", 0)]
          /\ UNCHANGED cache

\* What cache.set leaves behind: answers only, and nothing when Redis fails.
Stored_Errors(k, what) == {cache, [cache EXCEPT ![k] = Entry(what, 0, Ttl)]}

Stored(k, what) ==
    IF what \in Genuine THEN {cache, [cache EXCEPT ![k] = Entry(what, 0, Ttl)]}
    ELSE {cache}

Return(c, what) ==
    LET k == call[c].key
    IN  /\ call' = [call EXCEPT ![c] = Answer(k, what, 0)]
        /\ cache' \in Stored(k, what)

\* The API answers: something usable; for CrossRef also that there is no such
\* work; or something that does not parse, which is not retried.
Respond(c) ==
    /\ call[c].pc = "request"
    /\ \/ Return(c, "found")
       \/ call[c].key \in DoiKeys /\ Return(c, "absent")
       \/ Return(c, "error")

\* The request fails: no connection, or any error status, retryable or not, since
\* raise_for_status is caught with the rest.  The last failure is an error, but
\* for CrossRef's 404, which means that there is no such work.
FailAttempt(c) ==
    /\ call[c].pc = "request"
    /\ \/ /\ call[c].attempt < MaxRetries
          /\ call' = [call EXCEPT ![c].pc = "sleep"]
          /\ UNCHANGED cache
       \/ /\ call[c].attempt = MaxRetries
          /\ \/ Return(c, "error")
             \/ call[c].key \in DoiKeys /\ Return(c, "absent")

WakeUp_SameAttempt(c) ==
    /\ call[c].pc = "sleep"
    /\ \/ /\ call' = [call EXCEPT ![c] = Asking(@.key, @.attempt)]
          /\ UNCHANGED cache
       \/ Return(c, "error")

\* The back-off ends: next attempt, or the deadline of them all has passed.
WakeUp(c) ==
    /\ call[c].pc = "sleep"
    /\ \/ /\ call' = [call EXCEPT ![c] = Asking(@.key, @.attempt + 1)]
          /\ UNCHANGED cache
       \/ Return(c, "error")

\* Entries grow old and expire.
Tick ==
    /\ cache' = [k \in Keys |->
         IF cache[k].what \notin Genuine THEN cache[k]
         ELSE IF cache[k].left = 1 THEN Empty
         ELSE Entry(cache[k].what, cache[k].age + 1, cache[k].left - 1)]
    /\ UNCHANGED call

\* invalidate and clear_namespace.
Drop(k) ==
    /\ cache' = [cache EXCEPT ![k] = Empty]
    /\ UNCHANGED call

Proceed(c) == Respond(c) \/ FailAttempt(c) \/ WakeUp(c)

-----------------------------------------------------------------------------
CallsTypeOK ==
    /\ cache \in [Keys -> [what : {"none", "malformed"} \cup Genuine,
                           age : Nat, left : 0..Ttl]]
    /\ call \in [Calls -> [pc : {"idle", "request", "sleep", "done"},
                           key : Keys \cup {Blank}, attempt : 0..MaxRetries,
                           what : {"none", "error"} \cup Genuine, age : Nat]]

\* tools/cache.py: "No error caching", and answers expire.  Whatever fails or
\* races, what a call returns as an answer was given by the API within the last
\* Ttl ticks: an entry never outlives the answer in it, a failure is never
\* remembered, and a call asks at most MaxRetries + 1 times.
AnswersFresh ==
    /\ \A k \in Keys : cache[k].what \in Genuine => cache[k].age + cache[k].left = Ttl
    /\ \A c \in Calls : call[c].what \in Genuine => call[c].age < Ttl
    /\ \A k \in Keys : cache[k].what # "error"
    /\ \A c \in Calls : call[c].attempt <= MaxRetries

=============================================================================
