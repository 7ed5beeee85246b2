-------------------------- MODULE ProviderRouting --------------------------
(***************************************************************************)
(* UnifiedLLM.generate (providers/unified.py): concurrent calls of several *)
(* sessions walk a list of providers and ask the first one that is not     *)
(* refused by its circuit breaker, the session's health cache or the       *)
(* session's budget guard; a failure moves to the next.                    *)
(*                                                                         *)
(* Each session has a UnifiedLLM, hence a health cache, and a BudgetGuard  *)
(* of its own (apps/api/main.py makes an orchestrator per task); the       *)
(* breaker registry is the process-wide default one.                       *)
(*                                                                         *)
(* Everything between two awaits is one step: the refusal checks, the      *)
(* bookkeeping of the attempt that just ended and the walk to the next     *)
(* provider are never interleaved with another call.                       *)
(***************************************************************************)
EXTENDS BreakerRules, Integers, Sequences, FiniteSets

CONSTANTS
    Sessions,
    Calls,          \* generate() calls that can be in flight at once
    SessionOf,      \* the session each of them belongs to
    Available,      \* set_available_providers, each provider once: _build_try_order
                    \* drops the repetitions
    Preferred,      \* the providers the modes quality/balanced/cheap prefer
    Attempts,       \* RESILIENCE_RETRY_ATTEMPTS
    TTL,            \* ProviderHealthCache.ttl, in ticks (default 60 s)
    MaxUsd,         \* MAX_BUDGET_USD, in units of money
    Est,            \* Est[p]: BudgetGuard.estimate for provider p
    MaxEst,         \* a bound on the estimates
    Over            \* how far a real cost can exceed its estimate

Providers == {Available[i] : i \in 1..Len(Available)}

ASSUME RoutingAssumption ==
    /\ SessionOf \in [Calls -> Sessions]
    /\ Available \in Seq(Providers)
    /\ \A i, j \in 1..Len(Available) : Available[i] = Available[j] => i = j
    /\ Attempts \in Nat \ {0}
    /\ TTL \in Nat
    /\ MaxUsd \in Nat
    /\ MaxEst \in Nat
    /\ Est \in [Providers -> 1..MaxEst]
    /\ Over \in Nat

VARIABLES
    breaker,    \* breaker[p]: the registry's circuit breaker
    health,     \* health[s][p]: ticks since p was marked unhealthy, TTL + 1
                \* when there is no entry or it expired (is_healthy treats both
                \* alike and deletes an expired one)
    spent,      \* spent[s]: the session guard's tally
    call        \* call[c]: where generate() stands

vars == <<breaker, health, spent, call>>

NoEntry == TTL + 1

\* pc      : "idle" before the first call, "calling" while a provider is awaited
\* pref    : the mode's preferred provider
\* pos     : the position in the try order, past its end when all were refused
\* try     : the attempt of call_with_retry in progress
\* skipped : providers refused so far;  failed : providers that raised
\* result  : "answered", "all_failed" or "cancelled" once done
IdleCall(pref) ==
    [pc |-> "idle", pref |-> pref, pos |-> 1, try |-> 1,
     skipped |-> {}, failed |-> {}, result |-> "none"]

Calling(c) == call[c].pc = "calling"

Init ==
    /\ breaker = [p \in Providers |-> FreshBreaker]
    /\ health = [s \in Sessions |-> [p \in Providers |-> NoEntry]]
    /\ spent = [s \in Sessions |-> 0]
    /\ \E pref \in Preferred : call = [c \in Calls |-> IdleCall(pref)]

-----------------------------------------------------------------------------
\* _build_try_order: the preferred provider first, if it is available, then the
\* others in their order.
TryOrder(pref) ==
    IF pref \in Providers
    THEN LET k == CHOOSE i \in 1..Len(Available) : Available[i] = pref
         IN  [i \in 1..Len(Available) |->
                IF i = 1 THEN pref ELSE IF i <= k THEN Available[i - 1] ELSE Available[i]]
    ELSE Available

Refused_IgnoresEstimate(s, p, brk, hl) ==
    \/ IsOpen(brk[p])
    \/ hl[s][p] <= TTL
    \/ spent[s] >= MaxUsd

\* The three skips of the loop.  is_open is tested before the health entry and
\* the guard, and nothing is awaited between them and the call.
Refused(s, p, brk, hl) ==
    \/ IsOpen(brk[p])
    \/ hl[s][p] <= TTL
    \/ spent[s] + Est[p] > MaxUsd

\* Position i is the first from position `from` on whose provider is not
\* refused, or one past the end.
FirstOpenTo(s, order, from, i, brk, hl) ==
    /\ i \in from..(Len(order) + 1)
    /\ \A j \in from..(i - 1) : Refused(s, order[j], brk, hl)
    /\ i <= Len(order) => ~Refused(s, order[i], brk, hl)

Walk_DropsSkipped(c, pref, from, skipped, failed, brk, hl) ==
    LET order == TryOrder(pref)
    IN  \E i \in from..(Len(order) + 1) :
          /\ FirstOpenTo(SessionOf[c], order, from, i, brk, hl)
          /\ call' = [call EXCEPT ![c] =
               [pc |-> IF i <= Len(order) THEN "calling" ELSE "done",
                pref |-> pref, pos |-> i, try |-> 1,
                skipped |-> skipped,
                failed |-> failed,
                result |-> IF i <= Len(order) THEN "none" ELSE "all_failed"]]

\* The loop of generate() from position `from`, with the breakers and health
\* cache as they are by now.  A provider that is let through is awaited;
\* _async_breaker_call finds its breaker not OPEN and leaves it as it is.  When
\* none is left generate() returns the [ALL_PROVIDERS_FAILED] response.
Walk(c, pref, from, skipped, failed, brk, hl) ==
    LET order == TryOrder(pref)
    IN  \E i \in from..(Len(order) + 1) :
          /\ FirstOpenTo(SessionOf[c], order, from, i, brk, hl)
          /\ call' = [call EXCEPT ![c] =
               [pc |-> IF i <= Len(order) THEN "calling" ELSE "done",
                pref |-> pref, pos |-> i, try |-> 1,
                skipped |-> skipped \cup {order[j] : j \in from..(i - 1)},
                failed |-> failed,
                result |-> IF i <= Len(order) THEN "none" ELSE "all_failed"]]

\* The provider c awaits.
Target(c) == TryOrder(call[c].pref)[call[c].pos]

Ends(c, result) == call' = [call EXCEPT ![c].pc = "done", ![c].result = result]

\* An agent calls generate() with a mode.
Start(c, pref) ==
    /\ ~Calling(c)
    /\ Walk(c, pref, 1, {}, {}, breaker, health)
    /\ UNCHANGED <<breaker, health, spent>>

\* A transient failure with attempts left (call_with_retry).
Retry(c) ==
    /\ Calling(c)
    /\ call[c].try < Attempts
    /\ call' = [call EXCEPT ![c].try = @ + 1]
    /\ UNCHANGED <<breaker, health, spent>>

Answer_ChargesTwice(c, cost) ==
    LET p == Target(c)  s == SessionOf[c]
    IN  /\ Calling(c)
        /\ breaker' = [breaker EXCEPT ![p] = AfterSuccess(@)]
        /\ spent' = [spent EXCEPT ![s] = @ + 2 * cost]
        /\ health' = [health EXCEPT ![s][p] = NoEntry]
        /\ Ends(c, "answered")

\* The provider answers: the breaker is told, the cost recorded, the health
\* entry dropped, the response returned.
Answer(c, cost) ==
    LET p == Target(c)  s == SessionOf[c]
    IN  /\ Calling(c)
        /\ breaker' = [breaker EXCEPT ![p] = AfterSuccess(@)]
        /\ spent' = [spent EXCEPT ![s] = @ + cost]
        /\ health' = [health EXCEPT ![s][p] = NoEntry]
        /\ Ends(c, "answered")

Fail_RestartsOrder(c, told) ==
    LET p == Target(c)  s == SessionOf[c]
        brk == [breaker EXCEPT ![p] = told]
    IN  /\ breaker' = brk
        /\ UNCHANGED health
        /\ Walk(c, call[c].pref, 1, call[c].skipped, call[c].failed \cup {p}, brk, health)
        /\ UNCHANGED spent

\* The provider raised: its breaker becomes `told`, the provider is marked
\* unhealthy for this session, and the loop goes on.
Fail(c, told) ==
    LET p == Target(c)  s == SessionOf[c]
        brk == [breaker EXCEPT ![p] = told]
        hl == [health EXCEPT ![s][p] = 0]
    IN  /\ breaker' = brk
        /\ health' = hl
        /\ Walk(c, call[c].pref, call[c].pos + 1, call[c].skipped,
                call[c].failed \cup {p}, brk, hl)
        /\ UNCHANGED spent

FailTransient(c) == Calling(c) /\ call[c].try = Attempts /\ Fail(c, AfterTransient(breaker[Target(c)]))

FailPermanent(c) == Calling(c) /\ Fail(c, AfterExcluded(breaker[Target(c)]))

\* The task is cancelled while it awaits: CancelledError is told to the breaker
\* and passes through generate(), which marks and records nothing.
Cancel(c) ==
    /\ Calling(c)
    /\ breaker' = [breaker EXCEPT ![Target(c)] = AfterExcluded(@)]
    /\ Ends(c, "cancelled")
    /\ UNCHANGED <<health, spent>>

\* The session's task ended; the next one has a UnifiedLLM and a guard of its own.
NewSession(s) ==
    /\ \A c \in Calls : SessionOf[c] = s => ~Calling(c)
    /\ health' = [health EXCEPT ![s] = [p \in Providers |-> NoEntry]]
    /\ spent' = [spent EXCEPT ![s] = 0]
    /\ call' = [c \in Calls |->
                  IF SessionOf[c] = s THEN IdleCall(call[c].pref) ELSE call[c]]
    /\ UNCHANGED breaker

Tick ==
    /\ breaker' = [p \in Providers |-> Aged(breaker[p])]
    /\ health' = [s \in Sessions |-> [p \in Providers |->
                    IF health[s][p] <= TTL THEN health[s][p] + 1 ELSE NoEntry]]
    /\ UNCHANGED <<spent, call>>

Costs(c) == 1..(Est[Target(c)] + Over)

Resolve(c) ==
    \/ Retry(c)
    \/ \E cost \in Costs(c) : Answer(c, cost)
    \/ FailTransient(c)
    \/ FailPermanent(c)

Next ==
    \/ \E c \in Calls, pref \in Preferred : Start(c, pref)
    \/ \E c \in Calls : Calling(c) /\ Resolve(c)
    \/ \E c \in Calls : Cancel(c)
    \/ \E s \in Sessions : NewSession(s)
    \/ Tick

Spec == Init /\ [][Next]_vars

\* Every awaited attempt ends: adapters bound it with asyncio.wait_for(120 s),
\* and call_with_retry bounds the attempts.
FairSpec == Spec /\ \A c \in Calls : WF_vars(Calling(c) /\ Resolve(c))

-----------------------------------------------------------------------------
CallRec ==
    [pc : {"idle", "calling", "done"}, pref : Preferred, pos : 1..(Len(Available) + 1),
     try : 1..Attempts, skipped : SUBSET Providers, failed : SUBSET Providers,
     result : {"none", "answered", "all_failed", "cancelled"}]

\* Every variable keeps its type, and a call in progress has a provider.
TypeOK ==
    /\ breaker \in [Providers -> Breaker]
    /\ health \in [Sessions -> [Providers -> 0..(TTL + 1)]]
    /\ spent \in [Sessions -> Nat]
    /\ call \in [Calls -> CallRec]
    /\ \A c \in Calls : Calling(c) => call[c].pos \in 1..Len(TryOrder(call[c].pref))

\* generate() walks its whole order once: every provider before the current one
\* was refused or failed, no provider was both, none was asked twice, and "all
\* failed" is answered only when every available provider was.
EveryProviderAccounted ==
    \A c \in Calls :
      call[c].pc # "idle" =>
        LET order == TryOrder(call[c].pref)
        IN  /\ call[c].skipped \cup call[c].failed = {order[j] : j \in 1..(call[c].pos - 1)}
            /\ call[c].skipped \cap call[c].failed = {}
            /\ call[c].result = "all_failed" =>
                 call[c].skipped \cup call[c].failed = Providers

\* A breaker whose calls all come from generate() is never OPEN and then not:
\* the skip on is_open() keeps every call from the code that would probe it
\* HALF_OPEN, and calls admitted before it tripped do not close it.
OpenIsNeverLeft ==
    [][\A p \in Providers : IsOpen(breaker[p]) => IsOpen(breaker'[p])]_vars

\* Every generate() that is awaited returns (an answer or "all failed") or is
\* cancelled.
GenerateEnds == \A c \in Calls : Calling(c) ~> ~Calling(c)

\* unified.py:238-241: a tripped breaker makes calls skip the provider "until the
\* reset timeout expires".
SkipOnlyWhileCooling ==
    [][\A c \in Calls, p \in Providers :
         /\ p \in call'[c].skipped
         /\ Calling(c) => p \notin call[c].skipped
         /\ call'[c] # call[c]
         /\ IsOpen(breaker'[p])
         => Cooling(breaker'[p])]_vars

=============================================================================
