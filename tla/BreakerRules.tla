---------------------------- MODULE BreakerRules ----------------------------
(***************************************************************************)
(* One provider's circuit breaker as a value, and what each event makes of *)
(* it.  These are the rules that _async_breaker_call                       *)
(* (providers/resilience.py) drives by hand on pybreaker's state storage:  *)
(* CircuitBreaker composes them with concurrent callers of                 *)
(* call_with_resilience, ProviderRouting with UnifiedLLM.generate.         *)
(*                                                                         *)
(* A breaker is a record                                                   *)
(*   state : "closed", "open" or "half_open"                               *)
(*   fails : pybreaker's fail_counter.  The code only ever compares it     *)
(*           with fail_max, and half_open() does not reset it, so it       *)
(*           saturates at FailMax here where pybreaker counts on.          *)
(*   age   : ticks since opened_at, saturating at ResetTimeout.  opened_at *)
(*           is read only while OPEN; age is 0 in the other states.        *)
(***************************************************************************)
EXTENDS Naturals

CONSTANTS
    FailMax,        \* RESILIENCE_BREAKER_FAIL_MAX (default 5)
    ResetTimeout    \* RESILIENCE_BREAKER_RESET_SEC (default 60), in ticks

ASSUME BreakerAssumption ==
    /\ FailMax \in Nat \ {0}
    /\ ResetTimeout \in Nat

Breaker ==
    [state : {"closed", "open", "half_open"}, fails : 0..FailMax, age : 0..ResetTimeout]

\* ProviderBreakerRegistry.for_provider constructs it on first use.
FreshBreaker == [state |-> "closed", fails |-> 0, age |-> 0]

\* ProviderBreakerRegistry.is_open: the stored state, whatever the clock says.
IsOpen(b) == b.state = "open"

\* The calls _async_breaker_call refuses with CircuitBreakerError.
Cooling(b) == IsOpen(b) /\ b.age < ResetTimeout

\* What a call that is let through leaves behind: an OPEN breaker whose timeout
\* elapsed goes HALF_OPEN (the counter stays as it was), any other is untouched.
\* HALF_OPEN lets every caller through, not only one probe.
Admitted(b) ==
    IF IsOpen(b) THEN [state |-> "half_open", fails |-> b.fails, age |-> 0] ELSE b

\* Plausible bugs of the four rules below, for the mutation runs.
AfterSuccess_ClosesAnyState(b) == FreshBreaker
AfterSuccess_StaysHalfOpen(b) == [b EXCEPT !.fails = 0]
AfterTransient_OffByOne(b) ==
    IF b.fails >= FailMax THEN [state |-> "open", fails |-> FailMax, age |-> 0]
    ELSE [b EXCEPT !.fails = @ + 1]
AfterExcluded_Counts(b) ==
    IF b.fails + 1 >= FailMax THEN [state |-> "open", fails |-> FailMax, age |-> 0]
    ELSE [b EXCEPT !.fails = @ + 1]

\* The awaited call returned: the counter is reset whatever the state, and a
\* HALF_OPEN breaker closes.  A success that arrives while OPEN leaves it OPEN.
AfterSuccess(b) ==
    [state |-> IF b.state = "half_open" THEN "closed" ELSE b.state,
     fails |-> 0, age |-> b.age]

\* The call raised an error is_transient_error accepts, after its retries.
\* open() is called in whatever state the breaker is, so it restarts opened_at.
AfterTransient(b) ==
    IF b.fails + 1 >= FailMax
    THEN [state |-> "open", fails |-> FailMax, age |-> 0]
    ELSE [b EXCEPT !.fails = @ + 1]

\* The call raised an excluded exception: a permanent error, or the
\* CancelledError of a caller that gave up (the code catches BaseException).
AfterExcluded(b) == [b EXCEPT !.fails = 0]

\* One tick of the clock.
Aged(b) == IF IsOpen(b) /\ b.age < ResetTimeout THEN [b EXCEPT !.age = @ + 1] ELSE b

=============================================================================
