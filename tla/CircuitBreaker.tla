--------------------------- MODULE CircuitBreaker ---------------------------
(***************************************************************************)
(* One provider's breaker shared by concurrent callers of                  *)
(* call_with_resilience (providers/resilience.py): breaker outside, retry  *)
(* loop inside.  Callers are asyncio tasks of one process; a step runs     *)
(* from one await to the next.                                             *)
(*                                                                         *)
(*   breaker : the registry's current breaker for the provider             *)
(*   call    : per caller, what it does and how its last call ended        *)
(*   up      : whether the provider answers (environment)                  *)
(*   recent  : history, never read: how the last FailMax calls on the      *)
(*             current breaker ended, oldest first                         *)
(***************************************************************************)
EXTENDS BreakerRules, Sequences

CONSTANTS
    Callers,    \* the concurrent tasks
    Attempts    \* RESILIENCE_RETRY_ATTEMPTS (default 3)

ASSUME AttemptsAssumption == Attempts \in Nat \ {0}

VARIABLES breaker, call, up, recent

vars == <<breaker, call, up, recent>>

Endings == {"none", "ok", "short", "transient", "permanent", "cancelled"}

\* pc       : inside or outside call_with_resilience
\* try      : the attempt of call_with_retry that is being awaited
\* attached : FALSE once reset() dropped the breaker object this call holds
\* last     : how the caller's previous call ended
Call == [pc : {"idle", "running"}, try : 1..Attempts, attached : BOOLEAN, last : Endings]

Running(c) == call[c].pc = "running"

Init ==
    /\ breaker = FreshBreaker
    /\ call = [c \in Callers |->
                 [pc |-> "idle", try |-> 1, attached |-> TRUE, last |-> "none"]]
    /\ up \in BOOLEAN
    /\ recent = <<>>

-----------------------------------------------------------------------------
\* The breaker refuses at once: no attempt, nothing recorded against it.
ShortCircuit(c) ==
    /\ ~Running(c)
    /\ Cooling(breaker)
    /\ call' = [call EXCEPT ![c].last = "short"]
    /\ UNCHANGED <<breaker, up, recent>>

\* The breaker lets the call through and the first attempt is awaited.
Start(c) ==
    /\ ~Running(c)
    /\ ~Cooling(breaker)
    /\ breaker' = Admitted(breaker)
    /\ call' = [call EXCEPT ![c].pc = "running", ![c].try = 1, ![c].attached = TRUE]
    /\ UNCHANGED <<up, recent>>

\* A transient failure with attempts left: back off and try again.  The breaker
\* is neither asked nor told, even if another caller opened it meanwhile.
Retry(c) ==
    /\ Running(c)
    /\ ~up
    /\ call[c].try < Attempts
    /\ call' = [call EXCEPT ![c].try = @ + 1]
    /\ UNCHANGED <<breaker, up, recent>>

Remember(ending) ==
    LET s == Append(recent, ending)
    IN  IF Len(s) > FailMax THEN Tail(s) ELSE s

Settle_HitsNewBreaker(c, ending, told) ==
    /\ call' = [call EXCEPT ![c].pc = "idle", ![c].try = 1, ![c].last = ending]
    /\ breaker' = told
    /\ recent' = IF call[c].attached THEN Remember(ending) ELSE recent
    /\ UNCHANGED up

\* The awaited call ends: the breaker object it started with becomes `told`.  After
\* a reset that object is no longer the registry's, so nothing visible changes.
Settle(c, ending, told) ==
    /\ call' = [call EXCEPT ![c].pc = "idle", ![c].try = 1, ![c].last = ending]
    /\ IF call[c].attached
       THEN breaker' = told /\ recent' = Remember(ending)
       ELSE UNCHANGED <<breaker, recent>>
    /\ UNCHANGED up

Succeed(c) ==
    /\ Running(c)
    /\ up
    /\ Settle(c, "ok", AfterSuccess(breaker))

\* The last attempt failed transiently: one failure for the breaker.
FailTransient(c) ==
    /\ Running(c)
    /\ ~up
    /\ call[c].try = Attempts
    /\ Settle(c, "transient", AfterTransient(breaker))

\* Wrong key, malformed request, content filter: not retried.
FailPermanent(c) ==
    /\ Running(c)
    /\ Settle(c, "permanent", AfterExcluded(breaker))

\* The caller's task is cancelled while it awaits an attempt or a backoff.
Cancel(c) ==
    /\ Running(c)
    /\ Settle(c, "cancelled", AfterExcluded(breaker))

\* ProviderBreakerRegistry.reset: drop the breaker; the next call builds one.
Reset ==
    /\ breaker' = FreshBreaker
    /\ call' = [c \in Callers |-> [call[c] EXCEPT !.attached = ~Running(c)]]
    /\ recent' = <<>>
    /\ UNCHANGED up

Tick ==
    /\ breaker' = Aged(breaker)
    /\ UNCHANGED <<call, up, recent>>

ProviderFlips ==
    /\ up' = ~up
    /\ UNCHANGED <<breaker, call, recent>>

CallerStep(c) ==
    \/ ShortCircuit(c)
    \/ Start(c)
    \/ Retry(c)
    \/ Succeed(c)
    \/ FailTransient(c)
    \/ FailPermanent(c)
    \/ Cancel(c)

Next ==
    \/ \E c \in Callers : CallerStep(c)
    \/ Reset
    \/ Tick
    \/ ProviderFlips

Spec == Init /\ [][Next]_vars

\* Time passes, callers keep calling, and a provider that keeps answering answers
\* some of them: not every call is cancelled or permanently refused first.
FairSpec ==
    /\ Spec
    /\ WF_vars(Tick)
    /\ \A c \in Callers : WF_vars(Start(c)) /\ SF_vars(Succeed(c))

-----------------------------------------------------------------------------
\* Every variable keeps its type.
TypeOK ==
    /\ breaker \in Breaker
    /\ call \in [Callers -> Call]
    /\ up \in BOOLEAN
    /\ recent \in Seq(Endings)

\* A breaker that lets calls through as CLOSED has fewer failures than trip it,
\* whatever late results of earlier calls moved the counter while it was OPEN or
\* HALF_OPEN (_async_breaker_call).
ClosedBelowThreshold == breaker.state = "closed" => breaker.fails < FailMax

\* fail_counter is the number of transient failures since the last call that
\* ended otherwise, in the order in which calls END (each call once, whatever its
\* attempts), up to the threshold: the invariant behind the two that follow.
CounterExact ==
    LET n == Len(recent)
    IN  /\ breaker.fails <= n /\ n <= FailMax
        /\ \A i \in 1..n : i > n - breaker.fails => recent[i] = "transient"
        /\ breaker.fails < n => recent[n - breaker.fails] # "transient"

AllTransient == Len(recent) = FailMax /\ \A i \in 1..FailMax : recent[i] = "transient"

\* FailMax calls in a row that ended transiently, in the order in which they
\* ended, never leave the breaker CLOSED: it tripped, even when they were
\* admitted before the first of them failed.
ConsecutiveFailuresTrip == AllTransient => breaker.state # "closed"

\* ... and nothing else trips it: when the breaker opens, the last FailMax calls
\* that ended were all transient failures, each counted once however many
\* attempts it made (permanent errors and cancellations never count).
TripsOnlyOnConsecutiveFailures ==
    [][~IsOpen(breaker) /\ IsOpen(breaker') => AllTransient']_vars

\* A success that was admitted before the breaker tripped and arrives after it
\* does not close it: short of reset(), OPEN is left only through HALF_OPEN.
OpenNeverClosesDirectly ==
    [][IsOpen(breaker) /\ breaker'.state = "closed" => recent' = <<>>]_vars

\* A provider that stays up ends with a CLOSED breaker that stays closed, from
\* every history of trips, probes, late results and resets.
RecoversWhenUp == <>[]up => <>[](breaker.state = "closed")

=============================================================================
