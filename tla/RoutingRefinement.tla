------------------------- MODULE RoutingRefinement -------------------------
(***************************************************************************)
(* ProviderRouting implements BudgetGuard: the part of its state that one  *)
(* watched session's guard sees behaves as that specification says,        *)
(* whatever the breakers, the health caches and the other sessions do.     *)
(***************************************************************************)
EXTENDS ProviderRouting

CONSTANT Watched    \* the session

ASSUME WatchedAssumption ==
    /\ Watched \in Sessions
    /\ IsFiniteSet(Calls)
    /\ \E c \in Calls : SessionOf[c] = Watched

WatchedCalls == {c \in Calls : SessionOf[c] = Watched}

\* A call has a provider call in flight exactly while it awaits its target.
Pending == [c \in WatchedCalls |-> IF Calling(c) THEN Est[Target(c)] ELSE 0]

Guard == INSTANCE BudgetGuard WITH
    Calls <- WatchedCalls, Estimates <- {Est[p] : p \in Providers},
    spent <- spent[Watched], pending <- Pending

-----------------------------------------------------------------------------
\* Every provider call that is let through fitted the cap when it was checked, on
\* fallbacks as on first tries, and is charged at most once, with a cost that goes
\* with the estimate it was admitted on (UnifiedLLM.generate against BudgetGuard).
GuardImplemented == Guard!Spec

\* The bound of BudgetGuard on the routing's own tally: what a session overspends
\* depends on its own concurrent calls, never on another session's.
SpendBounded == Guard!OvershootBound

=============================================================================
