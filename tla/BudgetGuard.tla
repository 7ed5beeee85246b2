---------------------------- MODULE BudgetGuard ----------------------------
(***************************************************************************)
(* What one session's BudgetGuard (providers/budget.py) promises when the  *)
(* guard is on: the running tally, and the provider calls its check() let  *)
(* through that have not recorded their cost yet.  Money is in natural     *)
(* numbers of a small unit.                                                *)
(*                                                                         *)
(* check() reads the tally and record_actual() writes it, with the whole   *)
(* awaited provider call in between: nothing is reserved.  The question is *)
(* how far past the cap concurrent calls of one session can spend.         *)
(* ProviderRouting is shown to implement this specification.               *)
(***************************************************************************)
EXTENDS Integers, FiniteSets

CONSTANTS
    Calls,      \* the generate() calls a session can have in flight at once
    MaxUsd,     \* MAX_BUDGET_USD
    Estimates,  \* values estimate() returns
    MaxEst,     \* ... and a bound on them
    Over        \* how far a call's real cost can exceed its estimate: the
                \* estimate assumes BUDGET_OUTPUT_TOKEN_FLOOR output tokens, a
                \* longer answer costs more

\* What the constants are; ProviderRouting's instance satisfies it.
GuardAssumption ==
    /\ IsFiniteSet(Calls) /\ Calls # {}
    /\ MaxUsd \in Nat
    /\ MaxEst \in Nat
    /\ Estimates \subseteq 1..MaxEst
    /\ Over \in Nat

VARIABLES
    spent,      \* BudgetGuard.spent_usd
    pending     \* pending[c]: the estimate c was let through with, 0 if c has
                \* no provider call in flight

guardVars == <<spent, pending>>

InFlight == {c \in Calls : pending[c] # 0}

\* BudgetGuard.check
Fits(e) == spent + e <= MaxUsd

Init ==
    /\ spent = 0
    /\ pending = [c \in Calls |-> 0]

\* generate() lets c try a provider: its first, or the next one after a failure.
Admit(c, e) ==
    /\ Fits(e)
    /\ pending' = [pending EXCEPT ![c] = e]
    /\ UNCHANGED spent

\* The provider answered: record_actual adds the real cost.
Record(c, cost) ==
    /\ pending[c] # 0
    /\ cost \in 0..(pending[c] + Over)
    /\ spent' = spent + cost
    /\ pending' = [pending EXCEPT ![c] = 0]

\* The call failed or was cancelled: nothing is recorded.
Drop(c) ==
    /\ pending[c] # 0
    /\ pending' = [pending EXCEPT ![c] = 0]
    /\ UNCHANGED spent

\* The next session installs a guard of its own (ThesisOrchestrator.execute).
NewGuard ==
    /\ InFlight = {}
    /\ spent' = 0
    /\ UNCHANGED pending

Next ==
    \/ \E c \in Calls : \E e \in Estimates : Admit(c, e)
    \/ \E c \in Calls : \E cost \in 0..(MaxEst + Over) : Record(c, cost)
    \/ \E c \in Calls : Drop(c)
    \/ NewGuard

Spec == Init /\ [][Next]_guardVars

-----------------------------------------------------------------------------
\* The tally is a natural number, pending calls hold estimates.
TypeOK ==
    /\ spent \in Nat
    /\ pending \in [Calls -> Estimates \cup {0}]

\* The most a session can have spent: the calls that pass check() together each
\* add their cost to a tally none of the others is in yet.  With one call at a
\* time and estimates that are upper bounds (Over = 0) it is the cap itself.
OvershootBound ==
    spent <= MaxUsd + Over + (Cardinality(Calls) - 1) * (MaxEst + Over)

\* What budget.py and CONFIGURATION.md promise: a session never spends more than
\* MAX_BUDGET_USD.
HardCeiling == spent <= MaxUsd

=============================================================================
