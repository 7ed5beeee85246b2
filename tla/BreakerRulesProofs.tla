------------------------- MODULE BreakerRulesProofs -------------------------
(***************************************************************************)
(* What the breaker rules preserve, for every threshold and timeout.       *)
(***************************************************************************)
EXTENDS BreakerRules, TLAPS

\* The rules keep a breaker a breaker.
LEMMA RulesType ==
    ASSUME NEW b \in Breaker
    PROVE  /\ AfterSuccess(b) \in Breaker
           /\ AfterTransient(b) \in Breaker
           /\ AfterExcluded(b) \in Breaker
           /\ Aged(b) \in Breaker
<1> USE BreakerAssumption DEF Breaker, IsOpen
<1>1. /\ b.fails \in 0..FailMax /\ b.age \in 0..ResetTimeout
      /\ FailMax \in Nat /\ ResetTimeout \in Nat
  OBVIOUS
<1>2. AfterSuccess(b) \in Breaker
  BY <1>1 DEF AfterSuccess
<1>3. AfterTransient(b) \in Breaker
  <2>1. CASE b.fails + 1 >= FailMax
    BY <2>1, <1>1 DEF AfterTransient
  <2>2. CASE ~(b.fails + 1 >= FailMax)
    <3>1. b.fails + 1 \in 0..FailMax
      BY <2>2, <1>1
    <3>2. QED
      BY <2>2, <3>1 DEF AfterTransient
  <2>3. QED
    BY <2>1, <2>2
<1>4. AfterExcluded(b) \in Breaker
  BY <1>1 DEF AfterExcluded
<1>5. Aged(b) \in Breaker
  <2>1. CASE IsOpen(b) /\ b.age < ResetTimeout
    <3>1. b.age + 1 \in 0..ResetTimeout
      BY <2>1, <1>1
    <3>2. QED
      BY <2>1, <3>1 DEF Aged
  <2>2. CASE ~(IsOpen(b) /\ b.age < ResetTimeout)
    BY <2>2 DEF Aged
  <2>3. QED
    BY <2>1, <2>2
<1>6. QED
  BY <1>2, <1>3, <1>4, <1>5

\* Nothing that ends while a breaker is OPEN, and no passing of time, leaves OPEN.
LEMMA RulesKeepOpen ==
    ASSUME NEW b \in Breaker, IsOpen(b)
    PROVE  /\ IsOpen(AfterSuccess(b))
           /\ IsOpen(AfterTransient(b))
           /\ IsOpen(AfterExcluded(b))
           /\ IsOpen(Aged(b))
  BY BreakerAssumption
  DEF Breaker, AfterSuccess, AfterTransient, AfterExcluded, Aged, IsOpen

\* A breaker that may be CLOSED only below the threshold stays so.
LEMMA RulesBelowThreshold ==
    ASSUME NEW b \in Breaker, b.state = "closed" => b.fails < FailMax
    PROVE  /\ AfterSuccess(b).fails < FailMax
           /\ AfterTransient(b).state = "closed" => AfterTransient(b).fails < FailMax
           /\ AfterExcluded(b).fails < FailMax
           /\ Aged(b).state = "closed" => Aged(b).fails < FailMax
           /\ Admitted(b).state = "closed" => Admitted(b).fails < FailMax
<1> USE BreakerAssumption DEF Breaker, IsOpen
<1>1. b.fails \in Nat /\ FailMax \in Nat \ {0}
  OBVIOUS
<1>2. AfterTransient(b).state = "closed" => AfterTransient(b).fails < FailMax
  <2>1. CASE b.fails + 1 >= FailMax
    BY <2>1 DEF AfterTransient
  <2>2. CASE ~(b.fails + 1 >= FailMax)
    BY <2>2, <1>1 DEF AfterTransient
  <2>3. QED
    BY <2>1, <2>2
<1>3. QED
  BY <1>1, <1>2 DEF AfterSuccess, AfterExcluded, Aged, Admitted

=============================================================================
