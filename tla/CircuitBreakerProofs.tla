------------------------ MODULE CircuitBreakerProofs ------------------------
(***************************************************************************)
(* CircuitBreaker for every set of callers, threshold, timeout and number  *)
(* of attempts.                                                            *)
(***************************************************************************)
EXTENDS CircuitBreaker, BreakerRulesProofs, SequenceTheorems

LEMMA AdmittedType ==
    ASSUME NEW b \in Breaker PROVE Admitted(b) \in Breaker
  BY BreakerAssumption DEF Breaker, Admitted, IsOpen

LEMMA RememberType ==
    ASSUME recent \in Seq(Endings), NEW e \in Endings
    PROVE  Remember(e) \in Seq(Endings)
<1>1. Append(recent, e) \in Seq(Endings) /\ Append(recent, e) # <<>>
  BY AppendProperties
<1>2. Tail(Append(recent, e)) \in Seq(Endings)
  BY <1>1
<1>3. QED
  BY <1>1, <1>2 DEF Remember

\* What the end of a call leaves behind, whatever its ending.
LEMMA SettleType ==
    ASSUME TypeOK, NEW c \in Callers, NEW e \in Endings, NEW b \in Breaker,
           call' = [call EXCEPT ![c].pc = "idle", ![c].try = 1, ![c].last = e],
           IF call[c].attached THEN breaker' = b /\ recent' = Remember(e)
                               ELSE UNCHANGED <<breaker, recent>>,
           UNCHANGED up
    PROVE  TypeOK'
<1>1. 1 \in 1..Attempts
  BY AttemptsAssumption
<1>2. call' \in [Callers -> Call]
  BY <1>1 DEF TypeOK, Call
<1>3. recent' \in Seq(Endings) /\ breaker' \in Breaker
  BY RememberType DEF TypeOK
<1>4. QED
  BY <1>2, <1>3 DEF TypeOK

LEMMA TypeStep == TypeOK /\ [Next]_vars => TypeOK'
<1> SUFFICES ASSUME TypeOK, [Next]_vars PROVE TypeOK'
  OBVIOUS
<1>0. /\ breaker \in Breaker /\ call \in [Callers -> Call]
      /\ up \in BOOLEAN /\ recent \in Seq(Endings)
  BY DEF TypeOK
<1>1. ASSUME NEW c \in Callers, ShortCircuit(c) PROVE TypeOK'
  BY <1>0, <1>1 DEF ShortCircuit, TypeOK, Call, Endings
<1>2. ASSUME NEW c \in Callers, Start(c) PROVE TypeOK'
  <2>1. 1 \in 1..Attempts
    BY AttemptsAssumption
  <2>2. call' \in [Callers -> Call]
    BY <1>0, <1>2, <2>1 DEF Start, Call
  <2>3. QED
    BY <1>0, <1>2, <2>2, AdmittedType DEF Start, TypeOK
<1>3. ASSUME NEW c \in Callers, Retry(c) PROVE TypeOK'
  <2>1. call[c].try + 1 \in 1..Attempts
    BY <1>0, <1>3, AttemptsAssumption DEF Retry, Call
  <2>2. [call[c] EXCEPT !.try = call[c].try + 1] \in Call
    BY <1>0, <2>1 DEF Call
  <2>3. call' \in [Callers -> Call]
    BY <1>0, <1>3, <2>2 DEF Retry
  <2>4. QED
    BY <1>0, <1>3, <2>3 DEF Retry, TypeOK
<1>4. ASSUME NEW c \in Callers, Succeed(c) PROVE TypeOK'
  BY <1>0, <1>4, RulesType, SettleType DEF Succeed, Settle, Endings
<1>5. ASSUME NEW c \in Callers, FailTransient(c) PROVE TypeOK'
  BY <1>0, <1>5, RulesType, SettleType DEF FailTransient, Settle, Endings
<1>6. ASSUME NEW c \in Callers, FailPermanent(c) \/ Cancel(c) PROVE TypeOK'
  BY <1>0, <1>6, RulesType, SettleType DEF FailPermanent, Cancel, Settle, Endings
<1>7. CASE Reset
  <2>1. FreshBreaker \in Breaker
    BY BreakerAssumption DEF FreshBreaker, Breaker
  <2>2. call' \in [Callers -> Call]
    BY <1>0, <1>7 DEF Reset, Call, Running
  <2>4. <<>> \in Seq(Endings)
    OBVIOUS
  <2>3. QED
    BY <1>0, <1>7, <2>1, <2>2, <2>4 DEF Reset, TypeOK
<1>8. CASE Tick
  BY <1>0, <1>8, RulesType DEF Tick, TypeOK
<1>9. CASE ProviderFlips
  BY <1>0, <1>9 DEF ProviderFlips, TypeOK
<1>10. CASE UNCHANGED vars
  BY <1>10 DEF vars, TypeOK
<1>11. QED
  BY <1>1, <1>2, <1>3, <1>4, <1>5, <1>6, <1>7, <1>8, <1>9, <1>10
  DEF Next, CallerStep

LEMMA TypeInit == Init => TypeOK
<1> SUFFICES ASSUME Init PROVE TypeOK
  OBVIOUS
<1>1. FreshBreaker \in Breaker
  BY BreakerAssumption DEF FreshBreaker, Breaker
<1>2. 1 \in 1..Attempts
  BY AttemptsAssumption
<1>3. call \in [Callers -> Call]
  BY <1>2 DEF Init, Call, Endings
<1>4. <<>> \in Seq(Endings)
  OBVIOUS
<1>5. QED
  BY <1>1, <1>3, <1>4 DEF Init, TypeOK

THEOREM TypeCorrect == Spec => []TypeOK
  BY TypeInit, TypeStep, PTL DEF Spec

-----------------------------------------------------------------------------
\* How a step changes the breaker.
LEMMA BreakerStep ==
    ASSUME TypeOK, [Next]_vars
    PROVE  \/ breaker' = breaker
           \/ ~IsOpen(breaker) /\ breaker' = Admitted(breaker)
           \/ Admitted(breaker) = breaker' /\ ~Cooling(breaker)
           \/ breaker' = AfterSuccess(breaker)
           \/ breaker' = AfterTransient(breaker)
           \/ breaker' = AfterExcluded(breaker)
           \/ breaker' = Aged(breaker)
           \/ breaker' = FreshBreaker /\ recent' = <<>>
<1>1. ASSUME NEW c \in Callers, CallerStep(c)
      PROVE  \/ breaker' = breaker
             \/ Admitted(breaker) = breaker' /\ ~Cooling(breaker)
             \/ breaker' = AfterSuccess(breaker)
             \/ breaker' = AfterTransient(breaker)
             \/ breaker' = AfterExcluded(breaker)
  BY <1>1 DEF CallerStep, ShortCircuit, Start, Retry, Succeed, FailTransient,
              FailPermanent, Cancel, Settle
<1>2. QED
  BY <1>1 DEF Next, Reset, Tick, ProviderFlips, vars

\* However calls interleave, a CLOSED breaker is below its threshold: a late
\* result that moves the counter of an OPEN or HALF_OPEN breaker cannot leave a
\* CLOSED one with enough failures to be OPEN.
THEOREM ThresholdHolds == Spec => []ClosedBelowThreshold
<1> DEFINE IInv == TypeOK /\ ClosedBelowThreshold
<1>1. Init => IInv
  BY TypeInit, BreakerAssumption DEF Init, FreshBreaker, ClosedBelowThreshold
<1>2. IInv /\ [Next]_vars => IInv'
  <2> SUFFICES ASSUME IInv, [Next]_vars PROVE IInv'
    OBVIOUS
  <2>1. breaker \in Breaker /\ (breaker.state = "closed" => breaker.fails < FailMax)
    BY DEF TypeOK, ClosedBelowThreshold
  <2>2. breaker'.state = "closed" => breaker'.fails < FailMax
    BY <2>1, BreakerStep, RulesBelowThreshold, BreakerAssumption DEF FreshBreaker
  <2>3. QED
    BY <2>2, TypeStep DEF ClosedBelowThreshold
<1>3. QED
  BY <1>1, <1>2, PTL DEF Spec

\* No interleaving closes an OPEN breaker without a HALF_OPEN state in between,
\* except reset().
THEOREM OpenThroughHalfOpen == Spec => OpenNeverClosesDirectly
<1>1. TypeOK /\ [Next]_vars =>
        [IsOpen(breaker) /\ breaker'.state = "closed" => recent' = <<>>]_vars
  <2> SUFFICES ASSUME TypeOK, Next, IsOpen(breaker), breaker'.state = "closed"
               PROVE  recent' = <<>>
    OBVIOUS
  <2>1. breaker \in Breaker
    BY DEF TypeOK
  <2>2. Admitted(breaker).state # "closed"
    BY <2>1 DEF Admitted, Breaker, IsOpen
  <2>3. QED
    BY <2>1, <2>2, BreakerStep, RulesKeepOpen DEF IsOpen
<1>2. QED
  BY <1>1, TypeCorrect, PTL DEF Spec, OpenNeverClosesDirectly

-----------------------------------------------------------------------------
\* Remembering an ending appends it and forgets the oldest beyond FailMax.
LEMMA RememberShape ==
    ASSUME TypeOK, Len(recent) <= FailMax, NEW e \in Endings
    PROVE  LET s == Remember(e)  n == Len(recent)
           IN  /\ n \in Nat
               /\ Len(s) = IF n + 1 > FailMax THEN n ELSE n + 1
               /\ s[Len(s)] = e
               /\ \A i \in 1..(Len(s) - 1) :
                     /\ i + n + 1 - Len(s) \in 1..n
                     /\ s[i] = recent[i + n + 1 - Len(s)]
<1> DEFINE n == Len(recent)
           a == Append(recent, e)
<1>0. recent \in Seq(Endings) /\ FailMax \in Nat \ {0} /\ n \in Nat
  BY BreakerAssumption DEF TypeOK
<1>1. /\ a \in Seq(Endings) /\ a # <<>> /\ Len(a) = n + 1 /\ a[n + 1] = e
      /\ \A i \in 1..n : a[i] = recent[i]
  BY <1>0, AppendProperties
<1>2. CASE n + 1 > FailMax
  <2>1. Remember(e) = Tail(a)
    BY <1>1, <1>2 DEF Remember
  <2>2. Len(Tail(a)) = n /\ \A i \in 1..n : Tail(a)[i] = a[i + 1]
    BY <1>1, HeadTailProperties
  <2>3. n >= 1
    BY <1>0, <1>2
  <2>4. Tail(a)[n] = e
    BY <1>0, <1>1, <2>2, <2>3
  <2>5. \A i \in 1..(n - 1) : i + 1 \in 1..n /\ Tail(a)[i] = recent[i + 1]
    BY <1>0, <1>1, <2>2
  <2> HIDE DEF n, a
  <2>6. \A i \in 1..(n - 1) : i + n + 1 - n = i + 1
    BY <1>0
  <2>7. Len(Remember(e)) = n /\ Remember(e)[n] = e
    BY <2>1, <2>2, <2>4
  <2>8. \A i \in 1..(n - 1) :
          i + n + 1 - n \in 1..n /\ Remember(e)[i] = recent[i + n + 1 - n]
    BY <2>1, <2>5, <2>6
  <2>9. QED
    BY <1>0, <1>2, <2>7, <2>8 DEF n
<1>3. CASE ~(n + 1 > FailMax)
  <2>1. Remember(e) = a
    BY <1>1, <1>3 DEF Remember
  <2>2. QED
    BY <1>0, <1>1, <1>3, <2>1
<1>4. QED
  BY <1>2, <1>3

LEMMA TransientExact ==
    ASSUME TypeOK, CounterExact, breaker' = AfterTransient(breaker),
           recent' = Remember("transient")
    PROVE  CounterExact'
<1> DEFINE n == Len(recent)
           f == breaker.fails
           m == Len(recent')
           g == breaker'.fails
<1>0. /\ f \in Nat /\ FailMax \in Nat \ {0} /\ f <= n /\ n <= FailMax
      /\ \A i \in 1..n : i > n - f => recent[i] = "transient"
      /\ f < n => recent[n - f] # "transient"
  BY BreakerAssumption DEF TypeOK, CounterExact, Breaker
<1>1. /\ n \in Nat /\ m = (IF n + 1 > FailMax THEN n ELSE n + 1)
      /\ recent'[m] = "transient"
      /\ \A i \in 1..(m - 1) :
            i + n + 1 - m \in 1..n /\ recent'[i] = recent[i + n + 1 - m]
  BY <1>0, RememberShape DEF Endings
<1>2. g = IF f + 1 >= FailMax THEN FailMax ELSE f + 1
  BY DEF AfterTransient, TypeOK, Breaker
<1> HIDE DEF n, f, m, g
<1>3. g <= m /\ m <= FailMax /\ m \in Nat /\ g \in Nat
  BY <1>0, <1>1, <1>2
<1>4. ASSUME NEW i \in 1..m, i > m - g PROVE recent'[i] = "transient"
  <2>1. CASE i = m
    BY <2>1, <1>1
  <2>2. CASE i # m
    <3>1. i \in 1..(m - 1)
      BY <2>2, <1>3
    <3>2. i + n + 1 - m > n - f
      BY <1>0, <1>1, <1>2, <1>3, <1>4
    <3>3. QED
      BY <3>1, <3>2, <1>0, <1>1
  <2>3. QED
    BY <2>1, <2>2
<1>5. ASSUME g < m PROVE recent'[m - g] # "transient"
  <2>1. g = f + 1 /\ f < n
    BY <1>0, <1>1, <1>2, <1>3, <1>5
  <2>2. m - g \in 1..(m - 1)
    BY <2>1, <1>0, <1>3, <1>5
  <2>3. (m - g) + n + 1 - m = n - f
    BY <2>1, <1>0, <1>1, <1>3
  <2>4. QED
    BY <2>1, <2>2, <2>3, <1>0, <1>1
<1>6. QED
  BY <1>3, <1>4, <1>5 DEF CounterExact, g, m

LEMMA OtherExact ==
    ASSUME TypeOK, CounterExact, breaker'.fails = 0,
           NEW e \in Endings \ {"transient"}, recent' = Remember(e)
    PROVE  CounterExact'
<1>1. /\ Len(recent) \in Nat /\ Len(recent) <= FailMax /\ FailMax \in Nat \ {0}
  BY RememberShape, BreakerAssumption DEF CounterExact
<1>2. /\ Len(recent') = (IF Len(recent) + 1 > FailMax THEN Len(recent) ELSE Len(recent) + 1)
      /\ recent'[Len(recent')] = e
  BY <1>1, RememberShape
<1>3. Len(recent') \in 1..FailMax
  BY <1>1, <1>2
<1>4. QED
  BY <1>2, <1>3 DEF CounterExact

LEMMA ExactStep == TypeOK /\ CounterExact /\ [Next]_vars => CounterExact'
<1> SUFFICES ASSUME TypeOK, CounterExact, [Next]_vars PROVE CounterExact'
  OBVIOUS
<1>1. ASSUME breaker'.fails = breaker.fails, recent' = recent PROVE CounterExact'
  BY <1>1 DEF CounterExact
<1>2. ASSUME NEW c \in Callers, FailTransient(c) PROVE CounterExact'
  BY <1>1, <1>2, TransientExact DEF FailTransient, Settle
<1>3. ASSUME NEW c \in Callers, Succeed(c) \/ FailPermanent(c) \/ Cancel(c)
      PROVE  CounterExact'
  <2>1. AfterSuccess(breaker).fails = 0 /\ AfterExcluded(breaker).fails = 0
    BY DEF AfterSuccess, AfterExcluded, TypeOK, Breaker
  <2>2. CASE call[c].attached
    BY <1>3, <2>1, <2>2, OtherExact DEF Succeed, FailPermanent, Cancel, Settle, Endings
  <2>3. CASE ~call[c].attached
    BY <1>1, <1>3, <2>3 DEF Succeed, FailPermanent, Cancel, Settle
  <2>4. QED
    BY <2>2, <2>3
<1>4. ASSUME NEW c \in Callers, ShortCircuit(c) \/ Start(c) \/ Retry(c)
      PROVE  CounterExact'
  BY <1>1, <1>4 DEF ShortCircuit, Start, Retry, Admitted
<1>5. CASE Tick \/ ProviderFlips \/ UNCHANGED vars
  BY <1>1, <1>5 DEF Tick, Aged, ProviderFlips, vars, TypeOK, Breaker
<1>6. CASE Reset
  <2>1. Len(recent') = 0 /\ breaker'.fails = 0
    BY <1>6 DEF Reset, FreshBreaker
  <2>2. QED
    BY <2>1, BreakerAssumption DEF CounterExact
<1>7. QED
  BY <1>2, <1>3, <1>4, <1>5, <1>6 DEF Next, CallerStep

\* The failure counter is exact in every interleaving.
THEOREM CounterIsExact == Spec => []CounterExact
<1>1. Init => CounterExact
  BY BreakerAssumption DEF Init, FreshBreaker, CounterExact
<1>2. QED
  BY <1>1, ExactStep, TypeCorrect, PTL DEF Spec

\* ... so FailMax transient failures in a row always trip the breaker,
THEOREM FailuresTrip == Spec => []ConsecutiveFailuresTrip
<1>1. TypeOK /\ CounterExact /\ ClosedBelowThreshold => ConsecutiveFailuresTrip
  BY BreakerAssumption
  DEF TypeOK, Breaker, CounterExact, ClosedBelowThreshold, ConsecutiveFailuresTrip,
      AllTransient
<1>2. QED
  BY <1>1, CounterIsExact, ThresholdHolds, TypeCorrect, PTL

\* ... and nothing less does.
THEOREM TripsOnFailuresOnly == Spec => TripsOnlyOnConsecutiveFailures
<1>1. TypeOK /\ CounterExact /\ CounterExact' /\ [Next]_vars =>
        [~IsOpen(breaker) /\ IsOpen(breaker') => AllTransient']_vars
  <2> SUFFICES ASSUME TypeOK, CounterExact', Next, ~IsOpen(breaker), IsOpen(breaker')
               PROVE  AllTransient'
    OBVIOUS
  <2>1. breaker' = AfterTransient(breaker)
    BY BreakerStep
    DEF IsOpen, AfterSuccess, AfterExcluded, Admitted, Aged, FreshBreaker, TypeOK, Breaker
  <2>2. breaker'.fails = FailMax
    BY <2>1 DEF AfterTransient, IsOpen, TypeOK, Breaker
  <2>3. QED
    BY <2>2, BreakerAssumption DEF CounterExact, AllTransient
<1>2. QED
  BY <1>1, CounterIsExact, TypeCorrect, PTL DEF Spec, TripsOnlyOnConsecutiveFailures

=============================================================================
