------------------------- MODULE BudgetGuardProofs -------------------------
(***************************************************************************)
(* How far a session can spend past its cap, for every number of calls,    *)
(* every cap, every set of estimates and every overshoot of one answer.    *)
(*                                                                         *)
(* OvershootBound is not inductive: it says nothing of the calls still in  *)
(* flight.  Reserve strengthens it: some call in flight, the last one      *)
(* check() let through, fitted the cap with its estimate, and each of the  *)
(* others adds at most the largest estimate and overshoot.                 *)
(***************************************************************************)
EXTENDS BudgetGuard, TLAPS, FiniteSetTheorems

Worst == MaxEst + Over

Bound == MaxUsd + Over + (Cardinality(Calls) - 1) * Worst

\* What is left of the bound covers every call in flight.
Reserve ==
    /\ spent <= Bound
    /\ InFlight # {} =>
         \E c \in InFlight :
            spent + pending[c] + Over + (Cardinality(InFlight) - 1) * Worst <= Bound

IInv == TypeOK /\ Reserve

-----------------------------------------------------------------------------
\* Cardinalities of the calls in flight, before and after one of them changes.
LEMMA CallsCardinality ==
    ASSUME GuardAssumption
    PROVE  /\ Cardinality(Calls) \in Nat
           /\ Cardinality(Calls) >= 1
  BY FS_CardinalityType, FS_EmptySet DEF GuardAssumption

LEMMA InFlightCardinality ==
    ASSUME GuardAssumption
    PROVE  /\ IsFiniteSet(InFlight)
           /\ Cardinality(InFlight) \in Nat
           /\ Cardinality(InFlight) <= Cardinality(Calls)
           /\ InFlight # {} => Cardinality(InFlight) >= 1
<1>1. InFlight \in SUBSET Calls
  BY DEF InFlight
<1>2. /\ IsFiniteSet(InFlight)
      /\ Cardinality(InFlight) <= Cardinality(Calls)
  BY <1>1, FS_Subset DEF GuardAssumption
<1>3. QED
  BY <1>2, FS_CardinalityType, FS_EmptySet

LEMMA WorstIsNat ==
    ASSUME GuardAssumption
    PROVE  Worst \in Nat
  BY DEF Worst, GuardAssumption

LEMMA BoundIsInt ==
    ASSUME GuardAssumption
    PROVE  Bound \in Int
  BY CallsCardinality, WorstIsNat DEF Bound, GuardAssumption

\* Every pending estimate is a number up to MaxEst.
LEMMA PendingRange ==
    ASSUME GuardAssumption, TypeOK
    PROVE  /\ DOMAIN pending = Calls
           /\ \A c \in Calls : pending[c] \in 0..MaxEst
<1>1. DOMAIN pending = Calls
  BY DEF TypeOK
<1>2. ASSUME NEW c \in Calls PROVE pending[c] \in 0..MaxEst
  <2>1. pending[c] \in Estimates \cup {0}
    BY DEF TypeOK
  <2>2. Estimates \cup {0} \subseteq 0..MaxEst
    BY DEF GuardAssumption
  <2>3. QED
    BY <2>1, <2>2
<1>3. QED
  BY <1>1, <1>2

\* (k - 1) * Worst grows with k.
LEMMA Monotone ==
    ASSUME NEW j \in Int, NEW k \in Int, NEW w \in Nat, j <= k
    PROVE  j * w <= k * w
<1>1. PICK d \in Nat : k = j + d
  BY SMT
<1>2. k * w = j * w + d * w
  BY <1>1, SMT
<1>3. d * w >= 0
  BY SMT
<1>4. QED
  BY <1>2, <1>3, SMT

\* The type invariant is inductive on its own.
LEMMA TypeStep ==
    ASSUME GuardAssumption
    PROVE  TypeOK /\ [Next]_guardVars => TypeOK'
<1> SUFFICES ASSUME TypeOK, [Next]_guardVars PROVE TypeOK'
  OBVIOUS
<1> USE DEF TypeOK
<1>1. ASSUME NEW c \in Calls, NEW e \in Estimates, Admit(c, e) PROVE TypeOK'
  BY <1>1 DEF Admit
<1>2. ASSUME NEW c \in Calls, NEW cost \in 0..(MaxEst + Over), Record(c, cost) PROVE TypeOK'
  BY <1>2 DEF Record, GuardAssumption
<1>3. ASSUME NEW c \in Calls, Drop(c) PROVE TypeOK'
  BY <1>3 DEF Drop
<1>4. CASE NewGuard
  BY <1>4 DEF NewGuard
<1>5. CASE UNCHANGED guardVars
  BY <1>5 DEF guardVars
<1>6. QED
  BY <1>1, <1>2, <1>3, <1>4, <1>5 DEF Next

\* A call that fitted the cap leaves room for the others, however many they are.
LEMMA AdmitStep ==
    ASSUME GuardAssumption, IInv, NEW c \in Calls, NEW e \in Estimates, Admit(c, e)
    PROVE  Reserve'
<1>1. /\ spent \in Nat
      /\ e \in 1..MaxEst
      /\ spent' = spent
      /\ spent + e <= MaxUsd
      /\ pending' = [pending EXCEPT ![c] = e]
      /\ pending \in [Calls -> Estimates \cup {0}]
  BY DEF IInv, TypeOK, Admit, Fits, GuardAssumption
<1>2. InFlight' = InFlight \cup {c}
  BY <1>1 DEF InFlight
<1>3. InFlight' \in SUBSET Calls /\ c \in InFlight' /\ pending'[c] = e
  BY <1>1 DEF InFlight
<1> DEFINE k == Cardinality(InFlight')
<1>4. k \in Nat /\ k <= Cardinality(Calls) /\ k >= 1
  <2>1. IsFiniteSet(InFlight') /\ k <= Cardinality(Calls)
    BY <1>3, FS_Subset DEF GuardAssumption
  <2>2. QED
    BY <1>3, <2>1, FS_CardinalityType, FS_EmptySet
<1>5. (k - 1) * Worst <= (Cardinality(Calls) - 1) * Worst
  BY <1>4, CallsCardinality, WorstIsNat, Monotone
<1>6. (k - 1) * Worst \in Int /\ (Cardinality(Calls) - 1) * Worst \in Int
  BY <1>4, CallsCardinality, WorstIsNat
<1> HIDE DEF k
<1>7. spent' + pending'[c] + Over + (k - 1) * Worst <= Bound
  BY <1>1, <1>3, <1>5, <1>6 DEF Bound, GuardAssumption
<1>8. spent' <= Bound
  BY <1>1 DEF IInv, Reserve, GuardAssumption
<1>9. QED
  BY <1>3, <1>7, <1>8 DEF Reserve, k

\* A call that leaves, adding at most its estimate and the overshoot, leaves
\* enough for whoever is still in flight.
LEMMA LeaveStep ==
    ASSUME GuardAssumption, IInv, NEW c \in InFlight, NEW cost \in 0..(pending[c] + Over),
           spent' = spent + cost, pending' = [pending EXCEPT ![c] = 0]
    PROVE  Reserve'
<1>1. /\ spent \in Nat
      /\ DOMAIN pending = Calls
      /\ \A d \in Calls : pending[d] \in 0..MaxEst
      /\ c \in Calls
      /\ \A d \in Calls : pending'[d] = IF d = c THEN 0 ELSE pending[d]
  <2>1. TypeOK
    BY DEF IInv
  <2>2. spent \in Nat /\ pending \in [Calls -> Estimates \cup {0}]
    BY <2>1 DEF TypeOK
  <2>3. c \in Calls
    BY DEF InFlight
  <2>4. QED
    BY <2>1, <2>2, <2>3, PendingRange
<1>2. InFlight' = InFlight \ {c}
  BY <1>1 DEF InFlight
<1> DEFINE k == Cardinality(InFlight)
<1>3. k \in Nat /\ k >= 1 /\ Cardinality(InFlight') = k - 1
  BY <1>2, InFlightCardinality, FS_RemoveElement
<1>4. PICK l \in InFlight : spent + pending[l] + Over + (k - 1) * Worst <= Bound
  BY DEF IInv, Reserve
<1>5. /\ pending[c] \in 0..MaxEst /\ pending[l] \in 0..MaxEst
      /\ l \in Calls
  BY <1>1 DEF InFlight
<1>6. Worst \in Nat /\ Worst = MaxEst + Over /\ Over \in Nat /\ MaxEst \in Nat /\ Bound \in Int
  BY WorstIsNat, BoundIsInt DEF Worst, GuardAssumption
<1>7. /\ (k - 1) * Worst = (k - 2) * Worst + Worst
      /\ (k - 1) * Worst \in Int
      /\ (k - 2) * Worst \in Int
  BY <1>3, <1>6
<1>8. (k - 1) * Worst >= 0
  <2>1. 0 * Worst <= (k - 1) * Worst
    BY <1>3, <1>6, Monotone
  <2>2. QED
    BY <2>1, <1>6
<1> HIDE DEF k
<1>9. spent' <= Bound
  <2>1. CASE c = l
    BY <2>1, <1>1, <1>4, <1>5, <1>6, <1>7, <1>8
  <2>2. CASE c # l
    <3>1. k >= 2
      <4>1. l \in InFlight'
        BY <2>2, <1>2, <1>4
      <4>2. IsFiniteSet(InFlight') /\ InFlight' # {}
        BY <4>1, <1>2, InFlightCardinality, FS_RemoveElement
      <4>3. Cardinality(InFlight') # 0
        BY <4>2, FS_EmptySet
      <4>4. QED
        BY <1>3, <4>3
    <3>2. (k - 2) * Worst >= 0
      <4>1. 0 * Worst <= (k - 2) * Worst
        BY <3>1, <1>3, <1>6, Monotone
      <4>2. QED
        BY <4>1, <1>6
    <3>3. QED
      BY <3>2, <1>1, <1>4, <1>5, <1>6, <1>7
  <2>3. QED
    BY <2>1, <2>2
<1>10. ASSUME InFlight' # {}
       PROVE  \E m \in InFlight' :
                spent' + pending'[m] + Over + (Cardinality(InFlight') - 1) * Worst <= Bound
  <2>1. CASE c = l
    <3>1. PICK m \in InFlight' : TRUE
      BY <1>10
    <3>2. m \in Calls /\ m # c /\ pending'[m] = pending[m] /\ pending[m] \in 0..MaxEst
      BY <3>1, <1>1, <1>2 DEF InFlight
    <3>3. spent' + pending'[m] + Over + (k - 2) * Worst <= Bound
      BY <2>1, <3>2, <1>1, <1>4, <1>5, <1>6, <1>7
    <3>4. QED
      BY <3>3, <1>3
  <2>2. CASE c # l
    <3>1. l \in InFlight' /\ pending'[l] = pending[l]
      BY <2>2, <1>1, <1>2, <1>4, <1>5
    <3>2. spent' + pending'[l] + Over + (k - 2) * Worst <= Bound
      BY <3>1, <1>1, <1>4, <1>5, <1>6, <1>7
    <3>3. QED
      BY <3>1, <3>2, <1>3
  <2>3. QED
    BY <2>1, <2>2
<1>11. QED
  BY <1>9, <1>10 DEF Reserve

-----------------------------------------------------------------------------
\* The spending of a session is bounded by its cap, one overshoot, and the worst
\* cost of every other call that check() can let through at the same time.
THEOREM SpendingBounded ==
    ASSUME GuardAssumption
    PROVE  Spec => []OvershootBound
<1>1. Init => IInv
  <2> SUFFICES ASSUME Init PROVE IInv
    OBVIOUS
  <2>1. TypeOK
    BY DEF Init, TypeOK
  <2>2. InFlight = {}
    BY DEF Init, InFlight
  <2>3. 0 * Worst <= (Cardinality(Calls) - 1) * Worst
    BY CallsCardinality, WorstIsNat, Monotone
  <2>4. spent <= Bound
    BY <2>3, CallsCardinality, WorstIsNat DEF Init, Bound, GuardAssumption
  <2>5. QED
    BY <2>1, <2>2, <2>4 DEF IInv, Reserve
<1>2. IInv /\ [Next]_guardVars => IInv'
  <2> SUFFICES ASSUME IInv, [Next]_guardVars PROVE IInv'
    OBVIOUS
  <2>1. TypeOK'
    BY TypeStep DEF IInv
  <2>2. ASSUME NEW c \in Calls, NEW e \in Estimates, Admit(c, e) PROVE Reserve'
    BY <2>2, AdmitStep
  <2>3. ASSUME NEW c \in Calls, NEW cost \in 0..(MaxEst + Over), Record(c, cost)
        PROVE  Reserve'
    BY <2>3, LeaveStep DEF Record, InFlight
  <2>4. ASSUME NEW c \in Calls, Drop(c) PROVE Reserve'
    <3>1. c \in InFlight /\ pending[c] \in 0..MaxEst /\ spent \in Nat
      BY <2>4, PendingRange DEF Drop, InFlight, IInv, TypeOK
    <3>2. 0 \in 0..(pending[c] + Over) /\ spent' = spent + 0
      BY <3>1, <2>4 DEF Drop, GuardAssumption
    <3>3. QED
      BY <3>1, <3>2, <2>4, LeaveStep DEF Drop
  <2>5. CASE NewGuard
    <3>1. InFlight' = {} /\ spent' = 0
      BY <2>5 DEF NewGuard, InFlight
    <3>2. 0 * Worst <= (Cardinality(Calls) - 1) * Worst
      BY CallsCardinality, WorstIsNat, Monotone
    <3>3. QED
      BY <2>1, <3>1, <3>2, CallsCardinality, WorstIsNat
      DEF IInv, Reserve, Bound, GuardAssumption
  <2>6. CASE UNCHANGED guardVars
    <3>1. spent' = spent /\ pending' = pending /\ InFlight' = InFlight
      BY <2>6 DEF guardVars, InFlight
    <3>2. Reserve'
      BY <3>1 DEF IInv, Reserve
    <3>3. QED
      BY <2>1, <3>2 DEF IInv
  <2>7. QED
    BY <2>1, <2>2, <2>3, <2>4, <2>5, <2>6 DEF Next, IInv
<1>3. IInv => OvershootBound
  BY DEF IInv, Reserve, OvershootBound, Bound, Worst
<1>4. QED
  BY <1>1, <1>2, <1>3, PTL DEF Spec

\* One call at a time, and estimates no answer exceeds: the cap is hard, as
\* budget.py says.  The code guarantees neither hypothesis.
THEOREM CeilingWhenSerial ==
    ASSUME GuardAssumption, Cardinality(Calls) = 1, Over = 0
    PROVE  Spec => []HardCeiling
<1>1. OvershootBound => HardCeiling
  BY DEF OvershootBound, HardCeiling, GuardAssumption
<1>2. QED
  BY <1>1, SpendingBounded, PTL

=============================================================================
