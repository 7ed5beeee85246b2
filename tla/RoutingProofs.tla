--------------------------- MODULE RoutingProofs ---------------------------
(***************************************************************************)
(* ProviderRouting for every set of sessions, calls and providers and      *)
(* every bound: its type invariant, that an OPEN breaker is never left,    *)
(* and that each session implements BudgetGuard.                           *)
(***************************************************************************)
EXTENDS RoutingRefinement, BreakerRulesProofs, FiniteSetTheorems

\* The try order has one position per available provider.
LEMMA OrderType ==
    ASSUME NEW pref
    PROVE  /\ Len(TryOrder(pref)) = Len(Available)
           /\ \A i \in 1..Len(TryOrder(pref)) : TryOrder(pref)[i] \in Providers
<1>1. Available \in Seq(Providers) /\ Len(Available) \in Nat
  BY RoutingAssumption
<1>2. \A i \in 1..Len(Available) : Available[i] \in Providers
  BY <1>1
<1>3. CASE pref \in Providers
  <2> DEFINE k == CHOOSE i \in 1..Len(Available) : Available[i] = pref
             order == [i \in 1..Len(Available) |->
                IF i = 1 THEN pref ELSE IF i <= k THEN Available[i - 1] ELSE Available[i]]
  <2>1. TryOrder(pref) = order
    BY <1>3 DEF TryOrder
  <2>2. k \in 1..Len(Available)
    BY <1>3 DEF Providers
  <2> HIDE DEF k
  <2>3. ASSUME NEW i \in 1..Len(Available) PROVE order[i] \in Providers
    <3>1. CASE i = 1
      BY <3>1, <1>3
    <3>2. CASE i # 1 /\ i <= k
      <4>1. i - 1 \in 1..Len(Available)
        BY <3>2, <1>1
      <4>2. QED
        BY <3>2, <4>1, <1>2
    <3>3. CASE i # 1 /\ ~(i <= k)
      BY <3>3, <1>2
    <3>4. QED
      BY <3>1, <3>2, <3>3
  <2>4. order \in Seq(Providers) /\ Len(order) = Len(Available)
    BY <2>3, <1>1
  <2>5. QED
    BY <2>1, <2>3, <2>4
<1>4. CASE pref \notin Providers
  BY <1>4, <1>2 DEF TryOrder
<1>5. QED
  BY <1>3, <1>4

\* A call in progress awaits an available provider.
LEMMA TargetType ==
    ASSUME TypeOK, NEW c \in Calls, Calling(c)
    PROVE  /\ Target(c) \in Providers
           /\ Est[Target(c)] \in 1..MaxEst
           /\ call[c].pos \in Nat
           /\ call[c].pos + 1 \in 1..(Len(Available) + 1)
<1>1. call[c].pos \in 1..Len(TryOrder(call[c].pref))
  BY DEF TypeOK
<1>2. Target(c) \in Providers
  BY <1>1, OrderType DEF Target
<1>3. Est[Target(c)] \in 1..MaxEst
  BY <1>2, RoutingAssumption
<1>4. call[c].pos \in 1..Len(Available) /\ Len(Available) \in Nat
  BY <1>1, OrderType, RoutingAssumption
<1>5. QED
  BY <1>2, <1>3, <1>4

\* What one walk of generate()'s loop makes of the call records.
LEMMA WalkType ==
    ASSUME TypeOK, NEW c \in Calls, NEW pref \in Preferred,
           NEW from \in 1..(Len(Available) + 1),
           NEW skipped \in SUBSET Providers, NEW failed \in SUBSET Providers,
           NEW brk, NEW hl,
           Walk(c, pref, from, skipped, failed, brk, hl)
    PROVE  /\ call' \in [Calls -> CallRec]
           /\ \A d \in Calls : Calling(d)' => call'[d].pos \in 1..Len(TryOrder(call'[d].pref))
<1> DEFINE order == TryOrder(pref)
<1>1. /\ Len(order) = Len(Available) /\ Len(Available) \in Nat
      /\ \A i \in 1..Len(order) : order[i] \in Providers
  BY OrderType, RoutingAssumption
<1> HIDE DEF order
<1>2. PICK i \in from..(Len(order) + 1) :
        call' = [call EXCEPT ![c] =
               [pc |-> IF i <= Len(order) THEN "calling" ELSE "done",
                pref |-> pref, pos |-> i, try |-> 1,
                skipped |-> skipped \cup {order[j] : j \in from..(i - 1)},
                failed |-> failed,
                result |-> IF i <= Len(order) THEN "none" ELSE "all_failed"]]
  BY DEF Walk, order
<1>3. i \in 1..(Len(Available) + 1)
  BY <1>1, <1>2
<1>4. {order[j] : j \in from..(i - 1)} \subseteq Providers
  BY <1>1, <1>2
<1>5. Attempts \in Nat \ {0} /\ 1 \in 1..Attempts
  BY RoutingAssumption
<1>6. call \in [Calls -> CallRec]
  BY DEF TypeOK
<1>7. call' \in [Calls -> CallRec]
  BY <1>2, <1>3, <1>4, <1>5, <1>6 DEF CallRec
<1>8. ASSUME NEW d \in Calls, Calling(d)'
      PROVE  call'[d].pos \in 1..Len(TryOrder(call'[d].pref))
  <2>1. CASE d = c
    <3>1. call'[d].pc = "calling" /\ call'[d].pos = i /\ call'[d].pref = pref
      BY <2>1, <1>2, <1>6, <1>8 DEF Calling
    <3>2. i <= Len(order)
      BY <2>1, <1>2, <1>6, <1>8 DEF Calling
    <3>3. QED
      BY <3>1, <3>2, <1>1, <1>3 DEF order
  <2>2. CASE d # c
    <3>1. call'[d] = call[d]
      BY <2>2, <1>2, <1>6
    <3>2. QED
      BY <3>1, <1>8 DEF TypeOK, Calling
  <2>3. QED
    BY <2>1, <2>2
<1>9. QED
  BY <1>7, <1>8

-----------------------------------------------------------------------------
\* Type correctness.
LEMMA TypeInit == Init => TypeOK
<1> SUFFICES ASSUME Init PROVE TypeOK
  OBVIOUS
<1>1. FreshBreaker \in Breaker
  BY BreakerAssumption DEF FreshBreaker, Breaker
<1>2. breaker \in [Providers -> Breaker]
  BY <1>1 DEF Init
<1>3. NoEntry \in 0..(TTL + 1)
  BY RoutingAssumption DEF NoEntry
<1>4. health \in [Sessions -> [Providers -> 0..(TTL + 1)]]
  BY <1>3 DEF Init
<1>5. PICK pref \in Preferred : call = [c \in Calls |-> IdleCall(pref)]
  BY DEF Init
<1>6. 1 \in 1..Attempts /\ 1 \in 1..(Len(Available) + 1)
  BY RoutingAssumption
<1>7. call \in [Calls -> CallRec]
  BY <1>5, <1>6 DEF IdleCall, CallRec
<1>8. \A c \in Calls : ~Calling(c)
  BY <1>5 DEF IdleCall, Calling
<1>9. QED
  BY <1>2, <1>4, <1>7, <1>8 DEF TypeOK, Init

\* Ending a call keeps the types, whatever the result.
LEMMA EndsType ==
    ASSUME TypeOK, NEW c \in Calls, NEW r \in {"answered", "cancelled"}, Ends(c, r)
    PROVE  /\ call' \in [Calls -> CallRec]
           /\ \A d \in Calls : Calling(d)' => call'[d].pos \in 1..Len(TryOrder(call'[d].pref))
<1>1. call \in [Calls -> CallRec]
  BY DEF TypeOK
<1>2. call' \in [Calls -> CallRec]
  <2> DEFINE ended == [call[c] EXCEPT !.pc = "done", !.result = r]
  <2>1. ended \in CallRec
    BY <1>1 DEF CallRec
  <2>2. call' = [call EXCEPT ![c] = ended]
    BY <1>1 DEF Ends, CallRec
  <2> HIDE DEF ended
  <2>3. QED
    BY <1>1, <2>1, <2>2
<1>3. \A d \in Calls : Calling(d)' => d # c /\ call'[d] = call[d]
  BY <1>1 DEF Ends, Calling, CallRec
<1>4. QED
  BY <1>2, <1>3 DEF TypeOK, Calling

LEMMA BreakerUpdateType ==
    ASSUME TypeOK, NEW p \in Providers, NEW b \in Breaker
    PROVE  [breaker EXCEPT ![p] = b] \in [Providers -> Breaker]
  BY DEF TypeOK

LEMMA TypeStep == TypeOK /\ [Next]_vars => TypeOK'
<1> SUFFICES ASSUME TypeOK, [Next]_vars PROVE TypeOK'
  OBVIOUS
<1> USE DEF Calling
<1>0. /\ breaker \in [Providers -> Breaker]
      /\ health \in [Sessions -> [Providers -> 0..(TTL + 1)]]
      /\ spent \in [Sessions -> Nat]
      /\ call \in [Calls -> CallRec]
      /\ NoEntry \in 0..(TTL + 1) /\ 0 \in 0..(TTL + 1) /\ TTL \in Nat
      /\ SessionOf \in [Calls -> Sessions]
  BY RoutingAssumption DEF TypeOK, NoEntry
<1>1. ASSUME NEW c \in Calls, NEW pref \in Preferred, Start(c, pref) PROVE TypeOK'
  <2>1. 1 \in 1..(Len(Available) + 1)
    BY RoutingAssumption
  <2>2. Walk(c, pref, 1, {}, {}, breaker, health)
    BY <1>1 DEF Start
  <2>3. /\ call' \in [Calls -> CallRec]
        /\ \A d \in Calls : Calling(d)' => call'[d].pos \in 1..Len(TryOrder(call'[d].pref))
    BY <2>1, <2>2, WalkType
  <2>4. QED
    BY <1>0, <1>1, <2>3 DEF Start, TypeOK
<1>2. ASSUME NEW c \in Calls, Retry(c) PROVE TypeOK'
  <2>1. call[c].try + 1 \in 1..Attempts
    BY <1>0, <1>2, RoutingAssumption DEF Retry, CallRec
  <2>2. call' \in [Calls -> CallRec]
    <3>1. call[c] \in CallRec
      BY <1>0
    <3>2. [call[c] EXCEPT !.try = call[c].try + 1] \in CallRec
      BY <2>1, <3>1 DEF CallRec
    <3>3. call' = [call EXCEPT ![c] = [call[c] EXCEPT !.try = call[c].try + 1]]
      BY <1>2 DEF Retry
    <3>4. QED
      BY <1>0, <3>2, <3>3
  <2>3. ASSUME NEW d \in Calls
        PROVE  /\ call'[d].pc = call[d].pc
               /\ call'[d].pos = call[d].pos
               /\ call'[d].pref = call[d].pref
    BY <1>0, <1>2 DEF Retry, CallRec
  <2>4. QED
    BY <1>0, <1>2, <2>2, <2>3 DEF Retry, TypeOK
<1>3. ASSUME NEW c \in Calls, Calling(c), NEW cost \in Costs(c), Answer(c, cost) PROVE TypeOK'
  <2>1. Target(c) \in Providers /\ cost \in Nat
    BY <1>3, TargetType, RoutingAssumption DEF Costs
  <2>2. breaker' \in [Providers -> Breaker]
    BY <1>0, <1>3, <2>1, RulesType DEF Answer
  <2>3. spent' \in [Sessions -> Nat]
    BY <1>0, <1>3, <2>1 DEF Answer
  <2>4. health' \in [Sessions -> [Providers -> 0..(TTL + 1)]]
    BY <1>0, <1>3, <2>1 DEF Answer
  <2>5. Ends(c, "answered")
    BY <1>3 DEF Answer
  <2>6. QED
    BY <2>2, <2>3, <2>4, <2>5, EndsType DEF TypeOK
<1>4. ASSUME NEW c \in Calls, Calling(c), NEW brk \in [Providers -> Breaker],
             NEW hl \in [Sessions -> [Providers -> 0..(TTL + 1)]],
             breaker' = brk, health' = hl, UNCHANGED spent,
             Walk(c, call[c].pref, call[c].pos + 1, call[c].skipped,
                  call[c].failed \cup {Target(c)}, brk, hl)
      PROVE  TypeOK'
  <2>1. /\ call[c].pref \in Preferred
        /\ call[c].skipped \in SUBSET Providers
        /\ call[c].failed \in SUBSET Providers
    BY <1>0 DEF CallRec
  <2>2. Target(c) \in Providers /\ call[c].pos + 1 \in 1..(Len(Available) + 1)
    BY <1>4, TargetType
  <2>3. /\ call' \in [Calls -> CallRec]
        /\ \A d \in Calls : Calling(d)' => call'[d].pos \in 1..Len(TryOrder(call'[d].pref))
    BY <2>1, <2>2, <1>4, WalkType
  <2>4. QED
    BY <1>0, <1>4, <2>3 DEF TypeOK
<1>5. ASSUME NEW c \in Calls, FailTransient(c) PROVE TypeOK'
  <2>1. Calling(c) /\ Target(c) \in Providers
    BY <1>5, TargetType DEF FailTransient
  <2>2. [breaker EXCEPT ![Target(c)] = AfterTransient(@)] \in [Providers -> Breaker]
    BY <1>0, <2>1, RulesType
  <2>3. [health EXCEPT ![SessionOf[c]][Target(c)] = 0] \in [Sessions -> [Providers -> 0..(TTL + 1)]]
    BY <1>0, <2>1
  <2>4. QED
    BY <1>4, <1>5, <2>1, <2>2, <2>3 DEF FailTransient, Fail
<1>6. ASSUME NEW c \in Calls, FailPermanent(c) PROVE TypeOK'
  <2>1. Calling(c) /\ Target(c) \in Providers
    BY <1>6, TargetType DEF FailPermanent
  <2>2. [breaker EXCEPT ![Target(c)] = AfterExcluded(@)] \in [Providers -> Breaker]
    BY <1>0, <2>1, RulesType
  <2>3. [health EXCEPT ![SessionOf[c]][Target(c)] = 0] \in [Sessions -> [Providers -> 0..(TTL + 1)]]
    BY <1>0, <2>1
  <2>4. QED
    BY <1>4, <1>6, <2>1, <2>2, <2>3 DEF FailPermanent, Fail
<1>7. ASSUME NEW c \in Calls, Cancel(c) PROVE TypeOK'
  <2>1. Target(c) \in Providers
    BY <1>7, TargetType DEF Cancel
  <2>2. breaker' \in [Providers -> Breaker]
    BY <1>0, <1>7, <2>1, RulesType DEF Cancel
  <2>3. Ends(c, "cancelled")
    BY <1>7 DEF Cancel
  <2>4. QED
    BY <1>0, <1>7, <2>2, <2>3, EndsType DEF Cancel, TypeOK
<1>8. ASSUME NEW s \in Sessions, NewSession(s) PROVE TypeOK'
  <2>1. health' \in [Sessions -> [Providers -> 0..(TTL + 1)]]
    BY <1>0, <1>8 DEF NewSession
  <2>2. spent' \in [Sessions -> Nat]
    BY <1>0, <1>8 DEF NewSession
  <2>3. ASSUME NEW c \in Calls
        PROVE  /\ call'[c] \in CallRec
               /\ call'[c].pc = "calling" => call'[c] = call[c]
    <3>1. IdleCall(call[c].pref) \in CallRec
      BY <1>0, RoutingAssumption DEF IdleCall, CallRec
    <3>2. CASE SessionOf[c] = s
      BY <1>8, <3>1, <3>2 DEF NewSession, IdleCall
    <3>3. CASE SessionOf[c] # s
      BY <1>0, <1>8, <3>3 DEF NewSession
    <3>4. QED
      BY <3>2, <3>3
  <2>4. call' \in [Calls -> CallRec]
    BY <1>8, <2>3 DEF NewSession
  <2>5. QED
    BY <1>0, <1>8, <2>1, <2>2, <2>3, <2>4 DEF NewSession, TypeOK
<1>9. CASE Tick
  <2>1. breaker' \in [Providers -> Breaker]
    BY <1>0, <1>9, RulesType DEF Tick
  <2>2. health' \in [Sessions -> [Providers -> 0..(TTL + 1)]]
    BY <1>0, <1>9 DEF Tick
  <2>3. QED
    BY <1>0, <1>9, <2>1, <2>2 DEF Tick, TypeOK
<1>10. CASE UNCHANGED vars
  BY <1>10 DEF vars, TypeOK
<1>11. QED
  BY <1>1, <1>2, <1>3, <1>5, <1>6, <1>7, <1>8, <1>9, <1>10 DEF Next, Resolve

THEOREM TypeCorrect == Spec => []TypeOK
  BY TypeInit, TypeStep, PTL DEF Spec

-----------------------------------------------------------------------------
\* Every available provider has one place in the try order, and only one.
LEMMA OrderOnce ==
    ASSUME NEW pref
    PROVE  /\ \A i, j \in 1..Len(Available) :
                TryOrder(pref)[i] = TryOrder(pref)[j] => i = j
           /\ {TryOrder(pref)[j] : j \in 1..Len(Available)} = Providers
<1> DEFINE n == Len(Available)
<1>1. /\ Available \in Seq(Providers) /\ n \in Nat
      /\ \A i, j \in 1..n : Available[i] = Available[j] => i = j
  BY RoutingAssumption
<1>2. CASE pref \notin Providers
  BY <1>1, <1>2 DEF TryOrder, Providers
<1>3. CASE pref \in Providers
  <2> DEFINE k == CHOOSE i \in 1..n : Available[i] = pref
             from(i) == IF i = 1 THEN k ELSE IF i <= k THEN i - 1 ELSE i
             at(j) == IF j = k THEN 1 ELSE IF j < k THEN j + 1 ELSE j
  <2>1. k \in 1..n /\ Available[k] = pref
    BY <1>3 DEF Providers
  <2>2. \A i \in 1..n : TryOrder(pref)[i] = Available[from(i)]
    BY <1>3, <2>1 DEF TryOrder
  <2> HIDE DEF k
  <2>3. /\ \A i \in 1..n : from(i) \in 1..n
        /\ \A i, j \in 1..n : from(i) = from(j) => i = j
        /\ \A j \in 1..n : at(j) \in 1..n /\ from(at(j)) = j
    BY <1>1, <2>1
  <2> HIDE DEF from, at
  <2>4. \A i, j \in 1..n : TryOrder(pref)[i] = TryOrder(pref)[j] => i = j
    BY <1>1, <2>2, <2>3
  <2>5. \A j \in 1..n : TryOrder(pref)[at(j)] = Available[j]
    BY <2>2, <2>3
  <2>6. {TryOrder(pref)[j] : j \in 1..n} = Providers
    <3>1. \A j \in 1..n : TryOrder(pref)[j] \in Providers
      BY <2>2, <2>3 DEF Providers
    <3>2. ASSUME NEW p \in Providers PROVE \E j \in 1..n : TryOrder(pref)[j] = p
      <4>1. PICK j \in 1..n : Available[j] = p
        BY DEF Providers
      <4>2. at(j) \in 1..n
        BY <2>3
      <4>3. QED
        BY <2>5, <4>1, <4>2
    <3>3. QED
      BY <3>1, <3>2
  <2>7. QED
    BY <2>4, <2>6
<1>4. QED
  BY <1>2, <1>3

\* Call c has accounted for the providers before position i of its order.
Accounted(order, i, skipped, failed) ==
    /\ skipped \cup failed = {order[j] : j \in 1..(i - 1)}
    /\ skipped \cap failed = {}

\* A walk accounts for the providers it passes, and for all of them when it gets to
\* the end.
LEMMA WalkAccounts ==
    ASSUME TypeOK, EveryProviderAccounted, NEW c \in Calls, NEW pref,
           NEW from \in 1..(Len(Available) + 1), NEW skipped, NEW failed, NEW brk, NEW hl,
           Accounted(TryOrder(pref), from, skipped, failed),
           Walk(c, pref, from, skipped, failed, brk, hl)
    PROVE  EveryProviderAccounted'
<1> DEFINE order == TryOrder(pref)
           n == Len(Available)
<1>1. /\ Len(order) = n /\ n \in Nat
      /\ \A i, j \in 1..n : order[i] = order[j] => i = j
      /\ {order[j] : j \in 1..n} = Providers
  BY OrderType, OrderOnce, RoutingAssumption
<1>2. PICK i \in from..(Len(order) + 1) :
        call' = [call EXCEPT ![c] =
               [pc |-> IF i <= Len(order) THEN "calling" ELSE "done",
                pref |-> pref, pos |-> i, try |-> 1,
                skipped |-> skipped \cup {order[j] : j \in from..(i - 1)},
                failed |-> failed,
                result |-> IF i <= Len(order) THEN "none" ELSE "all_failed"]]
  BY DEF Walk
<1> HIDE DEF order, n
<1>3. /\ call'[c].pref = pref /\ call'[c].pos = i
      /\ call'[c].skipped = skipped \cup {order[j] : j \in from..(i - 1)}
      /\ call'[c].failed = failed
      /\ call'[c].result = "all_failed" => i = n + 1
      /\ \A d \in Calls \ {c} : call'[d] = call[d]
  BY <1>1, <1>2 DEF TypeOK
<1>4. from \in 1..(n + 1) /\ i \in from..(n + 1)
  BY <1>1, <1>2 DEF n
<1>5. {order[j] : j \in 1..(i - 1)}
        = {order[j] : j \in 1..(from - 1)} \cup {order[j] : j \in from..(i - 1)}
  BY <1>1, <1>4
<1>6. {order[j] : j \in 1..(from - 1)} \cap {order[j] : j \in from..(i - 1)} = {}
  <2>1. ASSUME NEW a \in 1..(from - 1), NEW b \in from..(i - 1) PROVE order[a] # order[b]
    <3>1. a \in 1..n /\ b \in 1..n /\ a # b
      BY <1>1, <1>4
    <3>2. QED
      BY <1>1, <3>1
  <2>2. QED
    BY <2>1
<1>7. Accounted(order, i, call'[c].skipped, call'[c].failed)
  BY <1>3, <1>5, <1>6 DEF Accounted, order
<1>8. i = n + 1 => {order[j] : j \in 1..(i - 1)} = Providers
  BY <1>1
<1>9. ASSUME NEW d \in Calls, call'[d].pc # "idle"
      PROVE  LET o == TryOrder(call'[d].pref)
             IN  /\ Accounted(o, call'[d].pos, call'[d].skipped, call'[d].failed)
                 /\ call'[d].result = "all_failed" =>
                      call'[d].skipped \cup call'[d].failed = Providers
  <2>1. CASE d = c
    BY <1>3, <1>7, <1>8, <2>1 DEF Accounted, order
  <2>2. CASE d # c
    BY <1>3, <1>9, <2>2 DEF EveryProviderAccounted, Accounted
  <2>3. QED
    BY <2>1, <2>2
<1>10. QED
  BY <1>9 DEF EveryProviderAccounted, Accounted

\* A step that leaves what a call has accounted for alone, and does not make it say
\* that all failed.
LEMMA SameAccount ==
    ASSUME EveryProviderAccounted,
           \A d \in Calls :
             /\ call'[d].pc # "idle" => call[d].pc # "idle"
             /\ call'[d].pc # "idle" =>
                  /\ call'[d].pref = call[d].pref /\ call'[d].pos = call[d].pos
                  /\ call'[d].skipped = call[d].skipped /\ call'[d].failed = call[d].failed
                  /\ call'[d].result = "all_failed" => call[d].result = "all_failed"
    PROVE  EveryProviderAccounted'
  BY DEF EveryProviderAccounted

LEMMA AccountStep == TypeOK /\ EveryProviderAccounted /\ [Next]_vars => EveryProviderAccounted'
<1> SUFFICES ASSUME TypeOK, EveryProviderAccounted, [Next]_vars PROVE EveryProviderAccounted'
  OBVIOUS
<1>0. call \in [Calls -> CallRec] /\ Len(Available) \in Nat
  BY RoutingAssumption DEF TypeOK
<1>1. ASSUME NEW c \in Calls, NEW pref \in Preferred, Start(c, pref)
      PROVE  EveryProviderAccounted'
  <2>1. 1 \in 1..(Len(Available) + 1) /\ Accounted(TryOrder(pref), 1, {}, {})
    BY <1>0 DEF Accounted
  <2>2. QED
    BY <1>1, <2>1, WalkAccounts DEF Start
<1>2. ASSUME NEW c \in Calls, NEW told, Calling(c), Fail(c, told)
      PROVE  EveryProviderAccounted'
  <2> DEFINE order == TryOrder(call[c].pref)
             at == call[c].pos
  <2>1. /\ at \in 1..Len(Available) /\ call[c].pc # "idle" /\ Target(c) = order[at]
        /\ at + 1 \in 1..(Len(Available) + 1)
    BY <1>0, <1>2, OrderType DEF TypeOK, Calling, Target
  <2>2. Accounted(order, at, call[c].skipped, call[c].failed)
    BY <2>1 DEF EveryProviderAccounted, Accounted
  <2>3. \A j \in 1..(at - 1) : order[j] # order[at]
    <3>1. \A j \in 1..(at - 1) : j \in 1..Len(Available) /\ j # at
      BY <1>0, <2>1
    <3>2. QED
      BY <2>1, <3>1, OrderOnce
  <2>4. 1..(at + 1 - 1) = 1..(at - 1) \cup {at}
    BY <1>0, <2>1
  <2> HIDE DEF order, at
  <2>5. Accounted(order, at + 1, call[c].skipped, call[c].failed \cup {order[at]})
    BY <2>2, <2>3, <2>4 DEF Accounted
  <2>6. QED
    BY <1>2, <2>1, <2>5, WalkAccounts DEF Fail, order, at
<1>3. ASSUME NEW c \in Calls, NEW result \in {"answered", "cancelled"}, Calling(c), Ends(c, result)
      PROVE  EveryProviderAccounted'
  BY <1>0, <1>3, SameAccount DEF Ends, Calling, CallRec
<1>4. ASSUME NEW c \in Calls, Retry(c) PROVE EveryProviderAccounted'
  BY <1>0, <1>4, SameAccount DEF Retry, CallRec
<1>5. ASSUME NEW s \in Sessions, NewSession(s) PROVE EveryProviderAccounted'
  BY <1>0, <1>5, SameAccount DEF NewSession, IdleCall
<1>6. CASE Tick \/ UNCHANGED vars
  BY <1>6, SameAccount DEF Tick, vars
<1>7. ASSUME NEW c \in Calls, Calling(c), Resolve(c) PROVE EveryProviderAccounted'
  BY <1>2, <1>3, <1>4, <1>7 DEF Resolve, Answer, FailTransient, FailPermanent
<1>8. ASSUME NEW c \in Calls, Cancel(c) PROVE EveryProviderAccounted'
  BY <1>3, <1>8 DEF Cancel
<1>9. QED
  BY <1>1, <1>5, <1>6, <1>7, <1>8 DEF Next

\* generate() accounts for each available provider exactly once, in its order, and
\* answers "all failed" only when it has accounted for all of them, whatever the
\* order, the number of calls in flight and the outcomes.
THEOREM ProvidersAccounted == Spec => []EveryProviderAccounted
<1>1. Init => EveryProviderAccounted
  BY DEF Init, IdleCall, EveryProviderAccounted
<1>2. QED
  BY <1>1, AccountStep, TypeCorrect, PTL DEF Spec

-----------------------------------------------------------------------------
\* The breaker a step leaves to provider p is the old one, an aged one, or what
\* one ended call made of it.
LEMMA BreakerStep ==
    ASSUME TypeOK, Next, NEW p \in Providers
    PROVE  \/ breaker'[p] = breaker[p]
           \/ breaker'[p] = AfterSuccess(breaker[p])
           \/ breaker'[p] = AfterTransient(breaker[p])
           \/ breaker'[p] = AfterExcluded(breaker[p])
           \/ breaker'[p] = Aged(breaker[p])
<1>0. breaker \in [Providers -> Breaker]
  BY DEF TypeOK
<1>1. ASSUME NEW c \in Calls, NEW pref \in Preferred, Start(c, pref)
      PROVE  breaker'[p] = breaker[p]
  BY <1>1 DEF Start
<1>2. ASSUME NEW c \in Calls, Retry(c) PROVE breaker'[p] = breaker[p]
  BY <1>2 DEF Retry
<1>3. ASSUME NEW c \in Calls, NEW cost \in Costs(c), Answer(c, cost)
      PROVE  breaker'[p] = breaker[p] \/ breaker'[p] = AfterSuccess(breaker[p])
  BY <1>0, <1>3 DEF Answer
<1>4. ASSUME NEW c \in Calls, FailTransient(c)
      PROVE  breaker'[p] = breaker[p] \/ breaker'[p] = AfterTransient(breaker[p])
  BY <1>0, <1>4 DEF FailTransient, Fail
<1>5. ASSUME NEW c \in Calls, FailPermanent(c)
      PROVE  breaker'[p] = breaker[p] \/ breaker'[p] = AfterExcluded(breaker[p])
  BY <1>0, <1>5 DEF FailPermanent, Fail
<1>6. ASSUME NEW c \in Calls, Cancel(c)
      PROVE  breaker'[p] = breaker[p] \/ breaker'[p] = AfterExcluded(breaker[p])
  BY <1>0, <1>6 DEF Cancel
<1>7. ASSUME NEW s \in Sessions, NewSession(s) PROVE breaker'[p] = breaker[p]
  BY <1>7 DEF NewSession
<1>8. CASE Tick
  BY <1>8 DEF Tick
<1>9. QED
  BY <1>1, <1>2, <1>3, <1>4, <1>5, <1>6, <1>7, <1>8 DEF Next, Resolve

\* Once a provider's breaker is OPEN no sequence of generate() calls, answers,
\* failures, cancellations or waits makes it anything else.
THEOREM OpenForever == Spec => OpenIsNeverLeft
<1>1. TypeOK /\ [Next]_vars =>
        [\A p \in Providers : IsOpen(breaker[p]) => IsOpen(breaker'[p])]_vars
  <2> SUFFICES ASSUME TypeOK, Next, NEW p \in Providers, IsOpen(breaker[p])
               PROVE  IsOpen(breaker'[p])
    OBVIOUS
  <2>1. breaker[p] \in Breaker
    BY DEF TypeOK
  <2>2. QED
    BY <2>1, BreakerStep, RulesKeepOpen
<1>2. QED
  BY <1>1, TypeCorrect, PTL DEF Spec, OpenIsNeverLeft

-----------------------------------------------------------------------------
\* The refinement of BudgetGuard.  Pending is a function on the watched calls.
LEMMA PendingAt ==
    ASSUME NEW c \in WatchedCalls
    PROVE  /\ c \in Calls /\ SessionOf[c] = Watched
           /\ Pending[c] = IF Calling(c) THEN Est[Target(c)] ELSE 0
           /\ Pending'[c] = IF Calling(c)' THEN Est[Target(c)'] ELSE 0
  BY DEF Pending, WatchedCalls

LEMMA PendingSame ==
    ASSUME \A c \in WatchedCalls : Pending'[c] = Pending[c]
    PROVE  Pending' = Pending
<1>1. Pending' = [c \in WatchedCalls |-> Pending'[c]]
  BY DEF Pending
<1>2. Pending = [c \in WatchedCalls |-> Pending[c]]
  BY DEF Pending
<1>3. QED
  BY <1>1, <1>2

\* Where one watched call changes, Pending changes at that call only.
LEMMA PendingUpdate ==
    ASSUME NEW c \in WatchedCalls,
           \A d \in WatchedCalls : d # c => Pending'[d] = Pending[d]
    PROVE  Pending' = [Pending EXCEPT ![c] = Pending'[c]]
<1>1. Pending' = [d \in WatchedCalls |-> Pending'[d]]
  BY DEF Pending
<1>2. Pending = [d \in WatchedCalls |-> Pending[d]]
  BY DEF Pending
<1>3. QED
  BY <1>1, <1>2

\* A step that leaves a call's record alone leaves its entry of Pending alone.
LEMMA PendingFrame ==
    ASSUME NEW d \in WatchedCalls, call'[d] = call[d]
    PROVE  Pending'[d] = Pending[d]
<1>1. Calling(d)' = Calling(d) /\ Target(d)' = Target(d)
  BY DEF Calling, Target
<1>2. QED
  BY <1>1, PendingAt

\* A watched call that has nothing pending after a step that recorded nothing
\* dropped what it had, if anything.
LEMMA DropRefines ==
    ASSUME NEW c \in WatchedCalls, Pending'[c] = 0, UNCHANGED spent,
           \A d \in WatchedCalls : d # c => Pending'[d] = Pending[d]
    PROVE  [Guard!Next]_(Guard!guardVars)
<1>1. CASE Pending[c] = 0
  <2>1. Pending' = Pending
    BY <1>1, PendingSame
  <2>2. QED
    BY <2>1 DEF Guard!guardVars
<1>2. CASE Pending[c] # 0
  <2>1. Pending' = [Pending EXCEPT ![c] = 0]
    BY PendingUpdate
  <2>2. Guard!Drop(c)
    BY <1>2, <2>1 DEF Guard!Drop
  <2>3. QED
    BY <2>2 DEF Guard!Next
<1>3. QED
  BY <1>1, <1>2

\* A walk admits its call to a provider the guard has room for, or drops it.
LEMMA WalkRefines ==
    ASSUME TypeOK, NEW c \in Calls, NEW pref, NEW from \in Nat \ {0},
           NEW skipped, NEW failed, NEW brk, NEW hl,
           Walk(c, pref, from, skipped, failed, brk, hl), UNCHANGED spent
    PROVE  [Guard!Next]_(Guard!guardVars)
<1> DEFINE order == TryOrder(pref)
<1>1. /\ Len(order) = Len(Available) /\ Len(Available) \in Nat
      /\ \A i \in 1..Len(order) : order[i] \in Providers
  BY OrderType, RoutingAssumption
<1> HIDE DEF order
<1>2. PICK i \in from..(Len(order) + 1) :
        /\ FirstOpenTo(SessionOf[c], order, from, i, brk, hl)
        /\ call' = [call EXCEPT ![c] =
               [pc |-> IF i <= Len(order) THEN "calling" ELSE "done",
                pref |-> pref, pos |-> i, try |-> 1,
                skipped |-> skipped \cup {order[j] : j \in from..(i - 1)},
                failed |-> failed,
                result |-> IF i <= Len(order) THEN "none" ELSE "all_failed"]]
  BY DEF Walk, order
<1>3. /\ call'[c].pc = IF i <= Len(order) THEN "calling" ELSE "done"
      /\ call'[c].pref = pref
      /\ call'[c].pos = i
  BY <1>2 DEF TypeOK
<1>4. \A d \in WatchedCalls : d # c => Pending'[d] = Pending[d]
  <2>1. \A d \in WatchedCalls : d # c => call'[d] = call[d]
    BY <1>2 DEF TypeOK, WatchedCalls
  <2>2. QED
    BY <2>1, PendingFrame
<1>5. CASE c \notin WatchedCalls
  <2>1. Pending' = Pending
    BY <1>4, <1>5, PendingSame
  <2>2. QED
    BY <2>1 DEF Guard!guardVars
<1>6. CASE c \in WatchedCalls /\ i <= Len(order)
  <2>1. Calling(c)' /\ Target(c)' = order[i]
    BY <1>3, <1>6 DEF Calling, Target, order
  <2>2. order[i] \in Providers /\ spent[Watched] + Est[order[i]] <= MaxUsd
    <3>1. ~Refused(SessionOf[c], order[i], brk, hl) /\ order[i] \in Providers
      BY <1>1, <1>2, <1>6 DEF FirstOpenTo
    <3>2. SessionOf[c] = Watched
      BY <1>6, PendingAt
    <3>3. spent[Watched] \in Nat /\ Est[order[i]] \in Nat /\ MaxUsd \in Nat
      BY <3>1, RoutingAssumption, WatchedAssumption DEF TypeOK
    <3>4. QED
      BY <3>1, <3>2, <3>3 DEF Refused
  <2>3. Pending'[c] = Est[order[i]]
    BY <2>1, <1>6, PendingAt
  <2>4. Pending' = [Pending EXCEPT ![c] = Est[order[i]]]
    BY <2>3, <1>4, <1>6, PendingUpdate
  <2>5. Guard!Admit(c, Est[order[i]])
    BY <2>2, <2>4 DEF Guard!Admit, Guard!Fits
  <2>6. QED
    BY <2>2, <2>5, <1>6 DEF Guard!Next
<1>7. CASE c \in WatchedCalls /\ ~(i <= Len(order))
  <2>1. ~Calling(c)'
    BY <1>3, <1>7 DEF Calling
  <2>2. Pending'[c] = 0
    BY <2>1, <1>7, PendingAt
  <2>3. QED
    BY <2>2, <1>4, <1>7, DropRefines
<1>8. QED
  BY <1>5, <1>6, <1>7

\* Every provider call of the watched session that ends with a response is one
\* record() of the guard.
LEMMA AnswerRefines ==
    ASSUME TypeOK, NEW c \in Calls, Calling(c), NEW cost \in Costs(c), Answer(c, cost)
    PROVE  [Guard!Next]_(Guard!guardVars)
<1>1. /\ Est[Target(c)] \in 1..MaxEst /\ MaxEst \in Nat /\ Over \in Nat
  BY TargetType, RoutingAssumption
<1>2. \A d \in WatchedCalls : d # c => Pending'[d] = Pending[d]
  <2>1. \A d \in WatchedCalls : d # c => call'[d] = call[d]
    BY DEF TypeOK, WatchedCalls, Answer, Ends
  <2>2. QED
    BY <2>1, PendingFrame
<1>3. CASE c \in WatchedCalls
  <2>1. ~Calling(c)'
    BY DEF Answer, Ends, Calling, TypeOK, CallRec
  <2>2. Pending'[c] = 0 /\ Pending[c] = Est[Target(c)]
    BY <2>1, <1>3, PendingAt
  <2>3. Pending' = [Pending EXCEPT ![c] = 0]
    BY <2>2, <1>2, <1>3, PendingUpdate
  <2>4. spent'[Watched] = spent[Watched] + cost
    BY <1>3, PendingAt, WatchedAssumption DEF Answer, TypeOK
  <2>5. cost \in 0..(Pending[c] + Over) /\ Pending[c] # 0 /\ cost \in 0..(MaxEst + Over)
    BY <2>2, <1>1 DEF Costs
  <2>6. Guard!Record(c, cost)
    BY <2>3, <2>4, <2>5 DEF Guard!Record
  <2>7. QED
    BY <2>5, <2>6, <1>3 DEF Guard!Next
<1>4. CASE c \notin WatchedCalls
  <2>1. Pending' = Pending
    BY <1>2, <1>4, PendingSame
  <2>2. spent'[Watched] = spent[Watched]
    BY <1>4, WatchedAssumption DEF Answer, TypeOK, WatchedCalls
  <2>3. QED
    BY <2>1, <2>2 DEF Guard!guardVars
<1>5. QED
  BY <1>3, <1>4

LEMMA CancelRefines ==
    ASSUME TypeOK, NEW c \in Calls, Cancel(c)
    PROVE  [Guard!Next]_(Guard!guardVars)
<1>1. \A d \in WatchedCalls : d # c => Pending'[d] = Pending[d]
  <2>1. \A d \in WatchedCalls : d # c => call'[d] = call[d]
    BY DEF TypeOK, WatchedCalls, Cancel, Ends
  <2>2. QED
    BY <2>1, PendingFrame
<1>2. UNCHANGED spent
  BY DEF Cancel
<1>3. CASE c \in WatchedCalls
  <2>1. ~Calling(c)'
    BY DEF Cancel, Ends, Calling, TypeOK, CallRec
  <2>2. Pending'[c] = 0
    BY <2>1, <1>3, PendingAt
  <2>3. QED
    BY <2>2, <1>1, <1>2, <1>3, DropRefines
<1>4. CASE c \notin WatchedCalls
  BY <1>1, <1>2, <1>4, PendingSame DEF Guard!guardVars
<1>5. QED
  BY <1>3, <1>4

LEMMA NewSessionRefines ==
    ASSUME TypeOK, NEW s \in Sessions, NewSession(s)
    PROVE  [Guard!Next]_(Guard!guardVars)
<1>1. \A d \in WatchedCalls : SessionOf[d] # s => Pending'[d] = Pending[d]
  <2>1. \A d \in WatchedCalls : SessionOf[d] # s => call'[d] = call[d]
    BY DEF NewSession, WatchedCalls
  <2>2. QED
    BY <2>1, PendingFrame
<1>2. \A d \in WatchedCalls : SessionOf[d] = s => Pending'[d] = 0 /\ Pending[d] = 0
  <2>1. \A d \in WatchedCalls : SessionOf[d] = s => ~Calling(d) /\ ~Calling(d)'
    BY DEF NewSession, WatchedCalls, Calling, IdleCall
  <2>2. QED
    BY <2>1, PendingAt
<1>3. Pending' = Pending
  BY <1>1, <1>2, PendingSame
<1>4. CASE s = Watched
  <2>1. spent'[Watched] = 0
    BY <1>4, WatchedAssumption DEF NewSession, TypeOK
  <2>2. Guard!InFlight = {}
    BY <1>2, <1>4, PendingAt DEF Guard!InFlight
  <2>3. Guard!NewGuard
    BY <1>3, <2>1, <2>2 DEF Guard!NewGuard
  <2>4. QED
    BY <2>3 DEF Guard!Next
<1>5. CASE s # Watched
  <2>1. spent'[Watched] = spent[Watched]
    BY <1>5, WatchedAssumption DEF NewSession, TypeOK
  <2>2. QED
    BY <1>3, <2>1 DEF Guard!guardVars
<1>6. QED
  BY <1>4, <1>5

\* Every step of the routing is a step of the watched guard or leaves it alone.
LEMMA StepRefines == TypeOK /\ [Next]_vars => [Guard!Next]_(Guard!guardVars)
<1> SUFFICES ASSUME TypeOK, [Next]_vars PROVE [Guard!Next]_(Guard!guardVars)
  OBVIOUS
<1>1. ASSUME NEW c \in Calls, NEW pref \in Preferred, Start(c, pref)
      PROVE  [Guard!Next]_(Guard!guardVars)
  <2>1. 1 \in Nat \ {0} /\ UNCHANGED spent /\ Walk(c, pref, 1, {}, {}, breaker, health)
    BY <1>1 DEF Start
  <2>2. QED
    BY <2>1, WalkRefines
<1>2. ASSUME NEW c \in Calls, Retry(c) PROVE [Guard!Next]_(Guard!guardVars)
  <2>1. ASSUME NEW d \in WatchedCalls PROVE Pending'[d] = Pending[d]
    <3>1. /\ call'[d].pc = call[d].pc
          /\ call'[d].pref = call[d].pref
          /\ call'[d].pos = call[d].pos
      BY <1>2 DEF Retry, TypeOK, CallRec, WatchedCalls
    <3>2. Calling(d)' = Calling(d) /\ Target(d)' = Target(d)
      BY <3>1 DEF Calling, Target
    <3>3. QED
      BY <3>2, PendingAt
  <2>2. QED
    BY <2>1, <1>2, PendingSame DEF Retry, Guard!guardVars
<1>3. ASSUME NEW c \in Calls, Calling(c), NEW brk, NEW hl, UNCHANGED spent,
             Walk(c, call[c].pref, call[c].pos + 1, call[c].skipped,
                  call[c].failed \cup {Target(c)}, brk, hl)
      PROVE  [Guard!Next]_(Guard!guardVars)
  <2>1. call[c].pos + 1 \in Nat \ {0}
    BY <1>3, TargetType
  <2>2. QED
    BY <2>1, <1>3, WalkRefines
<1>4. ASSUME NEW c \in Calls, FailTransient(c) PROVE [Guard!Next]_(Guard!guardVars)
  BY <1>3, <1>4 DEF FailTransient, Fail
<1>5. ASSUME NEW c \in Calls, FailPermanent(c) PROVE [Guard!Next]_(Guard!guardVars)
  BY <1>3, <1>5 DEF FailPermanent, Fail
<1>6. CASE Tick \/ UNCHANGED vars
  <2>1. UNCHANGED <<call, spent>>
    BY <1>6 DEF Tick, vars
  <2>2. Pending' = Pending
    BY <2>1, PendingFrame, PendingSame
  <2>3. QED
    BY <2>1, <2>2 DEF Guard!guardVars
<1>7. QED
  BY <1>1, <1>2, <1>4, <1>5, <1>6, AnswerRefines, CancelRefines, NewSessionRefines
  DEF Next, Resolve

\* In every execution of the routing the watched session's part of the state is
\* an execution of BudgetGuard: no provider, first or fallback, is asked without
\* room for its estimate at that moment, and no answer is recorded twice or never.
THEOREM RoutingImplementsGuard == Spec => GuardImplemented
<1>1. Init => Guard!Init
  <2> SUFFICES ASSUME Init PROVE Guard!Init
    OBVIOUS
  <2>1. \A c \in Calls : ~Calling(c)
    BY DEF Init, IdleCall, Calling
  <2>2. Pending = [c \in WatchedCalls |-> 0]
    BY <2>1 DEF Pending, WatchedCalls
  <2>3. spent[Watched] = 0
    BY WatchedAssumption DEF Init
  <2>4. QED
    BY <2>2, <2>3 DEF Guard!Init
<1>2. QED
  BY <1>1, StepRefines, TypeCorrect, PTL DEF Spec, GuardImplemented, Guard!Spec

-----------------------------------------------------------------------------
\* What is proved of the guard holds of the watched session.
Proved == INSTANCE BudgetGuardProofs WITH
    Calls <- WatchedCalls, Estimates <- {Est[p] : p \in Providers},
    spent <- spent[Watched], pending <- Pending

LEMMA GuardAssumptionHolds == Proved!GuardAssumption
<1>1. {Est[p] : p \in Providers} \subseteq 1..MaxEst
  BY RoutingAssumption
<1>2. IsFiniteSet(WatchedCalls)
  BY WatchedAssumption, FS_Subset DEF WatchedCalls
<1>3. Proved!IsFiniteSet(WatchedCalls)
  BY <1>2 DEF IsFiniteSet, Proved!IsFiniteSet
<1>4. WatchedCalls # {}
  BY WatchedAssumption DEF WatchedCalls
<1>5. QED
  BY <1>1, <1>3, <1>4, RoutingAssumption DEF Proved!GuardAssumption

\* A session spends at most the cap, one mis-estimate, and one answer for each of
\* its other calls, for every list of providers and every interleaving.
THEOREM RoutingSpendBounded == Spec => []SpendBounded
<1>1. Guard!Init => Proved!Init
  BY DEF Guard!Init, Proved!Init
<1>2. [Guard!Next]_(Guard!guardVars) => [Proved!Next]_(Proved!guardVars)
  BY DEF Guard!Next, Proved!Next, Guard!guardVars, Proved!guardVars,
         Guard!Admit, Proved!Admit, Guard!Fits, Proved!Fits, Guard!Record, Proved!Record,
         Guard!Drop, Proved!Drop, Guard!NewGuard, Proved!NewGuard,
         Guard!InFlight, Proved!InFlight
<1>3. Proved!OvershootBound => SpendBounded
  BY DEF Proved!OvershootBound, SpendBounded, Guard!OvershootBound,
         Proved!Cardinality, Guard!Cardinality
<1>4. Proved!Spec => []Proved!OvershootBound
  BY GuardAssumptionHolds, Proved!SpendingBounded
<1>5. QED
  BY <1>1, <1>2, <1>3, <1>4, RoutingImplementsGuard, PTL
  DEF Guard!Spec, Proved!Spec, GuardImplemented

=============================================================================
