--------------------------- MODULE CodeAuditProofs ---------------------------
(***************************************************************************)
(* The trust gate of CodeAudit holds for every document, every tree and      *)
(* every answer of the checker.                                              *)
(***************************************************************************)
EXTENDS CodeAudit, FiniteSetTheorems, TLAPS

\* Before the checker is asked, no verdict exists; from then on each claim has
\* its matches and its evidence, and later its verdict.
Staged ==
    /\ pc \in {"new", "planning", "retrieving", "checking", "critiquing", "reported"}
    /\ \E n \in 0..MaxClaims : ids \in [1..n -> (PlannerIds \cup 1..MaxClaims) \ {0}]
    /\ pc \in {"new", "planning"} => ids = <<>>
    /\ pc \in {"new", "planning", "retrieving"} => hits = <<>> /\ evidence = <<>>
    /\ pc \in {"new", "planning", "retrieving", "checking"} => verdicts = <<>>
    /\ pc \in {"checking", "critiquing"} => DOMAIN hits = DOMAIN ids
    /\ pc = "critiquing" => DOMAIN verdicts = DOMAIN ids
    /\ DOMAIN verdicts \in {{}, DOMAIN ids}
    /\ DOMAIN hits \in {{}, DOMAIN ids}
    /\ DOMAIN evidence = DOMAIN hits

\* The grep's matches are files, and its evidence leaves an excluded README out.
Filtered ==
    \A i \in DOMAIN hits : hits[i] \in Matches /\ evidence[i] \subseteq Outside(hits[i])

\* The part of the type invariant the arguments below need.
AuditInv == Staged /\ Filtered

-----------------------------------------------------------------------------
\* The empty tuple has no places.
LEMMA NoPlaces == DOMAIN <<>> = {}
OBVIOUS

\* Evidence is made of matches outside an excluded README.
LEMMA RetrievedOutside == \A s : Retrieved(s) \subseteq Outside(s)
BY DEF Retrieved

\* _normalise_claim_list gives every claim an id.
LEMMA NamesAll ==
    ASSUME NEW n \in 0..MaxClaims, NEW given \in [1..n -> PlannerIds]
    PROVE  Named(given) \in [1..n -> (PlannerIds \cup 1..MaxClaims) \ {0}]
BY AuditAssumption DEF Named

\* The gate lets a verdict other than "unsupported" pass only with citations, all
\* of them of retrieved files.
LEMMA GateCites ==
    ASSUME NEW id, NEW answer
    PROVE  /\ Gated(id, answer).paths \subseteq Pool(id)
           /\ Pool(id) = {} => Gated(id, answer) = Unsupported
           /\ Gated(id, answer).verdict # "unsupported" => Gated(id, answer).paths # {}
<1> DEFINE pool == Pool(id)
<1>1. Unsupported.paths = {} /\ Unsupported.verdict = "unsupported"
  BY DEF Unsupported
<1>2. CASE pool = {}
  BY <1>1, <1>2 DEF Gated
<1>3. CASE pool # {}
  <2> DEFINE passed == [verdict |-> Legal(answer.verdict), paths |-> Cited(answer.paths, pool)]
  <2>1. Gated(id, answer) = passed
    BY <1>3 DEF Gated
  <2>2. passed.paths = Cited(answer.paths, pool)
    OBVIOUS
  <2>3. Cited(answer.paths, pool) \subseteq pool /\ Cited(answer.paths, pool) # {}
    BY <1>3 DEF Cited
  <2> QED
    BY <1>3, <2>1, <2>2, <2>3
<1> QED
  BY <1>2, <1>3

\* Where ids are distinct, the evidence heeded for a claim's id is the claim's own.
LEMMA OwnPool ==
    ASSUME NEW n \in Nat, DOMAIN ids = 1..n, DistinctIds, NEW i \in DOMAIN ids
    PROVE  Pool(ids[i]) = {hits[i][j] : j \in evidence[i]}
<1>1. Heeded(ids[i]) = {i}
  BY DEF Heeded, DistinctIds
<1> QED
  BY <1>1 DEF Pool

-----------------------------------------------------------------------------
\* AuditInv is inductive.
THEOREM Layout == Spec => []AuditInv
<1>1. Init => AuditInv
  <2> SUFFICES ASSUME Init PROVE AuditInv
    OBVIOUS
  <2>1. <<>> \in [1..0 -> (PlannerIds \cup 1..MaxClaims) \ {0}] /\ 0 \in 0..MaxClaims
    BY AuditAssumption
  <2>2. Staged
    BY <2>1, NoPlaces DEF Init, Staged
  <2>3. Filtered
    BY NoPlaces DEF Init, Filtered
  <2> QED
    BY <2>2, <2>3 DEF AuditInv
<1>2. AuditInv /\ [Next]_vars => AuditInv'
  <2> SUFFICES ASSUME AuditInv, [Next]_vars PROVE AuditInv'
    OBVIOUS
  <2> USE DEF AuditInv
  <2>1. CASE Begin
    <3>1. Staged'
      BY <2>1, NoPlaces DEF Begin, Staged
    <3>2. Filtered'
      BY <2>1, NoPlaces DEF Begin, Staged, Filtered
    <3> QED
      BY <3>1, <3>2
  <2>2. CASE NothingToAudit
    <3>1. Staged'
      BY <2>2, NoPlaces DEF NothingToAudit, Staged
    <3>2. Filtered'
      BY <2>2, NoPlaces DEF NothingToAudit, Staged, Filtered
    <3> QED
      BY <3>1, <3>2
  <2>3. CASE Plan
    <3>1. PICK n \in 0..MaxClaims : \E given \in [1..n -> PlannerIds] : ids' = Named(given)
      BY <2>3 DEF Plan
    <3>2. ids' \in [1..n -> (PlannerIds \cup 1..MaxClaims) \ {0}]
      BY <3>1, NamesAll
    <3>3. hits' = <<>> /\ evidence' = <<>> /\ verdicts' = <<>> /\ pc' = "retrieving"
      BY <2>3 DEF Plan, Staged
    <3>4. Staged'
      BY <3>2, <3>3, NoPlaces DEF Staged
    <3>5. Filtered'
      BY <3>3, NoPlaces DEF Filtered
    <3> QED
      BY <3>4, <3>5
  <2>4. CASE PlannerFails
    <3>1. Staged'
      BY <2>4, NoPlaces DEF PlannerFails, Staged
    <3>2. Filtered'
      BY <2>4, NoPlaces DEF PlannerFails, Staged, Filtered
    <3> QED
      BY <3>1, <3>2
  <2>5. CASE Retrieve
    <3>1. /\ hits' \in [DOMAIN ids -> Matches]
          /\ evidence' = [i \in DOMAIN ids |-> Retrieved(hits'[i])]
          /\ pc' = "checking"
          /\ excluded' = excluded /\ ids' = ids /\ verdicts' = verdicts
          /\ pc = "retrieving"
      BY <2>5 DEF Retrieve
    <3>2. Staged'
      BY <3>1, NoPlaces DEF Staged
    <3>3. \A i \in DOMAIN ids : (hits[i] \in Matches /\ evidence[i] \subseteq Outside(hits[i]))'
      <4> TAKE i \in DOMAIN ids
      <4>1. hits'[i] \in Matches /\ evidence'[i] = Retrieved(hits'[i])
        BY <3>1
      <4>2. Retrieved(hits'[i]) \subseteq Outside(hits'[i])
        BY RetrievedOutside
      <4> QED
        BY <3>1, <4>1, <4>2 DEF Outside, Matches
    <3>4. Filtered'
      BY <3>1, <3>3 DEF Filtered
    <3> QED
      BY <3>2, <3>4
  <2>6. CASE Check
    <3>1. /\ DOMAIN verdicts' = DOMAIN ids
          /\ pc' = "critiquing" /\ pc = "checking"
          /\ UNCHANGED <<excluded, ids, hits, evidence>>
      BY <2>6 DEF Check
    <3>2. Staged'
      BY <3>1 DEF Staged
    <3>3. Filtered'
      BY <3>1 DEF Filtered, Matches, Outside
    <3> QED
      BY <3>2, <3>3
  <2>7. CASE CheckerFails
    <3>1. /\ DOMAIN verdicts' = DOMAIN ids
          /\ pc' = "critiquing" /\ pc = "checking"
          /\ UNCHANGED <<excluded, ids, hits, evidence>>
      BY <2>7 DEF CheckerFails
    <3>2. Staged'
      BY <3>1 DEF Staged
    <3>3. Filtered'
      BY <3>1 DEF Filtered, Matches, Outside
    <3> QED
      BY <3>2, <3>3
  <2>8. CASE Report
    <3>1. /\ pc' = "reported" /\ pc = "critiquing"
          /\ UNCHANGED <<excluded, ids, hits, evidence, verdicts>>
      BY <2>8 DEF Report
    <3>2. Staged'
      BY <3>1 DEF Staged
    <3>3. Filtered'
      BY <3>1 DEF Filtered, Matches, Outside
    <3> QED
      BY <3>2, <3>3
  <2>9. CASE UNCHANGED vars
    <3>1. UNCHANGED <<pc, excluded, ids, hits, evidence, verdicts>>
      BY <2>9 DEF vars
    <3>2. Staged'
      BY <3>1 DEF Staged
    <3>3. Filtered'
      BY <3>1 DEF Filtered, Matches, Outside
    <3> QED
      BY <3>2, <3>3
  <2> QED
    BY <2>1, <2>2, <2>3, <2>4, <2>5, <2>6, <2>7, <2>8, <2>9 DEF Next
<1> QED
  BY <1>1, <1>2, PTL DEF Spec

-----------------------------------------------------------------------------
\* What a verdict rests on; whether it is well founded depends on these alone.
grounds == <<excluded, ids, hits, evidence, verdicts>>

\* Only Check and CheckerFails write verdicts, and they change nothing the
\* verdicts rest on.
LEMMA VerdictSteps ==
    ASSUME AuditInv, [Next]_vars
    PROVE  \/ UNCHANGED grounds
           \/ verdicts' = <<>>
           \/ Check /\ UNCHANGED <<excluded, ids, hits, evidence>>
           \/ CheckerFails /\ UNCHANGED <<excluded, ids, hits, evidence>>
<1> USE DEF AuditInv, grounds
<1>1. CASE Begin \/ NothingToAudit \/ Plan \/ PlannerFails \/ Retrieve
  BY <1>1 DEF Begin, NothingToAudit, Plan, PlannerFails, Retrieve, Staged
<1>2. CASE Check
  BY <1>2 DEF Check
<1>3. CASE CheckerFails
  BY <1>3 DEF CheckerFails
<1>4. CASE Report
  BY <1>4 DEF Report
<1>5. CASE UNCHANGED vars
  BY <1>5 DEF vars
<1> QED
  BY <1>1, <1>2, <1>3, <1>4, <1>5 DEF Next

\* What Check makes of a claim.
LEMMA CheckGates ==
    ASSUME Check
    PROVE  /\ DOMAIN verdicts' = DOMAIN ids
           /\ \A i \in DOMAIN ids : \E answer : verdicts'[i] = Gated(ids[i], answer)
BY DEF Check

\* What CheckerFails makes of a claim.
LEMMA FailureUnsupported ==
    ASSUME CheckerFails
    PROVE  /\ DOMAIN verdicts' = DOMAIN ids
           /\ \A i \in DOMAIN ids : verdicts'[i].verdict = "unsupported"
           /\ \A i \in DOMAIN ids : verdicts'[i].paths = {} /\ verdicts'[i] = Unsupported
BY DEF CheckerFails, Unsupported

\* The trust gate: with distinct ids, a claim without evidence is unsupported and
\* cites nothing, and a verdict cites only what was retrieved for its claim.
THEOREM TrustGate == Spec => []GateHolds
<1>1. Init => GateHolds
  BY NoPlaces DEF Init, GateHolds
<1>2. AuditInv /\ GateHolds /\ [Next]_vars => GateHolds'
  <2> SUFFICES ASSUME AuditInv, GateHolds, [Next]_vars PROVE GateHolds'
    OBVIOUS
  <2>1. CASE UNCHANGED grounds
    BY <2>1 DEF grounds, GateHolds, DistinctIds, Sound
  <2>2. CASE verdicts' = <<>>
    BY <2>2, NoPlaces DEF GateHolds
  <2>3. CASE Check /\ UNCHANGED <<excluded, ids, hits, evidence>>
    <3> SUFFICES ASSUME DistinctIds, NEW i \in DOMAIN ids
                 PROVE  /\ evidence[i] = {} => verdicts'[i] = Unsupported
                        /\ verdicts'[i].paths \subseteq {hits[i][j] : j \in evidence[i]}
      BY <2>3, CheckGates DEF GateHolds, DistinctIds, Sound
    <3>1. PICK answer : verdicts'[i] = Gated(ids[i], answer)
      BY <2>3, CheckGates
    <3>2. PICK n \in Nat : DOMAIN ids = 1..n
      BY AuditAssumption DEF AuditInv, Staged
    <3>3. Pool(ids[i]) = {hits[i][j] : j \in evidence[i]}
      BY <3>2, OwnPool
    <3>4. evidence[i] = {} => Pool(ids[i]) = {}
      BY <3>3
    <3> QED
      BY <3>1, <3>3, <3>4, GateCites
  <2>4. CASE CheckerFails /\ UNCHANGED <<excluded, ids, hits, evidence>>
    BY <2>4, FailureUnsupported DEF GateHolds, DistinctIds, Sound
  <2> QED
    BY <2>1, <2>2, <2>3, <2>4, VerdictSteps
<1> QED
  BY <1>1, <1>2, Layout, PTL DEF Spec

\* A verdict that is not "unsupported" cites a file retrieved in this audit, even
\* where claims share an id.
THEOREM SourcesTied == Spec => []TiedOrUnsupported
<1>1. Init => TiedOrUnsupported
  BY NoPlaces DEF Init, TiedOrUnsupported
<1>2. AuditInv /\ TiedOrUnsupported /\ [Next]_vars => TiedOrUnsupported'
  <2> SUFFICES ASSUME AuditInv, TiedOrUnsupported, [Next]_vars PROVE TiedOrUnsupported'
    OBVIOUS
  <2>1. CASE UNCHANGED grounds
    BY <2>1 DEF grounds, TiedOrUnsupported
  <2>2. CASE verdicts' = <<>>
    BY <2>2, NoPlaces DEF TiedOrUnsupported
  <2>3. CASE Check /\ UNCHANGED <<excluded, ids, hits, evidence>>
    <3>1. DOMAIN ids = DOMAIN evidence
      BY <2>3 DEF AuditInv, Staged, Check
    <3> SUFFICES ASSUME NEW i \in DOMAIN ids, verdicts'[i].verdict # "unsupported"
                 PROVE  \E p \in verdicts'[i].paths :
                          \E h \in DOMAIN evidence : \E j \in evidence[h] : hits[h][j] = p
      BY <2>3, CheckGates DEF TiedOrUnsupported
    <3>2. PICK answer : verdicts'[i] = Gated(ids[i], answer)
      BY <2>3, CheckGates
    <3>3. PICK p \in verdicts'[i].paths : p \in Pool(ids[i])
      BY <3>2, GateCites
    <3>4. PICK h \in Heeded(ids[i]) : \E j \in evidence[h] : hits[h][j] = p
      BY <3>3 DEF Pool
    <3> QED
      BY <3>1, <3>3, <3>4 DEF Heeded
  <2>4. CASE CheckerFails /\ UNCHANGED <<excluded, ids, hits, evidence>>
    BY <2>4, FailureUnsupported DEF TiedOrUnsupported
  <2> QED
    BY <2>1, <2>2, <2>3, <2>4, VerdictSteps
<1> QED
  BY <1>1, <1>2, Layout, PTL DEF Spec

\* A claim never verifies itself: an excluded README is cited by no verdict.
THEOREM NoSelfVerification == Spec => []ReadmeIsNoEvidence
<1>1. Init => ReadmeIsNoEvidence
  BY NoPlaces DEF Init, ReadmeIsNoEvidence
<1>2. AuditInv /\ ReadmeIsNoEvidence /\ [Next]_vars => ReadmeIsNoEvidence'
  <2> SUFFICES ASSUME AuditInv, ReadmeIsNoEvidence, [Next]_vars PROVE ReadmeIsNoEvidence'
    OBVIOUS
  <2>1. CASE UNCHANGED grounds
    BY <2>1 DEF grounds, ReadmeIsNoEvidence
  <2>2. CASE verdicts' = <<>>
    BY <2>2, NoPlaces DEF ReadmeIsNoEvidence
  <2>3. CASE Check /\ UNCHANGED <<excluded, ids, hits, evidence>>
    <3>1. DOMAIN ids = DOMAIN hits
      BY <2>3 DEF AuditInv, Staged, Check
    <3> SUFFICES ASSUME excluded, NEW i \in DOMAIN ids PROVE Readme \notin verdicts'[i].paths
      BY <2>3, CheckGates DEF ReadmeIsNoEvidence
    <3>2. PICK answer : verdicts'[i] = Gated(ids[i], answer)
      BY <2>3, CheckGates
    <3>3. verdicts'[i].paths \subseteq Pool(ids[i])
      BY <3>2, GateCites
    <3>4. \A h \in DOMAIN hits : \A j \in evidence[h] : hits[h][j] # Readme
      BY DEF AuditInv, Filtered, Outside
    <3> QED
      BY <3>1, <3>3, <3>4 DEF Pool, Heeded
  <2>4. CASE CheckerFails /\ UNCHANGED <<excluded, ids, hits, evidence>>
    BY <2>4, FailureUnsupported DEF ReadmeIsNoEvidence
  <2> QED
    BY <2>1, <2>2, <2>3, <2>4, VerdictSteps
<1> QED
  BY <1>1, <1>2, Layout, PTL DEF Spec

-----------------------------------------------------------------------------
Reports == [verdict : Verdicts, paths : SUBSET Files]

\* What the gate goes by are files.
LEMMA PoolOfFiles ==
    ASSUME AuditInv, DOMAIN hits = DOMAIN ids, NEW id
    PROVE  Pool(id) \subseteq Files
<1> SUFFICES ASSUME NEW i \in Heeded(id), NEW j \in evidence[i] PROVE hits[i][j] \in Files
  BY DEF Pool
<1>1. hits[i] \in Matches /\ j \in DOMAIN hits[i]
  BY DEF AuditInv, Filtered, Heeded, Outside
<1>2. PICK n \in 0..MaxHits : hits[i] \in [1..n -> Files]
  BY <1>1 DEF Matches
<1> QED
  BY <1>1, <1>2

\* The gate lets only legal verdicts through.
LEMMA GateLegal ==
    ASSUME NEW id, Pool(id) \subseteq Files, NEW answer \in Answers
    PROVE  Gated(id, answer) \in Reports
<1>1. Unsupported \in Reports
  BY DEF Unsupported, Reports, Verdicts
<1>2. Legal(answer.verdict) \in Verdicts
  BY DEF Legal, Verdicts
<1>3. answer.paths \subseteq Files
  BY DEF Answers
<1>4. Cited(answer.paths, Pool(id)) \subseteq Files
  BY <1>3 DEF Cited
<1> QED
  BY <1>1, <1>2, <1>4 DEF Gated, Reports

\* The parts of the type invariant that Layout does not cover.
Counted ==
    /\ excluded \in BOOLEAN
    /\ \A i \in DOMAIN verdicts : verdicts[i] \in Reports
    /\ summary \in [Verdicts -> 0..MaxClaims]
    /\ errors \subseteq {"input", "planner", "checker", "critic"}

LEMMA CountsKept == Spec => []Counted
<1>1. Init => Counted
  <2> SUFFICES ASSUME Init PROVE Counted
    OBVIOUS
  <2>1. summary \in [Verdicts -> 0..MaxClaims]
    BY AuditAssumption DEF Init
  <2>2. excluded \in BOOLEAN /\ errors \subseteq {"input", "planner", "checker", "critic"}
    BY DEF Init
  <2>3. \A i \in DOMAIN verdicts : verdicts[i] \in Reports
    BY NoPlaces DEF Init
  <2> QED
    BY <2>1, <2>2, <2>3 DEF Counted
<1>2. AuditInv /\ Counted /\ [Next]_vars => Counted'
  <2> SUFFICES ASSUME AuditInv, Counted, [Next]_vars PROVE Counted'
    OBVIOUS
  <2>1. CASE Begin \/ NothingToAudit \/ Plan \/ PlannerFails \/ Retrieve \/ UNCHANGED vars
    BY <2>1 DEF Counted, Begin, NothingToAudit, Plan, PlannerFails, Retrieve, vars, Fails
  <2>2. CASE Check
    <3>1. UNCHANGED <<excluded, summary, errors>> /\ DOMAIN verdicts' = DOMAIN ids
      BY <2>2 DEF Check
    <3>2. DOMAIN hits = DOMAIN ids
      BY <2>2 DEF Check, AuditInv, Staged
    <3>3. \A i \in DOMAIN ids : \E answer \in Answers : verdicts'[i] = Gated(ids[i], answer)
      BY <2>2 DEF Check
    <3>4. \A i \in DOMAIN ids : verdicts'[i] \in Reports
      BY <3>2, <3>3, PoolOfFiles, GateLegal
    <3> QED
      BY <3>1, <3>4 DEF Counted, Reports, Verdicts
  <2>3. CASE CheckerFails
    <3>1. Unsupported \in Reports
      BY DEF Unsupported, Reports, Verdicts
    <3>2. UNCHANGED <<excluded, summary>> /\ errors' = errors \cup {"checker"}
      BY <2>3 DEF CheckerFails, Fails
    <3>3. verdicts' = [i \in DOMAIN ids |-> Unsupported]
      BY <2>3 DEF CheckerFails
    <3> QED
      BY <3>1, <3>2, <3>3 DEF Counted, Reports, Verdicts
  <2>4. CASE Report
    <3>1. UNCHANGED <<excluded, verdicts>> /\ errors' \in {errors, errors \cup {"critic"}}
      BY <2>4 DEF Report
    <3>2. PICK n \in 0..MaxClaims : DOMAIN ids = 1..n
      BY DEF AuditInv, Staged
    <3>3. IsFiniteSet(1..n) /\ Cardinality(1..n) = n
      BY <3>2, AuditAssumption, FS_Interval
    <3>4. ASSUME NEW v \in Verdicts
          PROVE  Cardinality({i \in DOMAIN ids : verdicts[i].verdict = v}) \in 0..MaxClaims
      <4> DEFINE counted == {i \in DOMAIN ids : verdicts[i].verdict = v}
      <4>1. counted \subseteq 1..n
        BY <3>2
      <4>2. IsFiniteSet(counted) /\ Cardinality(counted) <= n
        BY <3>3, <4>1, FS_Subset
      <4>3. Cardinality(counted) \in Nat
        BY <4>2, FS_CardinalityType
      <4> QED
        BY <4>2, <4>3, AuditAssumption
    <3>5. summary' \in [Verdicts -> 0..MaxClaims]
      BY <2>4, <3>4 DEF Report
    <3> QED
      BY <3>1, <3>5 DEF Counted, Reports, Verdicts
  <2> QED
    BY <2>1, <2>2, <2>3, <2>4 DEF Next
<1> QED
  BY <1>1, <1>2, Layout, PTL DEF Spec

\* Every variable keeps its type, and every list keeps in step with the claims.
THEOREM TypeCorrect == Spec => []TypeOK
<1>1. AuditInv /\ Counted => TypeOK
  BY DEF AuditInv, Staged, Filtered, Counted, Reports, Outside, TypeOK
<1> QED
  BY <1>1, Layout, CountsKept, PTL

-----------------------------------------------------------------------------
\* A legal verdict is counted under one word and one only.
LEMMA EachCountedOnce ==
    ASSUME AuditInv, Counted, DOMAIN verdicts = DOMAIN ids
    PROVE  LET Those(v) == {i \in DOMAIN ids : verdicts[i].verdict = v}
           IN  Cardinality(Those("verified")) + Cardinality(Those("unsupported"))
                 = Cardinality(DOMAIN ids)
<1> DEFINE Those(v) == {i \in DOMAIN ids : verdicts[i].verdict = v}
<1>1. PICK n \in 0..MaxClaims : DOMAIN ids = 1..n
  BY DEF AuditInv, Staged
<1>2. IsFiniteSet(DOMAIN ids)
  BY <1>1, AuditAssumption, FS_Interval
<1>3. \A v : Those(v) \subseteq DOMAIN ids
  OBVIOUS
<1>4. IsFiniteSet(Those("verified")) /\ IsFiniteSet(Those("unsupported"))
  BY <1>2, <1>3, FS_Subset
<1>5. \A i \in DOMAIN ids : verdicts[i].verdict \in {"verified", "unsupported"}
  BY DEF Counted, Reports, Verdicts
<1>6. Those("verified") \cup Those("unsupported") = DOMAIN ids
  BY <1>5
<1>7. Those("verified") \cap Those("unsupported") = {}
  OBVIOUS
<1> HIDE DEF Those
<1>8. Cardinality(DOMAIN ids)
        = Cardinality(Those("verified")) + Cardinality(Those("unsupported")) - 0
  BY <1>4, <1>6, <1>7, FS_Union, FS_EmptySet
<1>9. Cardinality(Those("verified")) \in Nat /\ Cardinality(Those("unsupported")) \in Nat
  BY <1>4, FS_CardinalityType
<1> QED
  BY <1>8, <1>9 DEF Those

\* The summary is empty until the report is put together.
Unsummed == pc # "reported" => summary = [v \in Verdicts |-> 0]

\* The report accounts for every claim, once, whatever words the checker used and
\* whichever stages failed.
THEOREM ReportComplete == Spec => []SummaryAddsUp
<1>1. Init => Unsummed /\ SummaryAddsUp
  BY DEF Init, Unsummed, SummaryAddsUp
<1>2. AuditInv /\ Counted /\ Unsummed /\ SummaryAddsUp /\ [Next]_vars
        => Unsummed' /\ SummaryAddsUp'
  <2> SUFFICES ASSUME AuditInv, Counted, Unsummed, SummaryAddsUp, [Next]_vars
               PROVE  Unsummed' /\ SummaryAddsUp'
    OBVIOUS
  <2>1. CASE Begin \/ Plan \/ PlannerFails \/ Retrieve \/ Check \/ CheckerFails
    BY <2>1 DEF Begin, Plan, PlannerFails, Retrieve, Check, CheckerFails, Unsummed, SummaryAddsUp
  <2>2. CASE NothingToAudit
    <3>1. ids' = <<>> /\ summary' = [v \in Verdicts |-> 0] /\ pc' = "reported"
      BY <2>2 DEF NothingToAudit, AuditInv, Staged, Unsummed
    <3>2. Cardinality(DOMAIN ids') = 0
      BY <3>1, NoPlaces, FS_EmptySet
    <3>3. summary'["verified"] + summary'["unsupported"] = 0
      BY <3>1 DEF Verdicts
    <3> QED
      BY <3>1, <3>2, <3>3 DEF Unsummed, SummaryAddsUp
  <2>3. CASE Report
    <3>1. DOMAIN verdicts = DOMAIN ids /\ ids' = ids /\ pc' = "reported"
      BY <2>3 DEF Report, AuditInv, Staged
    <3>2. \A v \in Verdicts :
            summary'[v] = Cardinality({i \in DOMAIN ids : verdicts[i].verdict = v})
      BY <2>3 DEF Report
    <3>3. summary'["verified"] + summary'["unsupported"] = Cardinality(DOMAIN ids)
      BY <3>1, <3>2, EachCountedOnce DEF Verdicts
    <3> QED
      BY <3>1, <3>3 DEF Unsummed, SummaryAddsUp
  <2>4. CASE UNCHANGED vars
    BY <2>4 DEF vars, Unsummed, SummaryAddsUp
  <2> QED
    BY <2>1, <2>2, <2>3, <2>4 DEF Next
<1> QED
  BY <1>1, <1>2, Layout, CountsKept, PTL DEF Spec

=============================================================================
