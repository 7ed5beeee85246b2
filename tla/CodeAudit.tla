------------------------------ MODULE CodeAudit ------------------------------
(***************************************************************************)
(* One code audit (core/orchestrator/readme_flow.py and pr_flow.py with      *)
(* providers/code_audit_agents.py): a planner names claims, a grep collects  *)
(* evidence for each, a checker judges them, and _enforce_trust_gate puts    *)
(* right what the checker answered before a critic reads it.                 *)
(*                                                                          *)
(* A claim is its place in the planner's list; its id is a number, n for     *)
(* "claim-n", and 0 for an id the planner left empty.  The grep's matches    *)
(* for a claim are the files that match, in the order the tree (or the diff) *)
(* is walked; a snippet is a place in that list.  The verdicts "drifted" and *)
(* "contradicted" are treated as "verified" is and are left out; "unknown"   *)
(* is any word that is no verdict.                                           *)
(***************************************************************************)
EXTENDS Integers, FiniteSets

CONSTANTS
    Files,          \* paths in the tree searched, or in the diff
    Readme,         \* the README under audit, when it lies in the tree
    MaxEvidence,    \* max_evidence_per_claim
    PlannerIds,     \* ids the planner may give, 0 for none
    MaxClaims,      \* bound on the claims of a document
    MaxHits         \* bound on the matches of a claim

ASSUME AuditAssumption ==
    /\ Readme \in Files
    /\ MaxEvidence \in Nat \ {0}
    /\ PlannerIds \subseteq Nat
    /\ MaxClaims \in Nat
    /\ MaxHits \in Nat

VARIABLES
    pc,         \* where audit() is
    excluded,   \* readme_rel # "": the README is taken out of the evidence
    ids,        \* claim_id of each claim
    hits,       \* the matches of each claim
    evidence,   \* the snippets retrieved for each claim: places in hits
    verdicts,   \* what the report says of each claim
    summary,    \* how many verdicts of each kind the report counts
    errors      \* stages that raised

vars == <<pc, excluded, ids, hits, evidence, verdicts, summary, errors>>

Verdicts == {"verified", "unsupported"}

\* What the checker may say of a claim; a claim it leaves out gets Unsupported.
Answers == [verdict : Verdicts \cup {"unknown"}, paths : SUBSET Files]
Unsupported == [verdict |-> "unsupported", paths |-> {}]

Init ==
    /\ pc = "new"
    /\ excluded = FALSE
    /\ ids = <<>>
    /\ hits = <<>>
    /\ evidence = <<>>
    /\ verdicts = <<>>
    /\ summary = [v \in Verdicts |-> 0]
    /\ errors = {}

-----------------------------------------------------------------------------
\* The lists of matches a walk may yield: each file is read once, from its top.
Matches ==
    {s \in UNION {[1..n -> Files] : n \in 0..MaxHits} :
       \A i, j, k \in DOMAIN s : i < j /\ j < k /\ s[i] = s[k] => s[j] = s[i]}

Outside(s) == {j \in DOMAIN s : ~(excluded /\ s[j] = Readme)}

Retrieved_NoFilter(s) == {j \in DOMAIN s : j <= MaxEvidence}

\* _retrieve_all_evidence: of the first matches, twice as many as asked for when
\* the README is to be taken out, the first MaxEvidence that remain.
Retrieved(s) ==
    LET limit == IF excluded THEN 2 * MaxEvidence ELSE MaxEvidence
    IN  {j \in Outside(s) :
           /\ j <= limit
           /\ Cardinality({k \in Outside(s) : k <= j}) <= MaxEvidence}

\* _normalise_claim_list: an empty id becomes the claim's place.
Named(given) == [i \in DOMAIN given |-> IF given[i] = 0 THEN i ELSE given[i]]

\* evidence_by_claim: of the claims with this id, the last one's evidence counts.
Heeded(id) ==
    {i \in DOMAIN ids : ids[i] = id /\ \A j \in DOMAIN ids : ids[j] = id => j <= i}

\* The files of the snippets the gate goes by for an id.
Pool(id) == UNION {{hits[i][j] : j \in evidence[i]} : i \in Heeded(id)}

\* Citations that were not retrieved go; if none is left, all that was is cited.
Cited(paths, pool) == IF paths \cap pool = {} THEN pool ELSE paths \cap pool

Legal(word) == IF word \in Verdicts THEN word ELSE "unsupported"

Gated_Trusting(id, answer) ==
    [verdict |-> Legal(answer.verdict), paths |-> Cited(answer.paths, Pool(id))]

Gated_AnyWord(id, answer) ==
    IF Pool(id) = {} THEN Unsupported
    ELSE [verdict |-> answer.verdict, paths |-> Cited(answer.paths, Pool(id))]

Gated_AnyPath(id, answer) ==
    IF Pool(id) = {} THEN Unsupported
    ELSE [verdict |-> Legal(answer.verdict), paths |-> Cited(answer.paths, Files)]

\* _enforce_trust_gate, for one claim: no evidence, no verdict.
Gated(id, answer) ==
    IF Pool(id) = {} THEN Unsupported
    ELSE [verdict |-> Legal(answer.verdict), paths |-> Cited(answer.paths, Pool(id))]

Fails(stage) == errors' = errors \cup {stage}

-----------------------------------------------------------------------------
\* audit() of a README in the searched tree, of one outside it, or of a pull
\* request: only in the first case is there something to exclude.
Begin ==
    /\ pc = "new"
    /\ excluded' \in BOOLEAN
    /\ pc' = "planning"
    /\ UNCHANGED <<ids, hits, evidence, verdicts, summary, errors>>

\* There is no README, or the description is empty.
NothingToAudit ==
    /\ pc = "new"
    /\ Fails("input")
    /\ pc' = "reported"
    /\ UNCHANGED <<excluded, ids, hits, evidence, verdicts, summary>>

\* The planner answers; an answer that cannot be parsed is one without claims.
Plan ==
    /\ pc = "planning"
    /\ \E n \in 0..MaxClaims : \E given \in [1..n -> PlannerIds] : ids' = Named(given)
    /\ pc' = "retrieving"
    /\ UNCHANGED <<excluded, hits, evidence, verdicts, summary, errors>>

PlannerFails ==
    /\ pc = "planning"
    /\ Fails("planner")
    /\ pc' = "retrieving"
    /\ UNCHANGED <<excluded, ids, hits, evidence, verdicts, summary>>

\* _retrieve_all_evidence for every claim.
Retrieve ==
    /\ pc = "retrieving"
    /\ hits' \in [DOMAIN ids -> Matches]
    /\ evidence' = [i \in DOMAIN ids |-> Retrieved(hits'[i])]
    /\ pc' = "checking"
    /\ UNCHANGED <<excluded, ids, verdicts, summary, errors>>

\* The checker answers for some of the ids, and its answer passes the gate.
\* Without claims it is not asked, and there is no verdict.
Check ==
    /\ pc = "checking"
    /\ \E answer \in [{ids[i] : i \in DOMAIN ids} -> Answers] :
         verdicts' = [i \in DOMAIN ids |-> Gated(ids[i], answer[ids[i]])]
    /\ pc' = "critiquing"
    /\ UNCHANGED <<excluded, ids, hits, evidence, summary, errors>>

\* The checker raises: every claim is unsupported.
CheckerFails ==
    /\ pc = "checking" /\ ids # <<>>
    /\ verdicts' = [i \in DOMAIN ids |-> Unsupported]
    /\ Fails("checker")
    /\ pc' = "critiquing"
    /\ UNCHANGED <<excluded, ids, hits, evidence, summary>>

\* The critic answers or raises, and the report is put together.
Report ==
    /\ pc = "critiquing"
    /\ errors' \in {errors, errors \cup {"critic"}}
    /\ summary' = [v \in Verdicts |-> Cardinality({i \in DOMAIN ids : verdicts[i].verdict = v})]
    /\ pc' = "reported"
    /\ UNCHANGED <<excluded, ids, hits, evidence, verdicts>>

Next ==
    \/ Begin
    \/ NothingToAudit
    \/ Plan
    \/ PlannerFails
    \/ Retrieve
    \/ Check
    \/ CheckerFails
    \/ Report

Spec == Init /\ [][Next]_vars

-----------------------------------------------------------------------------
\* Every claim has an id; each stage keeps its lists in step with the claims; and
\* a verdict is a legal one.
TypeOK ==
    /\ pc \in {"new", "planning", "retrieving", "checking", "critiquing", "reported"}
    /\ excluded \in BOOLEAN
    /\ \E n \in 0..MaxClaims : ids \in [1..n -> (PlannerIds \cup 1..MaxClaims) \ {0}]
    /\ DOMAIN hits \in {{}, DOMAIN ids}
    /\ DOMAIN evidence = DOMAIN hits
    /\ \A i \in DOMAIN hits : hits[i] \in Matches /\ evidence[i] \subseteq DOMAIN hits[i]
    /\ DOMAIN verdicts \in {{}, DOMAIN ids}
    /\ \A i \in DOMAIN verdicts :
         verdicts[i] \in [verdict : Verdicts, paths : SUBSET Files]
    /\ summary \in [Verdicts -> 0..MaxClaims]
    /\ errors \subseteq {"input", "planner", "checker", "critic"}

DistinctIds == \A i, j \in DOMAIN ids : ids[i] = ids[j] => i = j

\* A verdict rests on its claim's own evidence: with none it is "unsupported" and
\* cites nothing, and what it cites was retrieved for that claim.
Sound(i) ==
    /\ evidence[i] = {} => verdicts[i] = Unsupported
    /\ verdicts[i].paths \subseteq {hits[i][j] : j \in evidence[i]}

\* The gate's promise (code_audit_agents.py:283-291), whatever the checker says
\* and whichever stage fails, provided no two claims share an id.
GateHolds == DistinctIds => \A i \in DOMAIN verdicts : Sound(i)

\* README.md:11, "Every claim the system emits is either tied to a verifiable
\* primary source or marked as unsupported": a verdict other than "unsupported"
\* cites a file that was retrieved in this audit, ids distinct or not.
TiedOrUnsupported ==
    \A i \in DOMAIN verdicts :
      verdicts[i].verdict # "unsupported" =>
        \E p \in verdicts[i].paths :
          \E h \in DOMAIN evidence : \E j \in evidence[h] : hits[h][j] = p

\* README.md:94, "claims cannot verify themselves": no verdict cites the README
\* under audit, though the grep finds it and the checker may well name it.
ReadmeIsNoEvidence ==
    excluded => \A i \in DOMAIN verdicts : Readme \notin verdicts[i].paths

\* The report's summary accounts for every claim: none is lost to a word the
\* checker made up, and none counted twice.
SummaryAddsUp ==
    pc = "reported" =>
      summary["verified"] + summary["unsupported"] = Cardinality(DOMAIN ids)

\* The docstring of _enforce_trust_gate (code_audit_agents.py:283-291) without a
\* proviso: "a no-evidence verdict is *always* unsupported".
NoEvidenceNoVerdict ==
    \A i \in DOMAIN verdicts : evidence[i] = {} => verdicts[i].verdict = "unsupported"

=============================================================================
