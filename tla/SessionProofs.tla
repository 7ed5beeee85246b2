--------------------------- MODULE SessionProofs ----------------------------
(***************************************************************************)
(* Thesis sessions: the pipeline for any number of lost Redis operations,  *)
(* and the store its sessions are saved to, for any number of sessions,    *)
(* readers and erasers, any page size and any lifetime.                    *)
(*                                                                         *)
(* A deletion under way is safe because what it still has to remove is     *)
(* dead for good: a session is saved once, so a key that is gone never     *)
(* returns. A clear_all is safe but for the sessions saved behind its      *)
(* scan. What a listing shows follows from its page: a page cut from an    *)
(* index that holds every living session cannot leave out one that SQL     *)
(* would have kept and take one it would not.                              *)
(***************************************************************************)
EXTENDS ThesisPipeline, SessionStore, FiniteSetTheorems, SequenceTheorems, TLAPS

-----------------------------------------------------------------------------
\* What a session's agents see, and what is left of the session, whatever its
\* stages come to.

\* The stages that have ended, and those that have not begun, at each place.
Done ==
    LET planned == {"planner", "memory", "corpus"}
        checked == planned \cup {"search", "researcher", "checker", "synthesizer"}
    IN  [new |-> {}, planning |-> {}, searching |-> planned,
         researching |-> planned \cup {"search"},
         checking |-> planned \cup {"search", "researcher"},
         critiquing |-> checked, reviewing |-> checked \cup {"critic"},
         saving |-> Stages, returned |-> Stages]

Ahead ==
    LET judges == {"critic", "supervisor"}
        checkers == {"checker", "synthesizer"} \cup judges
    IN  [new |-> Stages, planning |-> {"search", "researcher"} \cup checkers,
         searching |-> {"researcher"} \cup checkers, researching |-> checkers,
         checking |-> judges, critiquing |-> {"supervisor"}, reviewing |-> {},
         saving |-> {}, returned |-> {}]

\* The stage the pipeline waits for where it waits for one alone.
Alone ==
    [searching |-> "search", researching |-> "researcher",
     critiquing |-> "critic", reviewing |-> "supervisor"]

\* Stages run in their order, and an agent only after everything upstream of it.
OrderInv ==
    /\ pc # "cancelled" => /\ \A g \in Done[pc] : Settled(g)
                           /\ \A g \in Ahead[pc] : stage[g] = "idle"
    /\ pc \in DOMAIN Alone => stage[Alone[pc]] = "running"
    /\ \A g \in Agents : Started(g) => \A h \in Upstream[g] : Settled(h)

\* Only a stage that answered has an entry, on the board and in every copy of it.
HonestInv ==
    /\ \A h \in board \cap Stages : Answered(h)
    /\ \A h \in shared \cap Stages : Answered(h)
    /\ \A g \in Agents : \A h \in read[g] \cap Stages : Answered(h)

\* Checker and synthesizer read one snapshot, taken before either began.
SnapshotInv ==
    /\ shared \cap {"checker", "synthesizer"} = {}
    /\ \A g \in {"checker", "synthesizer"} : read[g] = IF Started(g) THEN shared ELSE {}

\* As long as nothing was lost, an answer is on the board, in the snapshot taken
\* after it and in the prompts compiled after it.
NothingLostInv ==
    lost = 0 =>
      /\ \A h \in Stages : Answered(h) => h \in board
      /\ Settled("researcher") =>
           \A h \in Upstream["checker"] : Answered(h) => h \in shared
      /\ \A g \in Agents : Started(g) => \A h \in Upstream[g] : Answered(h) => h \in read[g]

\* The verdicts are passed once, from the errors, which are the placeholders.
VerdictInv ==
    /\ errors = {g \in Stages : stage[g] = "placeholder"}
    /\ pc \notin {"saving", "returned", "cancelled"} => result = "none"
    /\ pc = "saving" => result # "none"
    /\ result = "none" => episode = "none" /\ saved = "none"
    /\ result # "none" => (result = "complete" <=> errors = {})
    /\ saved \in {"none", result}
    /\ episode # "none" => (episode = "accepted" <=> result = "complete")

PipelineInv ==
    PipelineTypeOK /\ OrderInv /\ HonestInv /\ SnapshotInv /\ NothingLostInv /\ VerdictInv

-----------------------------------------------------------------------------
\* What has ended when the snapshot for checker and synthesizer is taken.
LEMMA BeforeSnapshot ==
    /\ Upstream["checker"] = {"planner", "memory", "corpus", "search", "researcher"}
    /\ Upstream["synthesizer"] = Upstream["checker"]
    /\ Upstream["checker"] \subseteq Stages
  BY DEF Upstream, Stages, Agents

\* What the blackboard operations leave: a post adds its own entry or nothing, a
\* read gets the whole board or nothing, and the second only when an operation is
\* lost.
LEMMA PutsShape ==
    ASSUME NEW k, NEW b, NEW l \in 0..MaxLost, NEW p \in Puts(k, b, l)
    PROVE  /\ b \subseteq p[1] /\ p[1] \subseteq b \cup {k}
           /\ p[2] \in 0..MaxLost
           /\ p[2] = 0 => l = 0 /\ k \in p[1]
<1>1. CASE p = <<b \cup {k}, l>>
  BY <1>1
<1>2. CASE l < MaxLost /\ p = <<b, l + 1>>
  BY <1>2, PipelineAssumption
<1>3. QED
  BY <1>1, <1>2 DEF Puts

LEMMA GetsShape ==
    ASSUME NEW b, NEW l \in 0..MaxLost, NEW p \in Gets(b, l)
    PROVE  /\ p[1] \subseteq b
           /\ p[2] \in 0..MaxLost
           /\ p[2] = 0 => l = 0 /\ p[1] = b
<1>1. CASE p = <<b, l>>
  BY <1>1
<1>2. CASE l < MaxLost /\ p = <<{}, l + 1>>
  BY <1>2, PipelineAssumption
<1>3. QED
  BY <1>1, <1>2 DEF Gets

LEMMA PutsIfAnsweredShape ==
    ASSUME NEW g, NEW outcome, NEW b, NEW l \in 0..MaxLost,
           NEW p \in PutsIfAnswered(g, outcome, b, l)
    PROVE  /\ b \subseteq p[1]
           /\ p[1] \subseteq b \cup (IF outcome = "placeholder" THEN {} ELSE {g})
           /\ p[2] \in 0..MaxLost
           /\ p[2] = 0 => l = 0 /\ (outcome # "placeholder" => g \in p[1])
<1>1. CASE outcome = "placeholder"
  BY <1>1 DEF PutsIfAnswered
<1>2. CASE outcome # "placeholder"
  BY <1>2, PutsShape DEF PutsIfAnswered
<1>3. QED
  BY <1>1, <1>2

-----------------------------------------------------------------------------
LEMMA PipelineInit == InitPipeline => PipelineInv
<1> SUFFICES ASSUME InitPipeline PROVE PipelineInv
  OBVIOUS
<1> USE DEF InitPipeline
<1>1. PipelineTypeOK
  BY PipelineAssumption DEF PipelineTypeOK, Stages, Agents, Place
<1>2. OrderInv
  BY DEF OrderInv, Done, Ahead, Alone, Started, Stages, Agents
<1>3. HonestInv /\ SnapshotInv
  BY DEF HonestInv, SnapshotInv, Started, Stages, Agents
<1>4. NothingLostInv
  BY DEF NothingLostInv, Settled, Started, Answered, Stages, Agents
<1>5. VerdictInv
  BY DEF VerdictInv
<1>6. QED
  BY <1>1, <1>2, <1>3, <1>4, <1>5 DEF PipelineInv

LEMMA BeginStep == PipelineInv /\ Begin => PipelineInv'
<1> SUFFICES ASSUME PipelineInv, Begin PROVE PipelineInv'
  OBVIOUS
<1>1. PICK p1 \in Puts("task", board, lost) :
      \E p2 \in Puts("route", p1[1], p1[2]) : \E g \in Gets(p2[1], p2[2]) :
        /\ board' = p2[1] /\ lost' = g[2]
        /\ read' = [read EXCEPT !["planner"] = g[1]]
  BY DEF Begin
<1>A. PICK p2 \in Puts("route", p1[1], p1[2]) : \E g \in Gets(p2[1], p2[2]) :
        /\ board' = p2[1] /\ lost' = g[2]
        /\ read' = [read EXCEPT !["planner"] = g[1]]
  BY <1>1
<1>2. PICK g \in Gets(p2[1], p2[2]) :
        /\ board' = p2[1] /\ lost' = g[2]
        /\ read' = [read EXCEPT !["planner"] = g[1]]
  BY <1>A
<1>3. lost \in 0..MaxLost /\ board \subseteq Kinds /\ pc = "new" /\ PipelineTypeOK
  BY DEF PipelineInv, PipelineTypeOK, Begin
<1>4. p1[2] \in 0..MaxLost /\ board \subseteq p1[1] /\ p1[1] \subseteq board \cup {"task"}
  BY <1>3, PutsShape
<1>5. p2[2] \in 0..MaxLost /\ board \subseteq p2[1] /\ p2[1] \subseteq board \cup {"task", "route"}
  BY <1>4, PutsShape
<1>6. g[1] \subseteq p2[1] /\ g[2] \in 0..MaxLost
  BY <1>5, GetsShape
<1>7. /\ lost' \in 0..MaxLost
      /\ board' \subseteq board \cup {"task", "route"}
      /\ g[1] \subseteq board \cup {"task", "route"}
  BY <1>2, <1>5, <1>6
<1>8. \A h \in Stages : stage[h] = "idle"
  BY <1>3 DEF PipelineInv, OrderInv, Ahead
<1>9. /\ stage' = [h \in Stages |->
                IF h \in {"planner", "memory", "corpus"} THEN "running" ELSE "idle"]
      /\ pc' = "planning"
      /\ UNCHANGED <<errors, shared, result, episode, saved>>
  BY DEF Begin
<1>10. board \cap Stages = {} /\ shared \cap Stages = {}
  BY <1>8 DEF PipelineInv, HonestInv, Answered
<1>11. PipelineTypeOK'
  <2>1. board' \subseteq Kinds /\ g[1] \subseteq Kinds
    BY <1>3, <1>7 DEF Kinds
  <2>2. read' \in [Agents -> SUBSET Kinds]
    BY <1>2, <1>3, <2>1 DEF PipelineTypeOK
  <2>3. stage' \in [Stages -> {"idle", "running", "own", "empty", "placeholder"}]
    BY <1>9
  <2>4. \A h \in Stages : stage'[h] = "running" => pc' \in {Place[h], "cancelled"}
    BY <1>9 DEF Place
  <2>5. QED
    BY <1>3, <1>7, <1>9, <2>1, <2>2, <2>3, <2>4 DEF PipelineTypeOK
<1>12. OrderInv'
  BY <1>9 DEF OrderInv, Done, Ahead, Alone, Started, Settled, Stages, Agents, Upstream
<1>13. HonestInv'
  BY <1>2, <1>3, <1>7, <1>8, <1>9, <1>10
     DEF PipelineInv, HonestInv, Answered, Stages, Agents, PipelineTypeOK
<1>14. SnapshotInv'
  BY <1>2, <1>3, <1>8, <1>9 DEF PipelineInv, SnapshotInv, PipelineTypeOK, Started, Stages, Agents
<1>15. NothingLostInv'
  BY <1>9 DEF NothingLostInv, Settled, Started, Answered, Stages, Agents, Upstream
<1>16. VerdictInv'
  BY <1>3, <1>8, <1>9 DEF PipelineInv, VerdictInv
<1>17. QED
  BY <1>11, <1>12, <1>13, <1>14, <1>15, <1>16 DEF PipelineInv

\* A stage that was running ends, and nothing else moves but the board.
LEMMA EndConcurrentStep ==
    ASSUME PipelineInv, NEW g \in Stages, EndConcurrent(g) PROVE PipelineInv'
<1>1. PICK outcome \in Outcomes :
        /\ stage' = [stage EXCEPT ![g] = outcome]
        /\ Settle(g, outcome)
        /\ \E p \in PutsIfAnswered(g, outcome, board, lost) : board' = p[1] /\ lost' = p[2]
  BY DEF EndConcurrent
<1>2. PICK p \in PutsIfAnswered(g, outcome, board, lost) : board' = p[1] /\ lost' = p[2]
  BY <1>1
<1>3. /\ PipelineTypeOK /\ OrderInv /\ lost \in 0..MaxLost
      /\ outcome \in {"own", "empty", "placeholder"}
      /\ g \in {"planner", "memory", "corpus", "checker", "synthesizer"}
      /\ pc \in {"planning", "checking"} /\ stage[g] = "running"
      /\ UNCHANGED <<pc, shared, read, result, episode, saved>>
  BY PipelineAssumption DEF PipelineInv, PipelineTypeOK, EndConcurrent
<1>4. /\ board' \subseteq board \cup (IF outcome = "placeholder" THEN {} ELSE {g})
      /\ board \subseteq board' /\ lost' \in 0..MaxLost
      /\ lost' = 0 => lost = 0 /\ (outcome # "placeholder" => g \in board')
  BY <1>2, <1>3, PutsIfAnsweredShape
<1>5. /\ stage'[g] = outcome
      /\ \A h \in Stages \ {g} : stage'[h] = stage[h]
  BY <1>1, <1>3 DEF PipelineTypeOK
<1>6. /\ \A h \in Stages : Settled(h) => h # g
      /\ \A h \in Stages : Started(h)' <=> Started(h)
      /\ \A h \in Stages : Settled(h) => Settled(h)'
  BY <1>3, <1>5 DEF Settled, Started
<1>7. PipelineTypeOK'
  <2>1. board' \subseteq Kinds
    BY <1>3, <1>4 DEF PipelineTypeOK, Kinds
  <2>2. stage' \in [Stages -> {"idle", "running", "own", "empty", "placeholder"}]
    BY <1>1, <1>3 DEF PipelineTypeOK
  <2>3. \A h \in Stages : stage'[h] = "running" => pc' \in {Place[h], "cancelled"}
    BY <1>3, <1>5 DEF PipelineTypeOK
  <2>4. errors' \subseteq Stages
    BY <1>1, <1>3 DEF PipelineTypeOK, Settle
  <2>5. QED
    BY <1>3, <1>4, <2>1, <2>2, <2>3, <2>4 DEF PipelineTypeOK
<1>8. OrderInv'
  <2>1. \A h \in Done[pc] : h \in Stages /\ Settled(h)
    BY <1>3 DEF OrderInv, Done, Stages, Agents
  <2>2. \A h \in Ahead[pc] : h \in Stages /\ stage[h] = "idle"
    BY <1>3 DEF OrderInv, Ahead, Stages, Agents
  <2>3. \A a \in Agents : a \in Stages /\ Upstream[a] \subseteq Stages
    BY DEF Upstream, Stages, Agents
  <2>4. pc' \notin DOMAIN Alone
    BY <1>3 DEF Alone
  <2>5. QED
    BY <1>3, <1>5, <1>6, <2>1, <2>2, <2>3, <2>4 DEF OrderInv
<1>9. HonestInv'
  BY <1>3, <1>4, <1>5 DEF PipelineInv, HonestInv, Answered
<1>10. SnapshotInv'
  BY <1>3, <1>6 DEF PipelineInv, SnapshotInv, Stages, Agents
<1>11. NothingLostInv'
  <2>1. SUFFICES ASSUME lost' = 0
        PROVE  /\ \A h \in Stages : Answered(h)' => h \in board'
               /\ Settled("researcher")' =>
                    \A h \in Upstream["checker"] : Answered(h)' => h \in shared
               /\ \A a \in Agents : Started(a)' =>
                    \A h \in Upstream[a] : Answered(h)' => h \in read[a]
    BY <1>3 DEF NothingLostInv
  <2>2. \A h \in Stages : Answered(h)' => h \in board'
    BY <1>3, <1>4, <1>5, <2>1 DEF PipelineInv, NothingLostInv, Answered
  <2>3. Settled("researcher")' => \A h \in Upstream["checker"] : Settled(h) /\ h \in Stages
    BY <1>3, <1>5, BeforeSnapshot DEF OrderInv, Done, Ahead, Settled, Stages, Agents
  <2>4. Settled("researcher")' =>
          \A h \in Upstream["checker"] : Answered(h)' => h \in shared
    BY <1>4, <1>5, <1>6, <2>1, <2>3, BeforeSnapshot DEF PipelineInv, NothingLostInv, Answered
  <2>5. \A a \in Agents : Started(a)' =>
          \A h \in Upstream[a] : Settled(h) /\ h \in Stages /\ stage'[h] = stage[h]
    BY <1>3, <1>5, <1>6 DEF OrderInv, Upstream, Stages, Agents
  <2>6. \A a \in Agents : Started(a)' =>
          \A h \in Upstream[a] : Answered(h)' => h \in read[a]
    BY <1>4, <1>6, <2>1, <2>5 DEF PipelineInv, NothingLostInv, Answered, Stages
  <2>7. QED
    BY <2>2, <2>4, <2>6
<1>12. VerdictInv'
  <2>1. errors' = {h \in Stages : stage'[h] = "placeholder"}
    BY <1>1, <1>3, <1>5 DEF PipelineInv, VerdictInv, Settle
  <2>2. QED
    BY <1>3, <2>1 DEF PipelineInv, VerdictInv
<1>13. QED
  BY <1>7, <1>8, <1>9, <1>10, <1>11, <1>12 DEF PipelineInv

LEMMA StartSearchStep == PipelineInv /\ StartSearch => PipelineInv'
<1> SUFFICES ASSUME PipelineInv, StartSearch PROVE PipelineInv'
  OBVIOUS
<1>1. /\ PipelineTypeOK /\ OrderInv /\ pc = "planning" /\ pc' = "searching"
      /\ \A g \in {"planner", "memory", "corpus"} : Settled(g)
      /\ stage' = [stage EXCEPT !["search"] = "running"]
      /\ UNCHANGED <<errors, board, lost, shared, read, result, episode, saved>>
  BY DEF PipelineInv, StartSearch
<1>2. /\ stage["search"] = "idle" /\ stage'["search"] = "running"
      /\ \A h \in Stages \ {"search"} : stage'[h] = stage[h]
  BY <1>1 DEF PipelineTypeOK, OrderInv, Ahead, Stages
<1>3. PipelineTypeOK'
  <2>1. stage' \in [Stages -> {"idle", "running", "own", "empty", "placeholder"}]
    BY <1>1 DEF PipelineTypeOK
  <2>2. \A h \in Stages : stage'[h] = "running" => pc' \in {Place[h], "cancelled"}
    BY <1>1, <1>2 DEF PipelineTypeOK, OrderInv, Ahead, Settled, Stages, Agents, Place
  <2>3. QED
    BY <1>1, <2>1, <2>2 DEF PipelineTypeOK
<1>4. OrderInv'
  <2>1. \A h \in Done[pc'] : Settled(h)'
    BY <1>1, <1>2 DEF Done, Settled, Stages, Agents
  <2>2. \A h \in Ahead[pc'] : stage'[h] = "idle"
    BY <1>1, <1>2 DEF OrderInv, Ahead, Stages, Agents
  <2>3. \A a \in Agents : Started(a)' => \A h \in Upstream[a] : Settled(h)'
    BY <1>1, <1>2 DEF OrderInv, Settled, Started, Upstream, Stages, Agents
  <2>4. stage'[Alone[pc']] = "running"
    BY <1>1, <1>2 DEF Alone
  <2>5. QED
    BY <2>1, <2>2, <2>3, <2>4 DEF OrderInv
<1>5. HonestInv'
  BY <1>1, <1>2 DEF PipelineInv, HonestInv, Answered
<1>6. SnapshotInv'
  BY <1>1, <1>2 DEF PipelineInv, SnapshotInv, Started, Stages, Agents
<1>7. NothingLostInv'
  BY <1>1, <1>2
     DEF PipelineInv, NothingLostInv, Answered, Settled, Started, Stages, Agents, Upstream
<1>8. VerdictInv'
  BY <1>1, <1>2 DEF PipelineInv, VerdictInv
<1>9. QED
  BY <1>3, <1>4, <1>5, <1>6, <1>7, <1>8 DEF PipelineInv

LEMMA SearchedStep == PipelineInv /\ Searched => PipelineInv'
<1> SUFFICES ASSUME PipelineInv, Searched PROVE PipelineInv'
  OBVIOUS
<1>1. PICK found \in {"own", "empty"} :
        /\ stage' = [stage EXCEPT !["search"] = found, !["researcher"] = "running"]
        /\ \E p \in (IF found = "own" THEN Puts("search", board, lost) ELSE {<<board, lost>>}) :
           \E s \in Gets(p[1], p[2]) :
             board' = p[1] /\ lost' = s[2] /\ read' = [read EXCEPT !["researcher"] = s[1]]
  BY DEF Searched
<1>2. PICK p \in (IF found = "own" THEN Puts("search", board, lost) ELSE {<<board, lost>>}) :
        \E s \in Gets(p[1], p[2]) :
          board' = p[1] /\ lost' = s[2] /\ read' = [read EXCEPT !["researcher"] = s[1]]
  BY <1>1
<1>3. PICK s \in Gets(p[1], p[2]) :
        board' = p[1] /\ lost' = s[2] /\ read' = [read EXCEPT !["researcher"] = s[1]]
  BY <1>2
<1>4. /\ PipelineTypeOK /\ OrderInv /\ lost \in 0..MaxLost
      /\ pc = "searching" /\ pc' = "researching"
      /\ UNCHANGED <<errors, shared, result, episode, saved>>
  BY DEF PipelineInv, PipelineTypeOK, Searched
<1>5. /\ board \subseteq p[1] /\ p[2] \in 0..MaxLost
      /\ p[1] \subseteq board \cup (IF found = "own" THEN {"search"} ELSE {})
      /\ p[2] = 0 => lost = 0 /\ (found = "own" => "search" \in p[1])
  <2>1. CASE found = "own"
    BY <1>2, <1>4, <2>1, PutsShape
  <2>2. CASE found # "own"
    BY <1>2, <1>4, <2>2
  <2>3. QED
    BY <2>1, <2>2
<1>6. /\ board \subseteq board' /\ lost' \in 0..MaxLost /\ s[1] \subseteq board'
      /\ board' \subseteq board \cup (IF found = "own" THEN {"search"} ELSE {})
      /\ lost' = 0 => /\ lost = 0 /\ s[1] = board'
                      /\ found = "own" => "search" \in board'
  BY <1>3, <1>5, GetsShape
<1>7. /\ stage'["search"] = found /\ stage'["researcher"] = "running"
      /\ \A h \in Stages \ {"search", "researcher"} : stage'[h] = stage[h]
  BY <1>1, <1>4 DEF PipelineTypeOK, Stages, Agents
<1>8. /\ read'["researcher"] = s[1]
      /\ \A g \in Agents \ {"researcher"} : read'[g] = read[g]
  BY <1>3, <1>4 DEF PipelineTypeOK, Agents
<1>9. /\ \A h \in {"planner", "memory", "corpus"} : Settled(h)
      /\ \A h \in {"researcher", "checker", "synthesizer", "critic", "supervisor"} :
           stage[h] = "idle"
      /\ stage["search"] = "running"
  BY <1>4 DEF OrderInv, Done, Ahead, Alone
<1>10. PipelineTypeOK'
  <2>1. board' \subseteq Kinds /\ s[1] \subseteq Kinds
    BY <1>4, <1>6 DEF PipelineTypeOK, Kinds, Stages
  <2>2. read' \in [Agents -> SUBSET Kinds]
    BY <1>3, <1>4, <2>1 DEF PipelineTypeOK
  <2>3. stage' \in [Stages -> {"idle", "running", "own", "empty", "placeholder"}]
    BY <1>1, <1>4 DEF PipelineTypeOK
  <2>4. \A h \in Stages : stage'[h] = "running" => pc' \in {Place[h], "cancelled"}
    BY <1>4, <1>7, <1>9 DEF Settled, Stages, Agents, Place
  <2>5. QED
    BY <1>4, <1>6, <2>1, <2>2, <2>3, <2>4 DEF PipelineTypeOK
<1>11. OrderInv'
  <2>1. \A h \in Done[pc'] : Settled(h)'
    BY <1>4, <1>7, <1>9 DEF Done, Settled, Stages, Agents
  <2>2. \A h \in Ahead[pc'] : stage'[h] = "idle"
    BY <1>4, <1>7, <1>9 DEF Ahead, Stages, Agents
  <2>3. \A a \in Agents : Started(a)' => \A h \in Upstream[a] : Settled(h)'
    BY <1>7, <1>9 DEF Settled, Started, Upstream, Stages, Agents
  <2>4. stage'[Alone[pc']] = "running"
    BY <1>4, <1>7 DEF Alone
  <2>5. QED
    BY <2>1, <2>2, <2>3, <2>4 DEF OrderInv
<1>12. HonestInv'
  <2>1. \A h \in board' \cap Stages : Answered(h)'
    BY <1>1, <1>6, <1>7, <1>9 DEF PipelineInv, HonestInv, Answered
  <2>2. \A h \in shared' \cap Stages : Answered(h)'
    BY <1>1, <1>4, <1>7, <1>9 DEF PipelineInv, HonestInv, Answered
  <2>3. ASSUME NEW g \in Agents PROVE \A h \in read'[g] \cap Stages : Answered(h)'
    <3>1. CASE g = "researcher"
      BY <1>6, <1>8, <2>1, <3>1
    <3>2. CASE g # "researcher"
      <4>1. \A h \in Stages : Answered(h) => Answered(h)'
        BY <1>7, <1>9 DEF Answered
      <4>2. read'[g] = read[g]
        BY <1>8, <3>2
      <4>3. QED
        BY <4>1, <4>2 DEF PipelineInv, HonestInv
    <3>3. QED
      BY <3>1, <3>2
  <2>4. QED
    BY <2>1, <2>2, <2>3 DEF HonestInv
<1>13. SnapshotInv'
  BY <1>4, <1>7, <1>8 DEF PipelineInv, SnapshotInv, Started, Stages, Agents
<1>14. NothingLostInv'
  <2>1. SUFFICES ASSUME lost' = 0
        PROVE  /\ \A h \in Stages : Answered(h)' => h \in board'
               /\ Settled("researcher")' =>
                    \A h \in Upstream["checker"] : Answered(h)' => h \in shared'
               /\ \A a \in Agents : Started(a)' =>
                    \A h \in Upstream[a] : Answered(h)' => h \in read'[a]
    BY DEF NothingLostInv
  <2>2. \A h \in Stages : Answered(h)' => h \in board'
    BY <1>6, <1>7, <2>1 DEF PipelineInv, NothingLostInv, Answered
  <2>3. ~Settled("researcher")'
    BY <1>7 DEF Settled
  <2>4. \A a \in Agents : Started(a)' => \A h \in Upstream[a] : Answered(h)' => h \in read'[a]
    BY <1>6, <1>7, <1>8, <1>9, <2>1, <2>2
       DEF PipelineInv, NothingLostInv, Answered, Started, Upstream, Stages, Agents
  <2>5. QED
    BY <2>2, <2>3, <2>4
<1>15. VerdictInv'
  <2>1. errors' = {h \in Stages : stage'[h] = "placeholder"}
    BY <1>1, <1>4, <1>7, <1>9 DEF PipelineInv, VerdictInv
  <2>2. QED
    BY <1>4, <2>1 DEF PipelineInv, VerdictInv
<1>16. QED
  BY <1>10, <1>11, <1>12, <1>13, <1>14, <1>15 DEF PipelineInv

LEMMA EndResearcherStep == PipelineInv /\ EndResearcher => PipelineInv'
<1> SUFFICES ASSUME PipelineInv, EndResearcher PROVE PipelineInv'
  OBVIOUS
<1>1. PICK outcome \in Outcomes :
        /\ stage' = [stage EXCEPT !["researcher"] = outcome]
        /\ Settle("researcher", outcome)
        /\ \E p \in PutsIfAnswered("researcher", outcome, board, lost) :
           \E s \in Gets(p[1], p[2]) : board' = p[1] /\ shared' = s[1] /\ lost' = s[2]
  BY DEF EndResearcher
<1>2. PICK p \in PutsIfAnswered("researcher", outcome, board, lost) :
        \E s \in Gets(p[1], p[2]) : board' = p[1] /\ shared' = s[1] /\ lost' = s[2]
  BY <1>1
<1>3. PICK s \in Gets(p[1], p[2]) : board' = p[1] /\ shared' = s[1] /\ lost' = s[2]
  BY <1>2
<1>4. /\ PipelineTypeOK /\ OrderInv /\ lost \in 0..MaxLost
      /\ outcome \in {"own", "empty", "placeholder"}
      /\ pc = "researching" /\ pc' = "checking"
      /\ UNCHANGED <<read, result, episode, saved>>
  BY PipelineAssumption DEF PipelineInv, PipelineTypeOK, EndResearcher
<1>5. /\ board \subseteq p[1] /\ p[2] \in 0..MaxLost
      /\ p[1] \subseteq board \cup (IF outcome = "placeholder" THEN {} ELSE {"researcher"})
      /\ p[2] = 0 => lost = 0 /\ (outcome # "placeholder" => "researcher" \in p[1])
  BY <1>2, <1>4, PutsIfAnsweredShape
<1>6. /\ board \subseteq board' /\ lost' \in 0..MaxLost /\ shared' \subseteq board'
      /\ board' \subseteq board \cup (IF outcome = "placeholder" THEN {} ELSE {"researcher"})
      /\ lost' = 0 => /\ lost = 0 /\ shared' = board'
                      /\ outcome # "placeholder" => "researcher" \in board'
  BY <1>3, <1>5, GetsShape
<1>7. /\ stage'["researcher"] = outcome
      /\ \A h \in Stages \ {"researcher"} : stage'[h] = stage[h]
  BY <1>1, <1>4 DEF PipelineTypeOK, Stages, Agents
<1>8. /\ \A h \in {"planner", "memory", "corpus", "search"} : Settled(h)
      /\ \A h \in {"checker", "synthesizer", "critic", "supervisor"} : stage[h] = "idle"
      /\ stage["researcher"] = "running"
  BY <1>4 DEF OrderInv, Done, Ahead, Alone
<1>9. PipelineTypeOK'
  <2>1. board' \subseteq Kinds /\ shared' \subseteq Kinds
    BY <1>4, <1>6 DEF PipelineTypeOK, Kinds, Stages, Agents
  <2>2. stage' \in [Stages -> {"idle", "running", "own", "empty", "placeholder"}]
    BY <1>1, <1>4 DEF PipelineTypeOK
  <2>3. \A h \in Stages : stage'[h] = "running" => pc' \in {Place[h], "cancelled"}
    BY <1>4, <1>7, <1>8 DEF Settled, Stages, Agents
  <2>4. errors' \subseteq Stages
    BY <1>1, <1>4 DEF PipelineTypeOK, Settle, Stages, Agents
  <2>5. QED
    BY <1>4, <1>6, <2>1, <2>2, <2>3, <2>4 DEF PipelineTypeOK
<1>10. OrderInv'
  <2>1. \A h \in Done[pc'] : Settled(h)'
    BY <1>4, <1>7, <1>8 DEF Done, Settled, Stages, Agents
  <2>2. \A h \in Ahead[pc'] : stage'[h] = "idle"
    BY <1>4, <1>7, <1>8 DEF Ahead, Stages, Agents
  <2>3. \A a \in Agents : Started(a)' => \A h \in Upstream[a] : Settled(h)'
    BY <1>4, <1>7, <1>8 DEF Settled, Started, Upstream, Stages, Agents
  <2>4. pc' \notin DOMAIN Alone
    BY <1>4 DEF Alone
  <2>5. QED
    BY <2>1, <2>2, <2>3, <2>4 DEF OrderInv
<1>11. HonestInv'
  <2>1. \A h \in board' \cap Stages : Answered(h)'
    BY <1>4, <1>6, <1>7, <1>8 DEF PipelineInv, HonestInv, Answered
  <2>2. \A g \in Agents : \A h \in read'[g] \cap Stages : Answered(h)'
    BY <1>4, <1>7, <1>8 DEF PipelineInv, HonestInv, Answered
  <2>3. QED
    BY <1>6, <2>1, <2>2 DEF HonestInv
<1>12. SnapshotInv'
  <2>1. board' \cap {"checker", "synthesizer"} = {}
    BY <1>6, <1>8 DEF PipelineInv, HonestInv, Answered, Stages, Agents
  <2>2. \A g \in {"checker", "synthesizer"} : read'[g] = {} /\ ~Started(g)'
    BY <1>4, <1>7, <1>8 DEF PipelineInv, SnapshotInv, Started, Stages, Agents
  <2>3. QED
    BY <1>6, <2>1, <2>2 DEF SnapshotInv
<1>13. NothingLostInv'
  <2>1. SUFFICES ASSUME lost' = 0
        PROVE  /\ \A h \in Stages : Answered(h)' => h \in board'
               /\ Settled("researcher")' =>
                    \A h \in Upstream["checker"] : Answered(h)' => h \in shared'
               /\ \A a \in Agents : Started(a)' =>
                    \A h \in Upstream[a] : Answered(h)' => h \in read'[a]
    BY DEF NothingLostInv
  <2>2. \A h \in Stages : Answered(h)' => h \in board'
    BY <1>4, <1>6, <1>7, <2>1 DEF PipelineInv, NothingLostInv, Answered
  <2>3. \A h \in Upstream["checker"] : Answered(h)' => h \in shared'
    BY <1>6, <2>1, <2>2, BeforeSnapshot
  <2>4. \A a \in Agents : Started(a)' => \A h \in Upstream[a] : Answered(h)' => h \in read'[a]
    BY <1>4, <1>6, <1>7, <1>8, <2>1
       DEF PipelineInv, NothingLostInv, Answered, Started, Upstream, Stages, Agents
  <2>5. QED
    BY <2>2, <2>3, <2>4
<1>14. VerdictInv'
  <2>1. errors' = {h \in Stages : stage'[h] = "placeholder"}
    BY <1>1, <1>4, <1>7, <1>8 DEF PipelineInv, VerdictInv, Settle, Stages, Agents
  <2>2. QED
    BY <1>4, <2>1 DEF PipelineInv, VerdictInv
<1>15. QED
  BY <1>9, <1>10, <1>11, <1>12, <1>13, <1>14 DEF PipelineInv

\* Checker and synthesizer start alike: each is given the snapshot.
LEMMA StartOnSnapshot ==
    ASSUME PipelineInv, NEW g \in {"checker", "synthesizer"}, pc = "checking", stage[g] = "idle",
           stage' = [stage EXCEPT ![g] = "running"],
           read' = [read EXCEPT ![g] = shared],
           UNCHANGED <<pc, errors, board, lost, shared, result, episode, saved>>
    PROVE  PipelineInv'
<1>1. PipelineTypeOK /\ OrderInv /\ g \in Agents /\ g \in Stages
  BY DEF PipelineInv, Stages, Agents
<1>2. /\ stage'[g] = "running" /\ read'[g] = shared
      /\ \A h \in Stages \ {g} : stage'[h] = stage[h]
      /\ \A h \in Agents \ {g} : read'[h] = read[h]
  BY <1>1 DEF PipelineTypeOK
<1>3. /\ \A h \in {"planner", "memory", "corpus", "search", "researcher"} : Settled(h)
      /\ \A h \in {"critic", "supervisor"} : stage[h] = "idle"
  BY <1>1 DEF OrderInv, Done, Ahead
<1>4. PipelineTypeOK'
  <2>1. read' \in [Agents -> SUBSET Kinds]
    BY <1>1 DEF PipelineTypeOK
  <2>2. stage' \in [Stages -> {"idle", "running", "own", "empty", "placeholder"}]
    BY <1>1 DEF PipelineTypeOK
  <2>3. \A h \in Stages : stage'[h] = "running" => pc' \in {Place[h], "cancelled"}
    BY <1>1, <1>2 DEF PipelineTypeOK, Place
  <2>4. QED
    BY <1>1, <2>1, <2>2, <2>3 DEF PipelineTypeOK
<1>5. OrderInv'
  <2>1. \A h \in Done[pc'] : Settled(h)'
    BY <1>2, <1>3 DEF Done, Settled, Stages, Agents
  <2>2. \A h \in Ahead[pc'] : stage'[h] = "idle"
    BY <1>2, <1>3 DEF Ahead, Stages, Agents
  <2>3. \A a \in Agents : Started(a)' => \A h \in Upstream[a] : Settled(h)'
    BY <1>1, <1>2, <1>3 DEF OrderInv, Settled, Started, Upstream, Stages, Agents
  <2>4. pc' \notin DOMAIN Alone
    BY DEF Alone
  <2>5. QED
    BY <2>1, <2>2, <2>3, <2>4 DEF OrderInv
<1>6. HonestInv'
  BY <1>1, <1>2 DEF PipelineInv, HonestInv, Answered
<1>7. SnapshotInv'
  BY <1>1, <1>2 DEF PipelineInv, SnapshotInv, Started, Stages, Agents
<1>8. NothingLostInv'
  <2>1. \A h \in Stages : Answered(h)' <=> Answered(h)
    BY <1>2 DEF Answered
  <2>2. Upstream[g] = Upstream["checker"] /\ \A a \in Agents : Upstream[a] \subseteq Stages
    BY DEF Upstream, Stages, Agents
  <2>3. QED
    BY <1>2, <1>3, <2>1, <2>2
       DEF PipelineInv, NothingLostInv, Settled, Started, Stages, Agents
<1>9. VerdictInv'
  BY <1>2 DEF PipelineInv, VerdictInv
<1>10. QED
  BY <1>4, <1>5, <1>6, <1>7, <1>8, <1>9 DEF PipelineInv

LEMMA StartCriticStep == PipelineInv /\ StartCritic => PipelineInv'
<1> SUFFICES ASSUME PipelineInv, StartCritic PROVE PipelineInv'
  OBVIOUS
<1>1. PICK s \in Gets(board, lost) :
        read' = [read EXCEPT !["critic"] = s[1]] /\ lost' = s[2]
  BY DEF StartCritic
<1>2. /\ PipelineTypeOK /\ OrderInv /\ lost \in 0..MaxLost
      /\ pc = "checking" /\ pc' = "critiquing"
      /\ \A g \in {"checker", "synthesizer"} : Settled(g)
      /\ stage' = [stage EXCEPT !["critic"] = "running"]
      /\ UNCHANGED <<errors, board, shared, result, episode, saved>>
  BY DEF PipelineInv, PipelineTypeOK, StartCritic
<1>3. lost' \in 0..MaxLost /\ s[1] \subseteq board /\ (lost' = 0 => lost = 0 /\ s[1] = board)
  BY <1>1, <1>2, GetsShape
<1>4. /\ stage'["critic"] = "running" /\ read'["critic"] = s[1]
      /\ \A h \in Stages \ {"critic"} : stage'[h] = stage[h]
      /\ \A h \in Agents \ {"critic"} : read'[h] = read[h]
  BY <1>1, <1>2 DEF PipelineTypeOK, Stages, Agents
<1>5. /\ \A h \in {"planner", "memory", "corpus", "search", "researcher", "checker",
                    "synthesizer"} : Settled(h)
      /\ \A h \in {"critic", "supervisor"} : stage[h] = "idle"
  BY <1>2 DEF OrderInv, Done, Ahead
<1>6. PipelineTypeOK'
  <2>1. read' \in [Agents -> SUBSET Kinds]
    BY <1>1, <1>2, <1>3 DEF PipelineTypeOK
  <2>2. stage' \in [Stages -> {"idle", "running", "own", "empty", "placeholder"}]
    BY <1>2 DEF PipelineTypeOK
  <2>3. \A h \in Stages : stage'[h] = "running" => pc' \in {Place[h], "cancelled"}
    BY <1>2, <1>4, <1>5 DEF Settled, Stages, Agents, Place
  <2>4. QED
    BY <1>2, <1>3, <2>1, <2>2, <2>3 DEF PipelineTypeOK
<1>7. OrderInv'
  <2>1. \A h \in Done[pc'] : Settled(h)'
    BY <1>2, <1>4, <1>5 DEF Done, Settled, Stages, Agents
  <2>2. \A h \in Ahead[pc'] : stage'[h] = "idle"
    BY <1>2, <1>4, <1>5 DEF Ahead, Stages, Agents
  <2>3. \A a \in Agents : Started(a)' => \A h \in Upstream[a] : Settled(h)'
    BY <1>2, <1>4, <1>5 DEF Settled, Started, Upstream, Stages, Agents
  <2>4. stage'[Alone[pc']] = "running"
    BY <1>2, <1>4 DEF Alone
  <2>5. QED
    BY <2>1, <2>2, <2>3, <2>4 DEF OrderInv
<1>8. \A h \in Stages : Answered(h)' <=> Answered(h)
  BY <1>4, <1>5 DEF Answered
<1>9. HonestInv'
  BY <1>2, <1>3, <1>4, <1>8 DEF PipelineInv, HonestInv
<1>10. SnapshotInv'
  BY <1>2, <1>4 DEF PipelineInv, SnapshotInv, Started, Stages, Agents
<1>11. NothingLostInv'
  <2>1. \A a \in Agents : Upstream[a] \subseteq Stages
    BY DEF Upstream, Stages, Agents
  <2>2. \A a \in Agents \ {"critic"} : Started(a)' <=> Started(a)
    BY <1>4 DEF Started, Stages
  <2>3. QED
    BY <1>2, <1>3, <1>4, <1>5, <1>8, <2>1, <2>2
       DEF PipelineInv, NothingLostInv, Settled, Stages, Agents
<1>12. VerdictInv'
  BY <1>2, <1>4, <1>5 DEF PipelineInv, VerdictInv
<1>13. QED
  BY <1>6, <1>7, <1>9, <1>10, <1>11, <1>12 DEF PipelineInv

LEMMA EndCriticStep == PipelineInv /\ EndCritic => PipelineInv'
<1> SUFFICES ASSUME PipelineInv, EndCritic PROVE PipelineInv'
  OBVIOUS
<1>1. PICK outcome \in Outcomes :
        /\ stage' = [stage EXCEPT !["critic"] = outcome, !["supervisor"] = "running"]
        /\ Settle("critic", outcome)
        /\ \E p \in PutsIfAnswered("critic", outcome, board, lost) :
           \E s \in Gets(p[1], p[2]) :
             board' = p[1] /\ lost' = s[2] /\ read' = [read EXCEPT !["supervisor"] = s[1]]
  BY DEF EndCritic
<1>2. PICK p \in PutsIfAnswered("critic", outcome, board, lost) :
        \E s \in Gets(p[1], p[2]) :
          board' = p[1] /\ lost' = s[2] /\ read' = [read EXCEPT !["supervisor"] = s[1]]
  BY <1>1
<1>3. PICK s \in Gets(p[1], p[2]) :
        board' = p[1] /\ lost' = s[2] /\ read' = [read EXCEPT !["supervisor"] = s[1]]
  BY <1>2
<1>4. /\ PipelineTypeOK /\ OrderInv /\ lost \in 0..MaxLost
      /\ outcome \in {"own", "empty", "placeholder"}
      /\ pc = "critiquing" /\ pc' = "reviewing"
      /\ UNCHANGED <<shared, result, episode, saved>>
  BY PipelineAssumption DEF PipelineInv, PipelineTypeOK, EndCritic
<1>5. /\ board \subseteq p[1] /\ p[2] \in 0..MaxLost
      /\ p[1] \subseteq board \cup (IF outcome = "placeholder" THEN {} ELSE {"critic"})
      /\ p[2] = 0 => lost = 0 /\ (outcome # "placeholder" => "critic" \in p[1])
  BY <1>2, <1>4, PutsIfAnsweredShape
<1>6. /\ board \subseteq board' /\ lost' \in 0..MaxLost /\ s[1] \subseteq board'
      /\ board' \subseteq board \cup (IF outcome = "placeholder" THEN {} ELSE {"critic"})
      /\ lost' = 0 => /\ lost = 0 /\ s[1] = board'
                      /\ outcome # "placeholder" => "critic" \in board'
  BY <1>3, <1>5, GetsShape
<1>7. /\ stage'["critic"] = outcome /\ stage'["supervisor"] = "running"
      /\ \A h \in Stages \ {"critic", "supervisor"} : stage'[h] = stage[h]
  BY <1>1, <1>4 DEF PipelineTypeOK, Stages, Agents
<1>8. /\ read'["supervisor"] = s[1]
      /\ \A g \in Agents \ {"supervisor"} : read'[g] = read[g]
  BY <1>3, <1>4 DEF PipelineTypeOK, Agents
<1>9. /\ \A h \in {"planner", "memory", "corpus", "search", "researcher", "checker",
                    "synthesizer"} : Settled(h)
      /\ stage["critic"] = "running" /\ stage["supervisor"] = "idle"
  BY <1>4 DEF OrderInv, Done, Ahead, Alone
<1>10. \A h \in Stages : Answered(h) => h \notin {"critic", "supervisor"} /\ Answered(h)'
  BY <1>7, <1>9 DEF Answered
<1>11. PipelineTypeOK'
  <2>1. board' \subseteq Kinds /\ s[1] \subseteq Kinds
    BY <1>4, <1>6 DEF PipelineTypeOK, Kinds, Stages, Agents
  <2>2. read' \in [Agents -> SUBSET Kinds]
    BY <1>3, <1>4, <2>1 DEF PipelineTypeOK
  <2>3. stage' \in [Stages -> {"idle", "running", "own", "empty", "placeholder"}]
    BY <1>1, <1>4 DEF PipelineTypeOK
  <2>4. \A h \in Stages : stage'[h] = "running" => pc' \in {Place[h], "cancelled"}
    BY <1>4, <1>7, <1>9 DEF Settled, Stages, Agents, Place
  <2>5. errors' \subseteq Stages
    BY <1>1, <1>4 DEF PipelineTypeOK, Settle, Stages, Agents
  <2>6. QED
    BY <1>4, <1>6, <2>1, <2>2, <2>3, <2>4, <2>5 DEF PipelineTypeOK
<1>12. OrderInv'
  <2>1. \A h \in Done[pc'] : Settled(h)'
    BY <1>4, <1>7, <1>9 DEF Done, Settled, Stages, Agents
  <2>2. \A h \in Ahead[pc'] : stage'[h] = "idle"
    BY <1>4 DEF Ahead
  <2>3. \A a \in Agents : Started(a)' => \A h \in Upstream[a] : Settled(h)'
    BY <1>4, <1>7, <1>9 DEF Settled, Started, Upstream, Stages, Agents
  <2>4. stage'[Alone[pc']] = "running"
    BY <1>4, <1>7 DEF Alone
  <2>5. QED
    BY <2>1, <2>2, <2>3, <2>4 DEF OrderInv
<1>13. HonestInv'
  <2>1. \A h \in board' \cap Stages : Answered(h)'
    BY <1>4, <1>6, <1>7, <1>10 DEF PipelineInv, HonestInv, Answered
  <2>2. \A h \in shared' \cap Stages : Answered(h)'
    BY <1>4, <1>10 DEF PipelineInv, HonestInv
  <2>3. ASSUME NEW g \in Agents PROVE \A h \in read'[g] \cap Stages : Answered(h)'
    <3>1. CASE g = "supervisor"
      BY <1>6, <1>8, <2>1, <3>1
    <3>2. CASE g # "supervisor"
      BY <1>8, <1>10, <3>2 DEF PipelineInv, HonestInv
    <3>3. QED
      BY <3>1, <3>2
  <2>4. QED
    BY <2>1, <2>2, <2>3 DEF HonestInv
<1>14. SnapshotInv'
  BY <1>4, <1>7, <1>8 DEF PipelineInv, SnapshotInv, Started, Stages, Agents
<1>15. NothingLostInv'
  <2>1. SUFFICES ASSUME lost' = 0
        PROVE  /\ \A h \in Stages : Answered(h)' => h \in board'
               /\ \A h \in Upstream["checker"] : Answered(h)' => h \in shared'
               /\ \A a \in Agents : Started(a)' =>
                    \A h \in Upstream[a] : Answered(h)' => h \in read'[a]
    BY DEF NothingLostInv
  <2>2. \A h \in Stages : Answered(h)' => h \in board'
    BY <1>4, <1>6, <1>7, <2>1 DEF PipelineInv, NothingLostInv, Answered
  <2>3. \A h \in Upstream["checker"] : Answered(h)' => h \in shared'
    BY <1>4, <1>6, <1>7, <1>9, <2>1, BeforeSnapshot DEF PipelineInv, NothingLostInv, Answered, Stages, Agents
  <2>4. ASSUME NEW a \in Agents, Started(a)'
        PROVE  \A h \in Upstream[a] : Answered(h)' => h \in read'[a]
    <3>1. CASE a = "supervisor"
      <4>1. Upstream[a] \subseteq Stages
        BY DEF Upstream, Stages, Agents
      <4>2. QED
        BY <1>6, <1>8, <2>1, <2>2, <3>1, <4>1
    <3>2. CASE a # "supervisor"
      <4>1. Started(a) /\ Upstream[a] \subseteq Stages \ {"critic", "supervisor"}
        BY <1>7, <1>9, <2>4, <3>2 DEF Started, Upstream, Stages, Agents
      <4>2. QED
        BY <1>6, <1>7, <1>8, <2>1, <3>2, <4>1 DEF PipelineInv, NothingLostInv, Answered
    <3>3. QED
      BY <3>1, <3>2
  <2>5. QED
    BY <2>2, <2>3, <2>4
<1>16. VerdictInv'
  <2>1. errors' = {h \in Stages : stage'[h] = "placeholder"}
    BY <1>1, <1>4, <1>7, <1>9 DEF PipelineInv, VerdictInv, Settle, Stages, Agents
  <2>2. QED
    BY <1>4, <2>1 DEF PipelineInv, VerdictInv
<1>17. QED
  BY <1>11, <1>12, <1>13, <1>14, <1>15, <1>16 DEF PipelineInv

LEMMA EndSupervisorStep == PipelineInv /\ EndSupervisor => PipelineInv'
<1> SUFFICES ASSUME PipelineInv, EndSupervisor PROVE PipelineInv'
  OBVIOUS
<1>1. PICK outcome \in Outcomes :
        /\ stage' = [stage EXCEPT !["supervisor"] = outcome]
        /\ Settle("supervisor", outcome)
        /\ \E p \in PutsIfAnswered("supervisor", outcome, board, lost) :
             board' = p[1] /\ lost' = p[2]
  BY DEF EndSupervisor
<1>2. PICK p \in PutsIfAnswered("supervisor", outcome, board, lost) :
        board' = p[1] /\ lost' = p[2]
  BY <1>1
<1>3. /\ PipelineTypeOK /\ OrderInv /\ lost \in 0..MaxLost
      /\ outcome \in {"own", "empty", "placeholder"}
      /\ pc = "reviewing" /\ pc' = "saving"
      /\ result' = IF errors' = {} THEN "complete" ELSE "partial"
      /\ episode' \in {"none", IF errors' = {} THEN "accepted" ELSE "rejected"}
      /\ UNCHANGED <<shared, read, saved>>
  BY PipelineAssumption DEF PipelineInv, PipelineTypeOK, EndSupervisor
<1>4. /\ board \subseteq board' /\ lost' \in 0..MaxLost
      /\ board' \subseteq board \cup (IF outcome = "placeholder" THEN {} ELSE {"supervisor"})
      /\ lost' = 0 => lost = 0 /\ (outcome # "placeholder" => "supervisor" \in board')
  BY <1>2, <1>3, PutsIfAnsweredShape
<1>5. /\ stage'["supervisor"] = outcome
      /\ \A h \in Stages \ {"supervisor"} : stage'[h] = stage[h]
  BY <1>1, <1>3 DEF PipelineTypeOK, Stages, Agents
<1>6. /\ \A h \in Stages \ {"supervisor"} : Settled(h)
      /\ stage["supervisor"] = "running"
  BY <1>3 DEF OrderInv, Done, Alone, Stages, Agents
<1>7. \A h \in Stages : Answered(h) => h # "supervisor" /\ Answered(h)'
  BY <1>5, <1>6 DEF Answered
<1>8. \A h \in Stages : Settled(h)'
  BY <1>3, <1>5, <1>6 DEF Settled
<1>9. PipelineTypeOK'
  <2>1. board' \subseteq Kinds
    BY <1>3, <1>4 DEF PipelineTypeOK, Kinds, Stages, Agents
  <2>2. stage' \in [Stages -> {"idle", "running", "own", "empty", "placeholder"}]
    BY <1>1, <1>3 DEF PipelineTypeOK
  <2>3. \A h \in Stages : stage'[h] = "running" => pc' \in {Place[h], "cancelled"}
    BY <1>8 DEF Settled
  <2>4. errors' \subseteq Stages
    BY <1>1, <1>3 DEF PipelineTypeOK, Settle, Stages, Agents
  <2>5. QED
    BY <1>3, <1>4, <2>1, <2>2, <2>3, <2>4 DEF PipelineTypeOK
<1>10. OrderInv'
  BY <1>3, <1>8 DEF OrderInv, Done, Ahead, Alone, Upstream, Stages, Agents
<1>11. HonestInv'
  BY <1>3, <1>4, <1>5, <1>7 DEF PipelineInv, HonestInv, Answered
<1>12. SnapshotInv'
  BY <1>3, <1>5 DEF PipelineInv, SnapshotInv, Started, Stages, Agents
<1>13. NothingLostInv'
  <2>1. SUFFICES ASSUME lost' = 0
        PROVE  /\ \A h \in Stages : Answered(h)' => h \in board'
               /\ \A h \in Upstream["checker"] : Answered(h)' => h \in shared'
               /\ \A a \in Agents : Started(a)' =>
                    \A h \in Upstream[a] : Answered(h)' => h \in read'[a]
    BY DEF NothingLostInv
  <2>2. \A h \in Stages : Answered(h)' => h \in board'
    BY <1>3, <1>4, <1>5, <2>1 DEF PipelineInv, NothingLostInv, Answered
  <2>3. \A h \in Upstream["checker"] : Answered(h)' => h \in shared'
    BY <1>3, <1>4, <1>5, <1>6, <2>1, BeforeSnapshot DEF PipelineInv, NothingLostInv, Answered, Stages, Agents
  <2>4. \A a \in Agents : Upstream[a] \subseteq Stages \ {"supervisor"}
    BY DEF Upstream, Stages, Agents
  <2>5. \A a \in Agents : Started(a)' => Started(a)
    BY <1>5, <1>6 DEF Started, Stages
  <2>6. \A a \in Agents : Started(a)' => \A h \in Upstream[a] : Answered(h)' => h \in read'[a]
    BY <1>3, <1>4, <1>5, <2>1, <2>4, <2>5 DEF PipelineInv, NothingLostInv, Answered
  <2>7. QED
    BY <2>2, <2>3, <2>6
<1>14. VerdictInv'
  <2>1. errors' = {h \in Stages : stage'[h] = "placeholder"}
    BY <1>1, <1>3, <1>5, <1>6 DEF PipelineInv, VerdictInv, Settle, Stages, Agents
  <2>2. saved' = "none" /\ result' \in {"complete", "partial"}
    BY <1>3 DEF PipelineInv, VerdictInv
  <2>3. QED
    BY <1>3, <2>1, <2>2 DEF VerdictInv
<1>15. QED
  BY <1>9, <1>10, <1>11, <1>12, <1>13, <1>14 DEF PipelineInv

\* The ends of a session: its stages, board and prompts stay as they are.
LEMMA EndStep == PipelineInv /\ (SaveSession \/ Cancel) => PipelineInv'
<1> SUFFICES ASSUME PipelineInv, SaveSession \/ Cancel PROVE PipelineInv'
  OBVIOUS
<1>1. /\ UNCHANGED <<stage, errors, board, lost, shared, read, result, episode>>
      /\ pc' \in {"returned", "cancelled"}
      /\ pc' # "cancelled" => pc = "saving"
      /\ saved' \in {"none", result}
  BY DEF SaveSession, Cancel
<1>2. PipelineTypeOK /\ OrderInv /\ VerdictInv
  BY DEF PipelineInv
<1>3. PipelineTypeOK'
  <2>1. ASSUME NEW h \in Stages, stage[h] = "running" PROVE pc' = "cancelled"
    <3>1. CASE pc' = "returned"
      BY <1>1, <1>2, <2>1, <3>1 DEF OrderInv, Done, Settled
    <3>2. QED
      BY <1>1, <3>1
  <2>2. QED
    BY <1>1, <1>2, <2>1 DEF PipelineTypeOK
<1>4. OrderInv'
  <2>1. CASE pc' = "returned"
    BY <1>1, <1>2, <2>1 DEF OrderInv, Done, Ahead, Alone, Settled, Started
  <2>2. CASE pc' = "cancelled"
    BY <1>1, <1>2, <2>2 DEF OrderInv, Alone, Settled, Started
  <2>3. QED
    BY <1>1, <2>1, <2>2
<1>5. HonestInv' /\ SnapshotInv' /\ NothingLostInv'
  BY <1>1
     DEF PipelineInv, HonestInv, SnapshotInv, NothingLostInv, Answered, Settled, Started
<1>6. VerdictInv'
  BY <1>1, <1>2 DEF VerdictInv
<1>7. QED
  BY <1>3, <1>4, <1>5, <1>6 DEF PipelineInv

LEMMA PipelineStep == PipelineInv /\ [NextPipeline]_pipelineVars => PipelineInv'
<1> SUFFICES ASSUME PipelineInv, [NextPipeline]_pipelineVars PROVE PipelineInv'
  OBVIOUS
<1>1. CASE UNCHANGED pipelineVars
  BY <1>1 DEF pipelineVars, PipelineInv, PipelineTypeOK, OrderInv, HonestInv, SnapshotInv, NothingLostInv,
              VerdictInv, Answered, Settled, Started
<1>2. CASE StartChecker
  BY <1>2, StartOnSnapshot DEF StartChecker
<1>3. CASE StartSynthesizer
  BY <1>3, StartOnSnapshot DEF StartSynthesizer
<1>4. CASE Begin \/ Cancel \/ Progress
  BY <1>2, <1>3, <1>4, BeginStep, EndConcurrentStep, StartSearchStep, SearchedStep,
     EndResearcherStep, StartCriticStep, EndCriticStep, EndSupervisorStep, EndStep
     DEF Progress
<1>5. QED
  BY <1>1, <1>4 DEF NextPipeline

-----------------------------------------------------------------------------
\* The invariant the theorems below are read off from: stages end in their order,
\* only answers are posted or copied, and as long as no Redis operation is lost an
\* answer is in every copy taken after it.
THEOREM PipelineInvariant == PipelineSpec => []PipelineInv
<1>1. QED
  BY PipelineInit, PipelineStep, PTL DEF PipelineSpec

\* The variables keep their types, and no stage is left running behind a gather
\* that has returned.
THEOREM PipelineTypeCorrect == PipelineSpec => []PipelineTypeOK
<1>1. PipelineInv => PipelineTypeOK
  BY DEF PipelineInv
<1>2. QED
  BY <1>1, PipelineInvariant, PTL

\* Checker and synthesizer never see each other's output and work from the same
\* evidence, whichever of them starts late or ends first.
THEOREM ChecksStayIndependent == PipelineSpec => []ChecksIndependent
<1>1. PipelineInv => ChecksIndependent
  BY DEF PipelineInv, SnapshotInv, ChecksIndependent
<1>2. QED
  BY <1>1, PipelineInvariant, PTL

\* What a template has a section for is legible, but for the plan and the papers.
LEMMA SlotsLegible == \A g \in Agents : Slots[g] \ {"planner", "search"} \subseteq Legible
  BY DEF Slots, Legible, Kinds, Stages, Agents

\* As long as Redis works, the result of every stage that ended before an agent is called
\* is in the snapshot its prompt is compiled from, and is shown where its template has a
\* section for it, but for the plan and the papers.
THEOREM EntriesArrive == PipelineSpec => []EntriesReachDownstream
<1>1. PipelineInv => EntriesReachDownstream
  BY SlotsLegible
     DEF PipelineInv, NothingLostInv, EntriesReachDownstream, Shown
<1>2. QED
  BY <1>1, PipelineInvariant, PTL

\* No prompt shows a stage that raised as though it had found something.
THEOREM PlaceholdersStayHidden == PipelineSpec => []NoPlaceholderShown
<1>1. PipelineInv => NoPlaceholderShown
  BY DEF PipelineInv, HonestInv, NoPlaceholderShown, Shown, Answered
<1>2. QED
  BY <1>1, PipelineInvariant, PTL

\* The session's status, its saved record and its episode all say whether every
\* stage went through.
THEOREM OneVerdict == PipelineSpec => []VerdictsAgree
<1>1. PipelineInv => VerdictsAgree
  BY DEF PipelineInv, VerdictInv, VerdictsAgree
<1>2. QED
  BY <1>1, PipelineInvariant, PTL

-----------------------------------------------------------------------------
\* The session store.

Saved == {id \in Ids : stamp[id] # 0}

\* What deletions under way know of their keys.
ErasersInv ==
    /\ \A e \in Erasers : eraser[e].keys \subseteq Saved
    /\ \A e \in Erasers : eraser[e].pc \in {"zrem", "clear_index"}
                            => eraser[e].keys \cap Live = {}
    /\ \A e \in Erasers : eraser[e].pc = "clear_keys"
                            => Live \subseteq eraser[e].keys \cup overlapped
    /\ \A e \in Erasers : eraser[e].pc = "clear_index" => Live \subseteq overlapped
    /\ deleted \subseteq Saved /\ deleted \cap Live = {}

StoreInv == TypeOK /\ ErasersInv /\ LiveIndexed /\ DeletedLeavesIndex

\* What a listing under way knows of its page, as long as nothing was saved under
\* a clear_all.
PageInv(me) ==
    /\ me.todo \subseteq Saved /\ Range_(me.shown) \subseteq Saved
    /\ Range_(me.shown) \subseteq me.sql
    /\ \A id \in me.todo \cap Live : Matches(id, me.want) => id \in me.sql
    /\ me.sql \subseteq Saved /\ \A id \in me.sql : Matches(id, me.want)
    /\ \A i, j \in 1..Len(me.shown) : i < j => Newer(me.shown[i], me.shown[j])
    /\ \A i \in 1..Len(me.shown), id \in me.todo : Newer(me.shown[i], id)
    /\ me.want # All => me.bare = {}
    /\ me.fits => me.sql \cap Live \subseteq Range_(me.shown) \cup me.todo

ReadersInv ==
    overlapped = {} => \A r \in Readers : reader[r].pc = "reading" => PageInv(reader[r])

-----------------------------------------------------------------------------
ReaderRec ==
    [pc : {"idle", "reading"}, want : Labels \cup {All}, todo : SUBSET Ids,
     shown : Seq(Ids), bare : SUBSET Ids, sql : SUBSET Ids, fits : BOOLEAN]

EraserRec == [pc : {"idle", "zrem", "clear_keys", "clear_index"}, keys : SUBSET Ids]

LEMMA InitStore == Init => StoreInv /\ ReadersInv
BY StoreAssumption
   DEF Init, StoreInv, TypeOK, ErasersInv, LiveIndexed, DeletedLeavesIndex, Live, Saved,
       ReadersInv, Idle, Resting, Ids

\* What reading a row may do to a reader keeps its type.
LEMMA RowTypes ==
    ASSUME NEW x \in ReaderRec, NEW id \in Ids
    PROVE  /\ [x EXCEPT !.todo = @ \ {id}] \in ReaderRec
           /\ [x EXCEPT !.shown = Append(@, id)] \in ReaderRec
           /\ [x EXCEPT !.bare = @ \cup {id}] \in ReaderRec
<1>1. Append(x.shown, id) \in Seq(Ids)
  BY DEF ReaderRec
<1>2. [x EXCEPT !.todo = @ \ {id}] \in ReaderRec
  BY DEF ReaderRec
<1>3. [x EXCEPT !.bare = @ \cup {id}] \in ReaderRec
  BY DEF ReaderRec
<1>4. [x EXCEPT !.shown = Append(@, id)] \in ReaderRec
  BY <1>1 DEF ReaderRec
<1>5. QED
  BY <1>2, <1>3, <1>4

\* The types hold from step to step.
LEMMA TypeStep == TypeOK /\ [Next]_vars => TypeOK'
<1> SUFFICES ASSUME TypeOK, [Next]_vars PROVE TypeOK'
  OBVIOUS
<1> USE DEF TypeOK, Live, Ids
<1>1. CASE UNCHANGED vars
  BY <1>1 DEF vars
<1>2. CASE \E id \in Ids, at \in {now - 1, now} \ {0} : Save(id, at)
  BY <1>2, StoreAssumption DEF Save
<1>3. CASE Tick
  <2>1. \A id \in Ids : (IF left[id] > 0 THEN left[id] - 1 ELSE 0) \in 0..Ttl
    BY StoreAssumption
  <2>2. left' \in [Ids -> 0..Ttl] /\ \A id \in Ids : left[id] = 0 => left'[id] = 0
    BY <1>3, <2>1 DEF Tick
  <2>3. now' \in Nat \ {0}
    BY <1>3 DEF Tick
  <2>4. QED
    BY <1>3, <2>2, <2>3 DEF Tick
<1>4. ASSUME NEW r \in Readers, NEW want \in Filters, Open(r, want) PROVE TypeOK'
  <2>1. Newest(indexed) \subseteq Ids /\ SqlPage(want) \subseteq Ids
    BY DEF Newest, SqlPage
  <2>2. (Cardinality(indexed) <= Limit) \in BOOLEAN /\ <<>> \in Seq(Ids)
    OBVIOUS
  <2>3. QED
    BY <1>4, <2>1, <2>2, StoreAssumption DEF Open
<1>5. ASSUME NEW r \in Readers, NEW id \in Ids, ReadRow(r, id) PROVE TypeOK'
  <2> DEFINE me == reader[r]
             rest == [me EXCEPT !.todo = @ \ {id}]
  <2>1. me \in ReaderRec
    BY DEF ReaderRec
  <2>2. /\ rest \in ReaderRec
        /\ [rest EXCEPT !.shown = Append(@, id)] \in ReaderRec
        /\ [rest EXCEPT !.bare = @ \cup {id}] \in ReaderRec
    <3> HIDE DEF me, TypeOK, Live
    <3>1. rest \in ReaderRec
      BY <2>1, RowTypes
    <3>2. QED
      BY <3>1, RowTypes
  <2>3. reader' \in [Readers -> ReaderRec]
    <3>1. \E rec \in ReaderRec : reader' = [reader EXCEPT ![r] = rec]
      BY <1>5, <2>2 DEF ReadRow
    <3>2. QED
      BY <3>1 DEF ReaderRec
  <2>4. QED
    BY <1>5, <2>3 DEF ReadRow, ReaderRec
<1>6. CASE \E r \in Readers : Close(r)
  <2>1. <<>> \in Seq(Ids)
    OBVIOUS
  <2>2. QED
    BY <1>6, <2>1 DEF Close, Idle
<1>7. ASSUME NEW e \in Erasers, NEW id \in Ids, EraseKey(e, id) PROVE TypeOK'
  <2>1. eraser' \in [Erasers -> EraserRec]
    BY <1>7 DEF EraseKey, EraserRec
  <2>2. left' \in [Ids -> 0..Ttl] /\ \A i \in Ids : left[i] = 0 => left'[i] = 0
    BY <1>7, StoreAssumption DEF EraseKey
  <2>3. deleted' \subseteq Ids
    BY <1>7 DEF EraseKey
  <2>4. QED
    BY <1>7, <2>1, <2>2, <2>3 DEF EraseKey, EraserRec
<1>8. ASSUME NEW e \in Erasers, EraseIndex(e) PROVE TypeOK'
  <2>1. eraser' \in [Erasers -> EraserRec]
    BY <1>8 DEF EraseIndex, Resting, EraserRec
  <2>2. indexed' \subseteq indexed
    BY <1>8 DEF EraseIndex
  <2>3. QED
    BY <1>8, <2>1, <2>2 DEF EraseIndex, EraserRec
<1>9. ASSUME NEW e \in Erasers, ClearScan(e) PROVE TypeOK'
  <2>1. eraser' \in [Erasers -> EraserRec]
    BY <1>9 DEF ClearScan, EraserRec
  <2>2. QED
    BY <1>9, <2>1 DEF ClearScan, EraserRec
<1>10. ASSUME NEW e \in Erasers, ClearKeys(e) PROVE TypeOK'
  <2>1. eraser' \in [Erasers -> EraserRec]
    BY <1>10 DEF ClearKeys, EraserRec
  <2>2. left' \in [Ids -> 0..Ttl] /\ \A i \in Ids : left[i] = 0 => left'[i] = 0
    BY <1>10, StoreAssumption DEF ClearKeys
  <2>3. deleted' \subseteq Ids
    BY <1>10 DEF ClearKeys
  <2>4. QED
    BY <1>10, <2>1, <2>2, <2>3 DEF ClearKeys, EraserRec
<1>11. ASSUME NEW e \in Erasers, ClearIndex(e) PROVE TypeOK'
  <2>1. eraser' \in [Erasers -> EraserRec]
    BY <1>11 DEF ClearIndex, Resting, EraserRec
  <2>2. QED
    BY <1>11, <2>1 DEF ClearIndex, EraserRec
<1>12. ASSUME NEW e \in Erasers, Abandon(e) PROVE TypeOK'
  <2>1. eraser' \in [Erasers -> EraserRec]
    BY <1>12 DEF Abandon, Resting, EraserRec
  <2>2. torn' \subseteq Ids
    BY <1>12 DEF Abandon, EraserRec
  <2>3. QED
    BY <1>12, <2>1, <2>2 DEF Abandon, EraserRec
<1>13. QED
  BY <1>1, <1>2, <1>3, <1>4, <1>5, <1>6, <1>7, <1>8, <1>9, <1>10, <1>11, <1>12 DEF Next

\* What deletions know, LiveIndexed and DeletedLeavesIndex hold from step to step.
LEMMA StoreStep == StoreInv /\ [Next]_vars => StoreInv'
<1> SUFFICES ASSUME StoreInv, [Next]_vars PROVE StoreInv'
  OBVIOUS
<1>0. TypeOK'
  BY TypeStep DEF StoreInv
<1> SUFFICES ErasersInv' /\ LiveIndexed' /\ DeletedLeavesIndex'
  BY <1>0 DEF StoreInv
<1> USE DEF StoreInv, TypeOK, ErasersInv, LiveIndexed, DeletedLeavesIndex, Erasing, Live, Saved
<1>1. CASE UNCHANGED vars
  BY <1>1 DEF vars
<1>2. ASSUME NEW id \in Ids, NEW at \in {now - 1, now} \ {0}, Save(id, at)
      PROVE  ErasersInv' /\ LiveIndexed' /\ DeletedLeavesIndex'
  <2>1. Live' \subseteq Live \cup {id} /\ Saved \subseteq Saved' /\ id \notin Saved
    BY <1>2 DEF Save
  <2>2. overlapped \subseteq overlapped' /\ (Clearing => id \in overlapped')
    BY <1>2 DEF Save
  <2>3. ErasersInv'
    BY <1>2, <2>1, <2>2 DEF Save, Clearing
  <2>4. LiveIndexed' /\ DeletedLeavesIndex'
    BY <1>2, <2>1, <2>2 DEF Save
  <2>5. QED
    BY <2>3, <2>4
<1>3. CASE Tick
  <2>1. Live' \subseteq Live
    BY <1>3 DEF Tick
  <2>2. QED
    BY <1>3, <2>1 DEF Tick
<1>4. CASE \/ \E r \in Readers, want \in Filters : Open(r, want)
           \/ \E r \in Readers, id \in Ids : ReadRow(r, id)
           \/ \E r \in Readers : Close(r)
  BY <1>4 DEF Open, ReadRow, Close
<1>5. ASSUME NEW e \in Erasers, NEW id \in Ids, EraseKey(e, id)
      PROVE  ErasersInv' /\ LiveIndexed' /\ DeletedLeavesIndex'
  <2>1. Live' = Live \ {id} /\ id \in Saved
    BY <1>5 DEF EraseKey
  <2>2. \A o \in Erasers : eraser'[o] = IF o = e THEN [pc |-> "zrem", keys |-> {id}]
                                         ELSE eraser[o]
    BY <1>5 DEF EraseKey
  <2>3. ErasersInv'
    BY <1>5, <2>1, <2>2 DEF EraseKey
  <2>4. LiveIndexed' /\ DeletedLeavesIndex'
    BY <1>5, <2>1, <2>2 DEF EraseKey
  <2>5. QED
    BY <2>3, <2>4
<1>6. ASSUME NEW e \in Erasers, EraseIndex(e)
      PROVE  ErasersInv' /\ LiveIndexed' /\ DeletedLeavesIndex'
  BY <1>6 DEF EraseIndex, Resting
<1>7. ASSUME NEW e \in Erasers, ClearScan(e)
      PROVE  ErasersInv' /\ LiveIndexed' /\ DeletedLeavesIndex'
  BY <1>7 DEF ClearScan
<1>8. ASSUME NEW e \in Erasers, ClearKeys(e)
      PROVE  ErasersInv' /\ LiveIndexed' /\ DeletedLeavesIndex'
  <2>1. Live' = Live \ eraser[e].keys
    BY <1>8 DEF ClearKeys
  <2>2. \A o \in Erasers : /\ eraser'[o].keys = eraser[o].keys
                            /\ eraser'[o].pc = IF o = e THEN "clear_index" ELSE eraser[o].pc
    BY <1>8 DEF ClearKeys
  <2>3. ErasersInv'
    BY <1>8, <2>1, <2>2 DEF ClearKeys
  <2>4. LiveIndexed' /\ DeletedLeavesIndex'
    BY <1>8, <2>1, <2>2 DEF ClearKeys
  <2>5. QED
    BY <2>3, <2>4
<1>9. ASSUME NEW e \in Erasers, ClearIndex(e)
      PROVE  ErasersInv' /\ LiveIndexed' /\ DeletedLeavesIndex'
  BY <1>9 DEF ClearIndex, Resting
<1>10. ASSUME NEW e \in Erasers, Abandon(e)
      PROVE  ErasersInv' /\ LiveIndexed' /\ DeletedLeavesIndex'
  BY <1>10 DEF Abandon, Resting
<1>11. QED
  BY <1>1, <1>2, <1>3, <1>4, <1>5, <1>6, <1>7, <1>8, <1>9, <1>10 DEF Next

-----------------------------------------------------------------------------
\* A page cut from an index that holds every living session keeps those that SQL
\* keeps, as far as it goes, and goes all the way when the index fits in it.
LEMMA PageAgainstSql ==
    ASSUME TypeOK, Live \subseteq indexed, NEW want \in Filters
    PROVE  /\ \A id \in Newest(indexed) \cap Live : Matches(id, want) => id \in SqlPage(want)
           /\ Cardinality(indexed) <= Limit => SqlPage(want) \cap Live \subseteq Newest(indexed)
<1> DEFINE Table == {id \in Live : Matches(id, want)}
           Above(S, id) == {j \in S : Newer(j, id)}
<1>1. IsFiniteSet(indexed) /\ Cardinality(indexed) \in Nat
  <2>1. IsFiniteSet(Ids)
    BY FS_Interval, StoreAssumption DEF Ids
  <2>2. QED
    BY <2>1, FS_Subset, FS_CardinalityType DEF TypeOK
<1>2. ASSUME NEW id \in Newest(indexed) \cap Live, Matches(id, want)
      PROVE  id \in SqlPage(want)
  <2>1. Above(Table, id) \subseteq Above(indexed, id) /\ Above(indexed, id) \subseteq indexed
    OBVIOUS
  <2>2. IsFiniteSet(Above(indexed, id))
    BY <1>1, <2>1, FS_Subset
  <2>3. Cardinality(Above(Table, id)) <= Cardinality(Above(indexed, id))
    BY <2>1, <2>2, FS_Subset
  <2>4. /\ Cardinality(Above(Table, id)) \in Nat
        /\ Cardinality(Above(indexed, id)) \in Nat
    BY <2>1, <2>2, FS_Subset, FS_CardinalityType
  <2>5. Cardinality(Above(indexed, id)) < Limit
    BY <1>2 DEF Newest
  <2>6. Cardinality(Above(Table, id)) < Limit
    BY <2>3, <2>4, <2>5, StoreAssumption
  <2>7. QED
    BY <1>2, <2>6 DEF SqlPage, Newest
<1>3. ASSUME Cardinality(indexed) <= Limit, NEW id \in SqlPage(want) \cap Live
      PROVE  id \in Newest(indexed)
  <2>1. id \in indexed /\ stamp[id] \in Nat /\ id \in Int
    <3>1. id \in indexed
      BY <1>3
    <3>2. id \in Ids
      BY <3>1 DEF TypeOK
    <3>3. QED
      BY <3>1, <3>2, StoreAssumption DEF TypeOK, Ids
  <2>2. ~Newer(id, id)
    BY <2>1 DEF Newer
  <2>3. Above(indexed, id) \subseteq indexed /\ Above(indexed, id) # indexed
    BY <2>1, <2>2
  <2>4. /\ Cardinality(Above(indexed, id)) <= Cardinality(indexed)
        /\ Cardinality(Above(indexed, id)) # Cardinality(indexed)
        /\ Cardinality(Above(indexed, id)) \in Nat
    BY <1>1, <2>3, FS_Subset, FS_CardinalityType
  <2>5. Cardinality(Above(indexed, id)) < Limit
    BY <1>1, <1>3, <2>4, StoreAssumption
  <2>6. QED
    BY <2>1, <2>5 DEF Newest
<1>4. QED
  BY <1>2, <1>3

\* What a listing knows holds from step to step.
LEMMA ReadersStep == StoreInv /\ ReadersInv /\ [Next]_vars => ReadersInv'
<1> SUFFICES ASSUME StoreInv, ReadersInv, [Next]_vars, overlapped' = {},
                    NEW r \in Readers, reader'[r].pc = "reading"
             PROVE  PageInv(reader[r])'
  BY DEF ReadersInv
<1>1. TypeOK /\ TypeOK'
  BY TypeStep DEF StoreInv
<1>2. overlapped = {}
  BY DEF Next, vars, Save, Tick, Open, ReadRow, Close, EraseKey, EraseIndex, ClearScan,
         ClearKeys, ClearIndex, Abandon
<1>3. Live \subseteq indexed
  BY <1>2 DEF StoreInv, LiveIndexed
<1>4. ASSUME reader'[r] = reader[r],
             \A i \in Saved : stamp'[i] = stamp[i] /\ (left'[i] > 0 => left[i] > 0)
      PROVE  PageInv(reader[r])'
  <2> DEFINE me == reader[r]
  <2>1. PageInv(me)
    BY <1>2, <1>4 DEF ReadersInv
  <2>2. \A i, j \in Saved : Newer(i, j)' <=> Newer(i, j)
    BY <1>4 DEF Newer
  <2>3. Saved \subseteq Saved' /\ Live' \cap Saved \subseteq Live
    BY <1>4 DEF Saved, Live
  <2>4. me.shown \in Seq(Ids) /\ \A i \in 1..Len(me.shown) : me.shown[i] \in Saved
    <3>1. me.shown \in Seq(Ids)
      BY <1>1 DEF TypeOK
    <3>2. \A i \in 1..Len(me.shown) : me.shown[i] \in Range_(me.shown)
      BY DEF Range_
    <3>3. Range_(me.shown) \subseteq Saved
      BY <2>1 DEF PageInv
    <3>4. QED
      BY <3>1, <3>2, <3>3
  <2>5. /\ me.todo \subseteq Saved' /\ Range_(me.shown) \subseteq Saved'
        /\ Range_(me.shown) \subseteq me.sql
        /\ me.sql \subseteq Saved' /\ \A id \in me.sql : Matches(id, me.want)
        /\ me.want # All => me.bare = {}
    BY <2>1, <2>3 DEF PageInv
  <2>6. \A id \in me.todo \cap Live' : Matches(id, me.want) => id \in me.sql
    BY <2>1, <2>3 DEF PageInv
  <2>7. /\ \A i, j \in 1..Len(me.shown) : i < j => Newer(me.shown[i], me.shown[j])'
        /\ \A i \in 1..Len(me.shown), id \in me.todo : Newer(me.shown[i], id)'
    <3>1. me' = me
      BY <1>4
    <3>2. \A i, j \in 1..Len(me.shown) : i < j =>
             (Newer(me.shown[i], me.shown[j])' <=> Newer(me.shown[i], me.shown[j]))
      BY <1>4, <2>4 DEF Newer
    <3>3. \A i \in 1..Len(me.shown), id \in me.todo :
             Newer(me.shown[i], id)' <=> Newer(me.shown[i], id)
      BY <1>4, <2>1, <2>4 DEF Newer, PageInv
    <3>4. QED
      BY <2>1, <3>2, <3>3 DEF PageInv
  <2>8. me.fits => me.sql \cap Live' \subseteq Range_(me.shown) \cup me.todo
    BY <2>1, <2>3 DEF PageInv
  <2>9. QED
    BY <1>4, <2>5, <2>6, <2>7, <2>8 DEF PageInv, Matches, Range_
<1>5. ASSUME UNCHANGED <<stamp, left>>
      PROVE  \A i \in Saved : stamp'[i] = stamp[i] /\ (left'[i] > 0 => left[i] > 0)
  BY <1>5
<1>6. ASSUME NEW o \in Readers, NEW want \in Filters, Open(o, want) PROVE PageInv(reader[r])'
  <2>1. CASE o # r
    <3>1. reader'[r] = reader[r] /\ UNCHANGED <<stamp, left>>
      BY <1>1, <1>6, <2>1 DEF Open, TypeOK
    <3>2. QED
      BY <1>4, <1>5, <3>1
  <2>2. CASE o = r
    <3> DEFINE me == [pc |-> "reading", want |-> want, todo |-> Newest(indexed),
                      shown |-> <<>>, bare |-> {}, sql |-> SqlPage(want),
                      fits |-> Cardinality(indexed) <= Limit]
    <3>1. reader'[r] = me /\ UNCHANGED <<stamp, left, indexed>>
      BY <1>1, <1>6, <2>2 DEF Open, TypeOK
    <3>2. Newest(indexed) \subseteq Saved
      BY <1>1 DEF Newest, TypeOK, Saved
    <3>3. SqlPage(want) \subseteq Saved /\ \A id \in SqlPage(want) : Matches(id, want)
      BY <1>1 DEF SqlPage, Newest, TypeOK, Saved, Live
    <3>4. PageInv(me)
      <4>1. /\ \A id \in Newest(indexed) \cap Live : Matches(id, want) => id \in SqlPage(want)
            /\ Cardinality(indexed) <= Limit
                 => SqlPage(want) \cap Live \subseteq Newest(indexed)
        BY <1>1, <1>3, PageAgainstSql
      <4>2. Range_(me.shown) = {} /\ 1..Len(me.shown) = {}
        BY DEF Range_
      <4>3. me.fits => me.sql \cap Live \subseteq Range_(me.shown) \cup me.todo
        BY <4>1
      <4>4. /\ me.todo \subseteq Saved /\ Range_(me.shown) \subseteq Saved
            /\ Range_(me.shown) \subseteq me.sql /\ me.sql \subseteq Saved
            /\ \A id \in me.todo \cap Live : Matches(id, me.want) => id \in me.sql
            /\ \A id \in me.sql : Matches(id, me.want)
        BY <3>2, <3>3, <4>1, <4>2
      <4>5. QED
        BY <4>2, <4>3, <4>4 DEF PageInv
    <3>5. Saved' = Saved /\ Live' = Live
      BY <3>1 DEF Saved, Live
    <3>6. QED
      BY <3>1, <3>4, <3>5 DEF PageInv, Newer, Matches, Range_
  <2>3. QED
    BY <2>1, <2>2
<1>7. ASSUME NEW o \in Readers, NEW id \in Ids, ReadRow(o, id) PROVE PageInv(reader[r])'
  <2>1. CASE o # r
    <3>1. reader'[r] = reader[r] /\ UNCHANGED <<stamp, left>>
      BY <1>1, <1>7, <2>1 DEF ReadRow, TypeOK
    <3>2. QED
      BY <1>4, <1>5, <3>1
  <2>2. CASE o = r
    <3> DEFINE me == reader[r]
               you == reader'[r]
    <3>1. UNCHANGED <<stamp, left>> /\ Saved' = Saved /\ Live' = Live
      BY <1>7 DEF ReadRow, Saved, Live
    <3>2. /\ me \in ReaderRec /\ me.pc = "reading" /\ id \in me.todo
          /\ \A j \in me.todo \ {id} : Newer(id, j)
      BY <1>1, <1>7, <2>2 DEF ReadRow, TypeOK, ReaderRec
    <3>3. PageInv(me)
      BY <1>2, <3>2 DEF ReadersInv
    <3>4. /\ you.todo = me.todo \ {id} /\ you.want = me.want /\ you.sql = me.sql
          /\ you.fits = me.fits
      BY <1>1, <1>7, <2>2 DEF ReadRow, TypeOK
    <3>5. CASE id \in Live /\ Matches(id, me.want)
      <4>1. you.shown = Append(me.shown, id) /\ you.bare = me.bare
        BY <1>1, <1>7, <2>2, <3>5 DEF ReadRow, TypeOK
      <4>2. /\ Len(you.shown) = Len(me.shown) + 1 /\ Len(me.shown) \in Nat
            /\ \A i \in 1..Len(me.shown) : you.shown[i] = me.shown[i]
            /\ you.shown[Len(me.shown) + 1] = id
        <5>1. me.shown \in Seq(Ids) /\ id \in Ids
          BY <1>7, <3>2 DEF ReaderRec
        <5> DEFINE s == me.shown
        <5>2. /\ Len(Append(s, id)) = Len(s) + 1 /\ Len(s) \in Nat
              /\ \A i \in 1..Len(s) : Append(s, id)[i] = s[i]
              /\ Append(s, id)[Len(s) + 1] = id
          <6> HIDE DEF s, me
          <6>1. s \in Seq(Ids)
            BY <5>1 DEF s
          <6>2. QED
            BY <5>1, <6>1
        <5>3. QED
          BY <4>1, <5>2
      <4>3. Range_(you.shown) = Range_(me.shown) \cup {id}
        <5> DEFINE s == me.shown
                   t == you.shown
                   n == Len(me.shown)
        <5>1. /\ n \in Nat /\ Len(t) = n + 1 /\ t[n + 1] = id
              /\ \A i \in 1..n : t[i] = s[i]
          BY <4>2
        <5> HIDE DEF s, t, n
        <5>2. 1..(n + 1) = (1..n) \cup {n + 1}
          BY <5>1
        <5>3. {t[i] : i \in 1..(n + 1)} = {t[i] : i \in 1..n} \cup {id}
          BY <5>1, <5>2
        <5>4. {t[i] : i \in 1..n} = {s[i] : i \in 1..n}
          BY <5>1
        <5>5. QED
          BY <5>1, <5>3, <5>4 DEF Range_, s, t, n
      <4>4. id \in me.sql
        BY <3>2, <3>3, <3>5 DEF PageInv
      <4>5. /\ \A i, j \in 1..Len(you.shown) : i < j => Newer(you.shown[i], you.shown[j])
            /\ \A i \in 1..Len(you.shown), k \in you.todo : Newer(you.shown[i], k)
        <5>1. \A i, j \in 1..Len(me.shown) : i < j => Newer(me.shown[i], me.shown[j])
          BY <3>3 DEF PageInv
        <5>2. \A i \in 1..Len(me.shown), k \in me.todo : Newer(me.shown[i], k)
          BY <3>3 DEF PageInv
        <5>0. \A i \in 1..Len(you.shown) : i \in 1..Len(me.shown) \/ i = Len(me.shown) + 1
          <6> DEFINE n == Len(me.shown)
                     m == Len(you.shown)
          <6>1. n \in Nat /\ m = n + 1
            BY <4>2
          <6> HIDE DEF n, m
          <6>2. \A i \in 1..m : i \in 1..n \/ i = n + 1
            BY <6>1
          <6>3. QED
            BY <6>2 DEF n, m
        <5>3. ASSUME NEW i \in 1..Len(you.shown), NEW j \in 1..Len(you.shown), i < j
              PROVE  Newer(you.shown[i], you.shown[j])
          <6>1. i \in 1..Len(me.shown)
            BY <4>2, <5>3
          <6>2. CASE j \in 1..Len(me.shown)
            BY <4>2, <5>1, <5>3, <6>1, <6>2
          <6>3. CASE j = Len(me.shown) + 1
            BY <3>2, <4>2, <5>2, <6>1, <6>3
          <6>4. QED
            BY <5>0, <6>2, <6>3
        <5>4. ASSUME NEW i \in 1..Len(you.shown), NEW k \in you.todo
              PROVE  Newer(you.shown[i], k)
          <6>1. CASE i \in 1..Len(me.shown)
            BY <3>4, <4>2, <5>2, <6>1
          <6>2. CASE i = Len(me.shown) + 1
            BY <3>2, <3>4, <4>2, <6>2
          <6>3. QED
            BY <5>0, <6>1, <6>2
        <5>5. QED
          BY <5>3, <5>4
      <4>6. /\ you.todo \subseteq Saved /\ Range_(you.shown) \subseteq Saved
            /\ Range_(you.shown) \subseteq you.sql
            /\ \A k \in you.todo \cap Live : Matches(k, you.want) => k \in you.sql
            /\ you.sql \subseteq Saved /\ \A k \in you.sql : Matches(k, you.want)
            /\ you.want # All => you.bare = {}
            /\ you.fits => you.sql \cap Live \subseteq Range_(you.shown) \cup you.todo
        BY <3>2, <3>3, <3>4, <4>1, <4>3, <4>4 DEF PageInv
      <4>7. QED
        BY <3>1, <4>5, <4>6 DEF PageInv, Newer, Matches, Range_
    <3>6. CASE ~(id \in Live /\ Matches(id, me.want))
      <4>1. you.shown = me.shown /\ (me.want # All => you.bare = me.bare)
        BY <1>1, <1>7, <2>2, <3>6 DEF ReadRow, TypeOK
      <4>2. id \notin me.sql \cap Live
        BY <3>3, <3>6 DEF PageInv
      <4>3. PageInv(you)
        BY <3>3, <3>4, <4>1, <4>2 DEF PageInv
      <4>4. QED
        BY <3>1, <4>3 DEF PageInv, Newer, Matches, Range_
    <3>7. QED
      BY <3>5, <3>6
  <2>3. QED
    BY <2>1, <2>2
<1>8. ASSUME NEW o \in Readers, Close(o) PROVE PageInv(reader[r])'
  <2>1. o # r /\ reader'[r] = reader[r] /\ UNCHANGED <<stamp, left>>
    BY <1>1, <1>8 DEF Close, Idle, TypeOK
  <2>2. QED
    BY <1>4, <1>5, <2>1
<1>9. ASSUME NEW id \in Ids, NEW at \in {now - 1, now} \ {0}, Save(id, at)
      PROVE  PageInv(reader[r])'
  <2>1. /\ reader' = reader
        /\ \A i \in Saved : stamp'[i] = stamp[i] /\ (left'[i] > 0 => left[i] > 0)
    BY <1>1, <1>9 DEF Save, Saved, TypeOK
  <2>2. QED
    BY <1>4, <2>1
<1>10. CASE \/ UNCHANGED vars \/ Tick
            \/ \E e \in Erasers, id \in Ids : EraseKey(e, id)
            \/ \E e \in Erasers : EraseIndex(e) \/ ClearScan(e) \/ ClearKeys(e)
                                  \/ ClearIndex(e) \/ Abandon(e)
  <2>1. reader' = reader /\ stamp' = stamp
    BY <1>10 DEF vars, Tick, EraseKey, EraseIndex, ClearScan, ClearKeys, ClearIndex, Abandon
  <2>2. \A i \in Ids : left'[i] > 0 => left[i] > 0
    BY <1>1, <1>10 DEF vars, Tick, EraseKey, EraseIndex, ClearScan, ClearKeys, ClearIndex,
                       Abandon, TypeOK
  <2>3. QED
    BY <1>4, <2>1, <2>2 DEF Saved
<1>11. QED
  BY <1>6, <1>7, <1>8, <1>9, <1>10 DEF Next

-----------------------------------------------------------------------------
THEOREM StoreInvariant == Spec => [](StoreInv /\ ReadersInv)
<1>1. Init => StoreInv /\ ReadersInv
  BY InitStore
<1>2. StoreInv /\ ReadersInv /\ [Next]_vars => (StoreInv /\ ReadersInv)'
  BY StoreStep, ReadersStep
<1>3. QED
  BY <1>1, <1>2, PTL DEF Spec

\* Every variable keeps its type, whatever readers and erasers do.
THEOREM TypeCorrect == Spec => []TypeOK
<1>1. StoreInv => TypeOK
  BY DEF StoreInv
<1>2. QED
  BY <1>1, StoreInvariant, PTL

\* A session that can be loaded can be found, unless it was saved under a clear_all.
THEOREM LiveIsIndexed == Spec => []LiveIndexed
<1>1. StoreInv => LiveIndexed
  BY DEF StoreInv
<1>2. QED
  BY <1>1, StoreInvariant, PTL

\* A deleted session leaves the index with its deletion.
THEOREM DeletedIsUnindexed == Spec => []DeletedLeavesIndex
<1>1. StoreInv => DeletedLeavesIndex
  BY DEF StoreInv
<1>2. QED
  BY <1>1, StoreInvariant, PTL

\* A listing shows nothing that PostgreSQL would not, and all of it where the
\* index fits in the page, for any page size and any interleaving.
THEOREM ListingIsSql == Spec => []ListingAgrees
<1>1. ReadersInv => ListingAgrees
  BY DEF ReadersInv, ListingAgrees, PageInv
<1>2. QED
  BY <1>1, StoreInvariant, PTL

=============================================================================
