------------------------------ MODULE TaskQueue ------------------------------
(***************************************************************************)
(* The API's in-memory task store (apps/api/main.py): the records of _tasks *)
(* in insertion order, the asyncio tasks that run them, and the handles     *)
(* through which DELETE cancels them.                                       *)
(*                                                                          *)
(* Handlers run on one event loop, so what a handler does between two       *)
(* awaits is one step.  _run_task has one await, orch.execute: it starts in *)
(* one step and ends in another.                                            *)
(***************************************************************************)
EXTENDS Integers, Sequences, FiniteSets, SequencesExt

CONSTANTS
    Ids,        \* uuid4 task ids; each is drawn at most once
    MaxTasks    \* _MAX_TASKS

ASSUME QueueAssumption == MaxTasks \in Nat \ {0}

VARIABLES
    tasks,      \* keys of _tasks, oldest first
    status,     \* _tasks[id]["status"]; "none" without a record
    handles,    \* keys of _task_handles
    aio,        \* the asyncio task running _run_task(id)
    cancelled,  \* asyncio tasks with a cancellation not yet delivered
    absorbed    \* history, never read: tasks that outlived their cancellation

queueVars == <<tasks, status, handles, aio, cancelled, absorbed>>

Recorded == ToSet(tasks)

InitQueue ==
    /\ tasks = <<>>
    /\ status = [id \in Ids |-> "none"]
    /\ handles = {}
    /\ aio = [id \in Ids |-> "new"]
    /\ cancelled = {}
    /\ absorbed = {}

-----------------------------------------------------------------------------
\* Mutant: while len(_tasks) >= _MAX_TASKS.
Overflow_OffByOne(s) == IF Len(s) >= MaxTasks THEN Len(s) - MaxTasks + 1 ELSE 0

\* How many records the eviction loop pops: while len(_tasks) > _MAX_TASKS.
Overflow(s) == IF Len(s) > MaxTasks THEN Len(s) - MaxTasks ELSE 0

\* popitem(last=False): the oldest go.
Evicted(s) == {s[i] : i \in 1..Overflow(s)}
Kept(s) == SubSeq(s, Overflow(s) + 1, Len(s))

\* submit_task: record, evict, create the asyncio task.  An evicted record's
\* handle and asyncio task are left alone.
Submit(id) ==
    LET grown == Append(tasks, id)
    IN  /\ aio[id] = "new"
        /\ tasks' = Kept(grown)
        /\ status' = [i \in Ids |-> IF i \in Evicted(grown) THEN "none"
                                    ELSE IF i = id THEN "queued" ELSE status[i]]
        /\ aio' = [aio EXCEPT ![id] = "scheduled"]
        /\ handles' = handles \cup {id}
        /\ UNCHANGED <<cancelled, absorbed>>

\* del _tasks[id]
Forget(id) ==
    /\ \E i \in DOMAIN tasks : tasks[i] = id /\ tasks' = RemoveAt(tasks, i)
    /\ status' = [status EXCEPT ![id] = "none"]

Delete_KeepsHandle(id) ==
    /\ id \in Recorded
    /\ cancelled' = IF id \in handles THEN cancelled \cup {id} ELSE cancelled
    /\ Forget(id)
    /\ UNCHANGED <<aio, handles, absorbed>>

Delete_WithoutCancel(id) ==
    /\ id \in Recorded
    /\ handles' = handles \ {id}
    /\ Forget(id)
    /\ UNCHANGED <<aio, cancelled, absorbed>>

Delete_KeepsRecord(id) ==
    /\ id \in Recorded
    /\ handles' = handles \ {id}
    /\ cancelled' = IF id \in handles THEN cancelled \cup {id} ELSE cancelled
    /\ UNCHANGED <<tasks, status, aio, absorbed>>

\* delete_task: take the handle, cancel it unless done, drop the record.
Delete(id) ==
    /\ id \in Recorded
    /\ handles' = handles \ {id}
    /\ cancelled' = IF id \in handles /\ aio[id] # "done" THEN cancelled \cup {id}
                    ELSE cancelled
    /\ Forget(id)
    /\ UNCHANGED <<aio, absorbed>>

-----------------------------------------------------------------------------
\* _run_task returns: its finally clause drops the handle.
Ended_KeepsHandle(id) ==
    /\ aio' = [aio EXCEPT ![id] = "done"]
    /\ UNCHANGED <<handles, tasks, cancelled, absorbed>>

Ended(id) ==
    /\ aio' = [aio EXCEPT ![id] = "done"]
    /\ handles' = handles \ {id}
    /\ UNCHANGED <<tasks, cancelled, absorbed>>

\* The first step of _run_task: return if the record is gone; else mark it
\* running and enter orch.execute, or fail in _make_orchestrator.
Start(id) ==
    /\ aio[id] = "scheduled" /\ id \notin cancelled
    /\ \/ /\ id \notin Recorded
          /\ Ended(id)
          /\ UNCHANGED status
       \/ /\ id \in Recorded
          /\ aio' = [aio EXCEPT ![id] = "running"]
          /\ status' = [status EXCEPT ![id] = "running"]
          /\ UNCHANGED <<tasks, handles, cancelled, absorbed>>
       \/ /\ id \in Recorded
          /\ Ended(id)
          /\ status' = [status EXCEPT ![id] = "failed"]

Finish_WritesAnyway(id) ==
    /\ aio[id] = "running" /\ id \notin cancelled
    /\ Ended(id)
    /\ \E verdict \in {"complete", "failed"} : status' = [status EXCEPT ![id] = verdict]

\* orch.execute returned or raised: write the verdict, unless the record is gone.
Finish(id) ==
    /\ aio[id] = "running" /\ id \notin cancelled
    /\ Ended(id)
    /\ \E verdict \in {"complete", "failed"} :
         status' = IF id \in Recorded THEN [status EXCEPT ![id] = verdict] ELSE status

\* A cancellation reaches the asyncio task.  One that has not started never runs
\* its body, the finally clause included.
CancelUnstarted(id) ==
    /\ aio[id] = "scheduled" /\ id \in cancelled
    /\ aio' = [aio EXCEPT ![id] = "done"]
    /\ cancelled' = cancelled \ {id}
    /\ UNCHANGED <<tasks, status, handles, absorbed>>

CancelRunning(id) ==
    /\ aio[id] = "running" /\ id \in cancelled
    /\ aio' = [aio EXCEPT ![id] = "done"]
    /\ handles' = handles \ {id}
    /\ cancelled' = cancelled \ {id}
    /\ UNCHANGED <<tasks, status, absorbed>>

\* ... or comes together with the result it waits for and is absorbed, as
\* asyncio.wait_for does before Python 3.12 (pyproject.toml allows 3.9).
CancelLost(id) ==
    /\ aio[id] = "running" /\ id \in cancelled
    /\ cancelled' = cancelled \ {id}
    /\ absorbed' = absorbed \cup {id}
    /\ UNCHANGED <<tasks, status, handles, aio>>

Run(id) == Start(id) \/ Finish(id) \/ CancelUnstarted(id) \/ CancelRunning(id)

NextQueue ==
    \E id \in Ids :
      \/ Submit(id)
      \/ Delete(id)
      \/ Start(id)
      \/ Finish(id)
      \/ CancelUnstarted(id)
      \/ CancelRunning(id)
      \/ CancelLost(id)

QueueSpec == InitQueue /\ [][NextQueue]_queueVars

\* The event loop runs every ready task, and orch.execute ends: every provider
\* call in it is under asyncio.wait_for (providers/adapters.py).
FairQueueSpec == QueueSpec /\ \A id \in Ids : WF_queueVars(Run(id))

-----------------------------------------------------------------------------
\* Every variable keeps its type; a record has a status and nothing else has.
QueueTypeOK ==
    /\ tasks \in Seq(Ids) /\ IsInjective(tasks)
    /\ status \in [Ids -> {"none", "queued", "running", "complete", "failed"}]
    /\ \A id \in Ids : status[id] # "none" <=> id \in Recorded
    /\ handles \subseteq Ids
    /\ aio \in [Ids -> {"new", "scheduled", "running", "done"}]
    /\ cancelled \subseteq Ids /\ absorbed \subseteq Ids

Shows ==
    [scheduled |-> {"queued"}, running |-> {"running"}, done |-> {"complete", "failed"}]

\* What GET answers is what the asyncio task is really doing, whatever raced:
\* no record says "running" of a task that is dead, cancelled or not started,
\* and no finished task waits for a verdict (main.py:78-107).
RecordTellsTruth ==
    \A id \in Recorded : status[id] \in Shows[aio[id]] /\ id \notin cancelled

\* DELETE can reach every recorded task that still runs, and _task_handles
\* keeps nothing of a task that ended, however it ended: a cancellation before
\* the first step runs no finally clause.
HandlesAreLive ==
    /\ \A id \in handles : aio[id] \in {"scheduled", "running"}
    /\ \A id \in Recorded : aio[id] \in {"scheduled", "running"} => id \in handles

\* Work goes on without a record only for an evicted task, whose handle stays,
\* or when the cancellation was absorbed: DELETE leaves nothing running
\* (tests/test_api.py:4-6).
DeleteStopsWork ==
    \A id \in Ids :
      aio[id] \in {"scheduled", "running"} /\ id \notin Recorded
        => id \in handles \cup cancelled \cup absorbed

Succeeds(before, after) ==
    \/ before = after
    \/ before = "none" /\ after = "queued"
    \/ before = "queued" /\ after \in {"running", "failed", "none"}
    \/ before = "running" /\ after \in {"complete", "failed", "none"}
    \/ after = "none"

\* docs/API.md: queued -> running -> complete | failed.  A late run never revives
\* a record that was deleted or evicted, nor rewrites a verdict.
Lifecycle ==
    [][\A id \in Ids :
         /\ Succeeds(status[id], status'[id])
         /\ (aio[id] # "new" /\ id \notin Recorded) => id \notin Recorded']_queueVars

\* The store never holds more than MaxTasks records, and forgets one on its own
\* only when it is then full of newer ones.
EvictsOnlyWhenFull ==
    [][/\ Len(tasks') <= MaxTasks
       /\ \A id \in Recorded \ Recorded' :
            (\E new \in Recorded' : new \notin Recorded) =>
              /\ Len(tasks') = MaxTasks
              /\ \A i \in 1..Len(tasks) :
                   tasks[i] \in Recorded' => \E j \in 1..i : tasks[j] = id]_queueVars

\* Every task that was submitted ends, and leaves no handle: nothing is stuck in
\* "queued" or "running" for ever.
EveryTaskEnds ==
    \A id \in Ids :
      aio[id] = "scheduled" ~> (aio[id] = "done" /\ id \notin handles)

=============================================================================
