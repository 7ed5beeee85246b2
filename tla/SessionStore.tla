---------------------------- MODULE SessionStore ----------------------------
(***************************************************************************)
(* RedisSessionStore (core/sessions/store.py): one key per session, which   *)
(* expires, and one sorted set that indexes the sessions by the time they   *)
(* were saved.  save() writes both in one MULTI; every other operation is a *)
(* sequence of commands with an await between two of them, so expiry, saves *)
(* and deletions fall in between.                                           *)
(*                                                                          *)
(* SqlPage is what PgSessionStore answers to the same question from a table *)
(* of the sessions that are alive: the specification of a listing.          *)
(*                                                                          *)
(* A session is saved once, under a fresh uuid (thesis_flow.py).  load and  *)
(* count only read, in one command.                                         *)
(***************************************************************************)
EXTENDS Integers, Sequences, FiniteSets

CONSTANTS
    N,          \* session ids are 1..N, in the order Redis breaks ties
    Labels,     \* what the filters look at: (discipline, status)
    Label,      \* the label of each session
    All,        \* no filter
    Filters,    \* what the callers ask for
    Limit,      \* list_sessions' limit, with offset 0
    Ttl,        \* session_ttl_seconds, in ticks
    MaxTime,    \* bound on the clock
    Readers,    \* callers of list_sessions
    Erasers     \* callers of delete and clear_all

Ids == 1..N

ASSUME StoreAssumption ==
    /\ N \in Nat /\ Limit \in Nat \ {0} /\ Ttl \in Nat \ {0} /\ MaxTime \in Nat
    /\ Label \in [Ids -> Labels] /\ All \notin Labels /\ Filters \subseteq Labels \cup {All}

VARIABLES
    now,        \* ticks
    stamp,      \* the score save() gave each session; 0 before it is saved
    left,       \* ticks until the session's key expires; 0 without a key
    indexed,    \* members of sessions:index
    reader,     \* list_sessions under way
    eraser,     \* delete and clear_all under way
    overlapped, \* history: sessions saved while a clear_all was under way
    deleted,    \* history: sessions whose key was deleted, not expired
    torn        \* history: deletions that died before they reached the index

vars == <<now, stamp, left, indexed, reader, eraser, overlapped, deleted, torn>>

Live == {id \in Ids : left[id] > 0}

Idle == [pc |-> "idle", want |-> All, todo |-> {}, shown |-> <<>>, bare |-> {},
         sql |-> {}, fits |-> FALSE]
Resting == [pc |-> "idle", keys |-> {}]

Init ==
    /\ now = 1
    /\ stamp = [id \in Ids |-> 0]
    /\ left = [id \in Ids |-> 0]
    /\ indexed = {}
    /\ reader = [r \in Readers |-> Idle]
    /\ eraser = [e \in Erasers |-> Resting]
    /\ overlapped = {} /\ deleted = {} /\ torn = {}

-----------------------------------------------------------------------------
Clearing == \E e \in Erasers : eraser[e].pc \in {"clear_keys", "clear_index"}

Save_TwoCommands(id, at) ==
    /\ stamp[id] = 0
    /\ stamp' = [stamp EXCEPT ![id] = at]
    /\ left' = [left EXCEPT ![id] = Ttl]
    /\ indexed' \in {indexed, indexed \cup {id}}
    /\ overlapped' = IF Clearing THEN overlapped \cup {id} ELSE overlapped
    /\ UNCHANGED <<now, reader, eraser, deleted, torn>>

\* save: SETEX and ZADD land together.  The score was read when the pipeline was
\* built, so it may be a tick old and older than one that landed before.
Save(id, at) ==
    /\ stamp[id] = 0
    /\ stamp' = [stamp EXCEPT ![id] = at]
    /\ left' = [left EXCEPT ![id] = Ttl]
    /\ indexed' = indexed \cup {id}
    /\ overlapped' = IF Clearing THEN overlapped \cup {id} ELSE overlapped
    /\ UNCHANGED <<now, reader, eraser, deleted, torn>>

\* A tick passes; keys expire, their index entries do not.
Tick ==
    /\ now < MaxTime
    /\ now' = now + 1
    /\ left' = [id \in Ids |-> IF left[id] > 0 THEN left[id] - 1 ELSE 0]
    /\ UNCHANGED <<stamp, indexed, reader, eraser, overlapped, deleted, torn>>

-----------------------------------------------------------------------------
Newer(i, j) == stamp[i] > stamp[j] \/ (stamp[i] = stamp[j] /\ i > j)

\* The Limit newest members of S.
Newest(S) == {id \in S : Cardinality({j \in S : Newer(j, id)}) < Limit}

Matches(id, want) == want \in {All, Label[id]}

\* PgSessionStore.list_sessions: filter, order, then cut.
SqlPage(want) == Newest({id \in Live : Matches(id, want)})

\* ZREVRANGE: cut the page from the index.
Open(r, want) ==
    /\ reader[r].pc = "idle"
    /\ reader' = [reader EXCEPT ![r] =
         [pc |-> "reading", want |-> want, todo |-> Newest(indexed), shown |-> <<>>,
          bare |-> {}, sql |-> SqlPage(want), fits |-> Cardinality(indexed) <= Limit]]
    /\ UNCHANGED <<now, stamp, left, indexed, eraser, overlapped, deleted, torn>>

ReadRow_GhostsPass(r, id) ==
    LET me == reader[r]
        rest == [me EXCEPT !.todo = @ \ {id}]
    IN  /\ me.pc = "reading" /\ id \in me.todo
        /\ \A j \in me.todo \ {id} : Newer(id, j)
        /\ reader' = [reader EXCEPT ![r] =
             IF id \notin Live THEN [rest EXCEPT !.bare = @ \cup {id}]
             ELSE IF ~Matches(id, me.want) THEN rest
             ELSE [rest EXCEPT !.shown = Append(@, id)]]
        /\ UNCHANGED <<now, stamp, left, indexed, eraser, overlapped, deleted, torn>>

\* GET of the next member.  A member whose key is gone has no label: it passes
\* only where there is no filter, as a row with an id and a date.
ReadRow(r, id) ==
    LET me == reader[r]
        rest == [me EXCEPT !.todo = @ \ {id}]
    IN  /\ me.pc = "reading" /\ id \in me.todo
        /\ \A j \in me.todo \ {id} : Newer(id, j)
        /\ reader' = [reader EXCEPT ![r] =
             IF id \in Live /\ Matches(id, me.want) THEN [rest EXCEPT !.shown = Append(@, id)]
             ELSE IF id \notin Live /\ me.want = All THEN [rest EXCEPT !.bare = @ \cup {id}]
             ELSE rest]
        /\ UNCHANGED <<now, stamp, left, indexed, eraser, overlapped, deleted, torn>>

\* The listing is returned.
Close(r) ==
    /\ reader[r].pc = "reading" /\ reader[r].todo = {}
    /\ reader' = [reader EXCEPT ![r] = Idle]
    /\ UNCHANGED <<now, stamp, left, indexed, eraser, overlapped, deleted, torn>>

-----------------------------------------------------------------------------
\* delete: DEL of the key.  It answers 0 for a key that is gone, and then delete
\* does nothing more: the index entry of an expired session stays.
EraseKey(e, id) ==
    /\ eraser[e].pc = "idle" /\ id \in Live
    /\ left' = [left EXCEPT ![id] = 0]
    /\ deleted' = deleted \cup {id}
    /\ eraser' = [eraser EXCEPT ![e] = [pc |-> "zrem", keys |-> {id}]]
    /\ UNCHANGED <<now, stamp, indexed, reader, overlapped, torn>>

EraseIndex_Forgotten(e) ==
    /\ eraser[e].pc = "zrem"
    /\ eraser' = [eraser EXCEPT ![e] = Resting]
    /\ UNCHANGED <<now, stamp, left, indexed, reader, overlapped, deleted, torn>>

\* delete: ZREM.
EraseIndex(e) ==
    /\ eraser[e].pc = "zrem"
    /\ indexed' = indexed \ eraser[e].keys
    /\ eraser' = [eraser EXCEPT ![e] = Resting]
    /\ UNCHANGED <<now, stamp, left, reader, overlapped, deleted, torn>>

\* clear_all: SCAN for the session keys, DEL of those found, if any ...
ClearScan(e) ==
    /\ eraser[e].pc = "idle"
    /\ eraser' = [eraser EXCEPT ![e] = [pc |-> "clear_keys", keys |-> Live]]
    /\ UNCHANGED <<now, stamp, left, indexed, reader, overlapped, deleted, torn>>

ClearKeys(e) ==
    /\ eraser[e].pc = "clear_keys"
    /\ left' = [id \in Ids |-> IF id \in eraser[e].keys THEN 0 ELSE left[id]]
    /\ deleted' = deleted \cup (eraser[e].keys \cap Live)
    /\ eraser' = [eraser EXCEPT ![e].pc = "clear_index"]
    /\ UNCHANGED <<now, stamp, indexed, reader, overlapped, torn>>

\* ... and DEL of the whole index.
ClearIndex(e) ==
    /\ eraser[e].pc = "clear_index"
    /\ indexed' = {}
    /\ eraser' = [eraser EXCEPT ![e] = Resting]
    /\ UNCHANGED <<now, stamp, left, reader, overlapped, deleted, torn>>

\* The caller dies, or Redis fails, before the next command.
Abandon(e) ==
    /\ eraser[e].pc # "idle"
    /\ torn' = torn \cup (eraser[e].keys \ Live)
    /\ eraser' = [eraser EXCEPT ![e] = Resting]
    /\ UNCHANGED <<now, stamp, left, indexed, reader, overlapped, deleted>>

Next ==
    \/ \E id \in Ids, at \in {now - 1, now} \ {0} : Save(id, at)
    \/ Tick
    \/ \E r \in Readers, want \in Filters : Open(r, want)
    \/ \E r \in Readers, id \in Ids : ReadRow(r, id)
    \/ \E r \in Readers : Close(r)
    \/ \E e \in Erasers, id \in Ids : EraseKey(e, id)
    \/ \E e \in Erasers : EraseIndex(e)
    \/ \E e \in Erasers : ClearScan(e)
    \/ \E e \in Erasers : ClearKeys(e)
    \/ \E e \in Erasers : ClearIndex(e)
    \/ \E e \in Erasers : Abandon(e)

Spec == Init /\ [][Next]_vars

-----------------------------------------------------------------------------
\* Every variable keeps its type; nothing is alive, indexed or under way that
\* was never saved.
TypeOK ==
    /\ now \in Nat \ {0}
    /\ stamp \in [Ids -> Nat]
    /\ left \in [Ids -> 0..Ttl]
    /\ reader \in [Readers ->
         [pc : {"idle", "reading"}, want : Labels \cup {All}, todo : SUBSET Ids,
          shown : Seq(Ids), bare : SUBSET Ids, sql : SUBSET Ids, fits : BOOLEAN]]
    /\ eraser \in [Erasers ->
         [pc : {"idle", "zrem", "clear_keys", "clear_index"}, keys : SUBSET Ids]]
    /\ indexed \subseteq Ids /\ overlapped \subseteq Ids
    /\ deleted \subseteq Ids /\ torn \subseteq Ids
    /\ \A id \in Ids : stamp[id] = 0 => left[id] = 0 /\ id \notin indexed

\* A session that can still be loaded can be found: whatever expires, is deleted
\* or half deleted around it, its index entry stays.  Only a clear_all that was
\* under way when the session was saved can take the entry and leave the key.
LiveIndexed == \A id \in Live : id \in indexed \cup overlapped

Erasing(id) == \E e \in Erasers : eraser[e].pc # "idle" /\ id \in eraser[e].keys

\* A deleted session is listed and counted no more once delete returns: it is in
\* the index only while its deletion is under way, or died half-way, which a
\* second delete does not repair.
DeletedLeavesIndex == \A id \in indexed \cap deleted : id \in torn \/ Erasing(id)

Range_(s) == {s[i] : i \in 1..Len(s)}

\* What a finished listing shows against what PostgreSQL would have answered when
\* it began: nothing else, newest first, no row without data under a filter; and,
\* where the index fits in the page, everything that is still alive.  With more
\* sessions than the limit the page is cut before the filter and comes back short.
ListingAgrees ==
    \A r \in Readers :
      LET me == reader[r]
      IN  me.pc = "reading" /\ me.todo = {} /\ overlapped = {} =>
            /\ Range_(me.shown) \subseteq me.sql
            /\ \A i, j \in 1..Len(me.shown) : i < j => Newer(me.shown[i], me.shown[j])
            /\ me.want # All => me.bare = {}
            /\ me.fits => me.sql \cap Live \subseteq Range_(me.shown)

=============================================================================
