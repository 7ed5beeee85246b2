-------------------------- MODULE RetrievalProofs ---------------------------
(***************************************************************************)
(* The MCP server, its tool calls and its literature search for any number *)
(* of calls, keys, lanes and lines, any lifetime of the cache and any      *)
(* number of retries; the document store for any names, files, documents,  *)
(* indexers and sizes of a chunk.                                          *)
(*                                                                         *)
(* What the cache holds is exact about its age, so what expires in time    *)
(* was given in time; a sleeping call has an attempt left. The server is   *)
(* one line ahead of its replies while it handles one, and never           *)
(* otherwise; no reply to a tools/call bears an id before the orchestrator *)
(* is built. A lane's call stays as it ended until the search is over, so  *)
(* the merged papers are those its lanes brought.                          *)
(*                                                                         *)
(* Every document is cut as chunk_text promises, and the store shows the   *)
(* last ingest into a collection. What the recursions of the model compute *)
(* is shown by a least counterexample: no place is the first to go wrong   *)
(* at.                                                                     *)
(***************************************************************************)
EXTENDS McpServer, RagIndex, WellFoundedInduction, SequenceTheorems, TLAPS

-----------------------------------------------------------------------------
\* A set of numbers has a least one.
LEMMA Smallest ==
    ASSUME NEW S \in SUBSET Nat, S # {}
    PROVE  \E m \in S : \A k \in S : m <= k
<1> DEFINE R == {ss \in Nat \X Nat : ss[1] < ss[2]}
<1>1. R = OpToRel(<, Nat)
  BY DEF OpToRel
<1>2. IsWellFoundedOn(R, Nat)
  BY <1>1, NatLessThanWellFounded
<1>3. PICK x \in S : \A y \in S : ~(<<y, x>> \in R)
  BY <1>2, WFMin
<1>4. \A y \in S : ~(y < x)
  BY <1>3
<1>5. QED
  BY <1>4

-----------------------------------------------------------------------------
\* The tool calls and the MCP server.

CallsInv ==
    /\ CallsTypeOK /\ AnswersFresh
    /\ \A k \in Keys : cache[k].what \in Genuine => cache[k].left >= 1
    /\ \A c \in Calls : call[c].pc = "sleep" => call[c].attempt < MaxRetries

ServerInv ==
    /\ lines \in Seq(Lines) /\ taken \in 0..Len(lines) /\ built \in BOOLEAN
    /\ replies \in Seq([to : Nat, id : Nat]) /\ pieces \in 0..(MaxPieces - 1)
    /\ server \in {"reading", "handling", "calling", "searching", "critiquing", "stopped"}
    /\ server \notin {"reading", "stopped"} => taken >= 1
    /\ pieces > 0 => server = "handling" /\ lines[taken].kind = "long"
    /\ server \in {"calling", "searching", "critiquing"} => built /\ CallsTool(taken)
    /\ ~built => \A j \in DOMAIN replies : ~(replies[j].id # 0 /\ CallsTool(replies[j].to))

RetrievalInv == CallsInv /\ ServerInv /\ RepliesMatchRequests

-----------------------------------------------------------------------------
EntryRec == [what : {"none", "malformed"} \cup Genuine, age : Nat, left : 0..Ttl]
CallRec ==
    [pc : {"idle", "request", "sleep", "done"}, key : Keys \cup {Blank},
     attempt : 0..MaxRetries, what : {"none", "error"} \cup Genuine, age : Nat]

EntryOK(x) ==
    /\ x \in EntryRec
    /\ x.what \in Genuine => x.left >= 1 /\ x.age + x.left = Ttl

CallOK(x) ==
    /\ x \in CallRec
    /\ x.what \in Genuine => x.age < Ttl
    /\ x.pc = "sleep" => x.attempt < MaxRetries

\* The invariant of the calls, entry by entry and call by call.
LEMMA CallsInvParts ==
    CallsInv <=> /\ cache \in [Keys -> EntryRec] /\ \A k \in Keys : EntryOK(cache[k])
                 /\ call \in [Calls -> CallRec] /\ \A c \in Calls : CallOK(call[c])
BY CallsAssumption
   DEF CallsInv, CallsTypeOK, AnswersFresh, EntryOK, CallOK, EntryRec, CallRec, Genuine

LEMMA CallsInvUnchanged == CallsInv /\ UNCHANGED callVars => CallsInv'
BY DEF CallsInv, CallsTypeOK, AnswersFresh, callVars

\* A step that changes one entry and one call, each to a good one.
LEMMA CallsInvPointwise ==
    ASSUME CallsInv, NEW k, NEW c,
           \E x : CallOK(x) /\ call' \in {call, [call EXCEPT ![c] = x]},
           \E y : EntryOK(y) /\ cache' \in {cache, [cache EXCEPT ![k] = y]}
    PROVE  CallsInv'
<1>1. /\ cache \in [Keys -> EntryRec] /\ \A i \in Keys : EntryOK(cache[i])
      /\ call \in [Calls -> CallRec] /\ \A d \in Calls : CallOK(call[d])
  BY CallsInvParts
<1>2. PICK x : CallOK(x) /\ call' \in {call, [call EXCEPT ![c] = x]}
  OBVIOUS
<1>3. PICK y : EntryOK(y) /\ cache' \in {cache, [cache EXCEPT ![k] = y]}
  OBVIOUS
<1>4. x \in CallRec /\ y \in EntryRec
  BY <1>2, <1>3 DEF CallOK, EntryOK
<1>5. call' \in [Calls -> CallRec] /\ \A d \in Calls : CallOK(call'[d])
  BY <1>1, <1>2, <1>4
<1>6. cache' \in [Keys -> EntryRec] /\ \A i \in Keys : EntryOK(cache'[i])
  BY <1>1, <1>3, <1>4
<1>7. CallsInv' <=> /\ cache' \in [Keys -> EntryRec] /\ \A i \in Keys : EntryOK(cache'[i])
                    /\ call' \in [Calls -> CallRec] /\ \A d \in Calls : CallOK(call'[d])
  BY CallsAssumption
     DEF CallsInv, CallsTypeOK, AnswersFresh, EntryOK, CallOK, EntryRec, CallRec, Genuine
<1>8. QED
  BY <1>5, <1>6, <1>7

\* An answer is a good call and, where it is stored, a good entry.
LEMMA GoodAnswers ==
    ASSUME NEW k \in Keys \cup {Blank}, NEW what \in {"error"} \cup Genuine
    PROVE  /\ CallOK(Answer(k, what, 0)) /\ CallOK(Asking(k, 0))
           /\ what \in Genuine => EntryOK(Entry(what, 0, Ttl))
           /\ CallOK(Idle) /\ EntryOK(Empty)
BY CallsAssumption
   DEF CallOK, CallRec, Answer, Asking, EntryOK, EntryRec, Entry, Genuine, Idle, Empty

LEMMA ReturnStep ==
    ASSUME CallsInv, NEW c \in Calls, NEW what \in {"error"} \cup Genuine, Return(c, what)
    PROVE  CallsInv'
<1> DEFINE k == call[c].key
<1>1. k \in Keys \cup {Blank}
  BY DEF CallsInv, CallsTypeOK
<1>2. \E x : CallOK(x) /\ call' \in {call, [call EXCEPT ![c] = x]}
  BY <1>1, GoodAnswers DEF Return
<1>3. \E y : EntryOK(y) /\ cache' \in {cache, [cache EXCEPT ![k] = y]}
  BY <1>1, GoodAnswers DEF Return, Stored
<1>4. QED
  BY <1>2, <1>3, CallsInvPointwise

LEMMA ExecuteStep ==
    ASSUME CallsInv, NEW c, NEW k, Execute(c, k)
    PROVE  CallsInv'
<1>1. CASE k \in Keys /\ Hit(c, k)
  <2>1. cache[k].what \in Genuine /\ cache[k] \in EntryRec /\ EntryOK(cache[k])
    BY <1>1, CallsInvParts DEF Hit
  <2>2. CallOK(Answer(k, cache[k].what, cache[k].age))
    BY <1>1, <2>1, CallsAssumption
       DEF CallOK, CallRec, Answer, EntryOK, EntryRec, Genuine
  <2>3. \E x : CallOK(x) /\ call' \in {call, [call EXCEPT ![c] = x]}
    BY <1>1, <2>2 DEF Hit
  <2>4. \E y : EntryOK(y) /\ cache' \in {cache, [cache EXCEPT ![k] = y]}
    BY <1>1, <2>1 DEF Hit
  <2>5. QED
    BY <2>3, <2>4, CallsInvPointwise
<1>2. CASE k \in Keys /\ Miss(c, k)
  <2>1. \E x : CallOK(x) /\ call' \in {call, [call EXCEPT ![c] = x]}
    BY <1>2, GoodAnswers DEF Miss
  <2>2. \E y : EntryOK(y) /\ cache' \in {cache, [cache EXCEPT ![k] = y]}
    BY <1>2, GoodAnswers DEF Miss
  <2>3. QED
    BY <2>1, <2>2, CallsInvPointwise
<1>3. CASE k = Blank /\ call' = [call EXCEPT ![c] = Answer(k, "error", 0)] /\ UNCHANGED cache
  <2>1. \E x : CallOK(x) /\ call' \in {call, [call EXCEPT ![c] = x]}
    BY <1>3, GoodAnswers
  <2>2. \E y : EntryOK(y) /\ cache' \in {cache, [cache EXCEPT ![k] = y]}
    BY <1>3, GoodAnswers
  <2>3. QED
    BY <2>1, <2>2, CallsInvPointwise
<1>4. QED
  BY <1>1, <1>2, <1>3 DEF Execute

LEMMA ProceedStep ==
    ASSUME CallsInv, NEW c \in Calls, Proceed(c)
    PROVE  CallsInv'
<1>1. CASE \E what \in {"error"} \cup Genuine : Return(c, what)
  BY <1>1, ReturnStep
<1>2. call[c] \in CallRec /\ CallOK(call[c])
  BY CallsInvParts
<1>3. ASSUME NEW x, CallOK(x), call' = [call EXCEPT ![c] = x], UNCHANGED cache
      PROVE  CallsInv'
  <2>1. \E y : EntryOK(y) /\ cache' \in {cache, [cache EXCEPT ![Blank] = y]}
    BY <1>3, GoodAnswers
  <2>2. \E z : CallOK(z) /\ call' \in {call, [call EXCEPT ![c] = z]}
    BY <1>3
  <2>3. QED
    BY <2>1, <2>2, CallsInvPointwise
<1>4. CASE /\ call[c].attempt < MaxRetries /\ UNCHANGED cache
           /\ call' = [call EXCEPT ![c].pc = "sleep"]
  <2>1. CallOK([call[c] EXCEPT !.pc = "sleep"])
    BY <1>2, <1>4 DEF CallOK, CallRec
  <2>2. call' = [call EXCEPT ![c] = [call[c] EXCEPT !.pc = "sleep"]]
    BY <1>4
  <2>3. QED
    BY <1>3, <1>4, <2>1, <2>2
<1>5. CASE /\ call[c].pc = "sleep" /\ UNCHANGED cache
           /\ call' = [call EXCEPT ![c] = Asking(@.key, @.attempt + 1)]
  <2>1. CallOK(Asking(call[c].key, call[c].attempt + 1))
    BY <1>2, <1>5, CallsAssumption DEF CallOK, CallRec, Asking, Genuine
  <2>2. call' = [call EXCEPT ![c] = Asking(call[c].key, call[c].attempt + 1)]
    BY <1>5
  <2>3. QED
    BY <1>3, <1>5, <2>1, <2>2
<1>6. QED
  BY <1>1, <1>4, <1>5 DEF Proceed, Respond, FailAttempt, WakeUp, Genuine

LEMMA TickStep == ASSUME CallsInv, Tick PROVE CallsInv'
<1>1. /\ cache \in [Keys -> EntryRec] /\ \A i \in Keys : EntryOK(cache[i])
      /\ call \in [Calls -> CallRec] /\ \A d \in Calls : CallOK(call[d])
  BY CallsInvParts
<1>2. ASSUME NEW k \in Keys
      PROVE  EntryOK(IF cache[k].what \notin Genuine THEN cache[k]
                     ELSE IF cache[k].left = 1 THEN Empty
                     ELSE Entry(cache[k].what, cache[k].age + 1, cache[k].left - 1))
  <2>1. cache[k] \in EntryRec /\ EntryOK(cache[k]) /\ EntryOK(Empty)
    BY <1>1, GoodAnswers
  <2>2. QED
    BY <2>1, CallsAssumption DEF EntryOK, EntryRec, Entry
<1>3. cache' \in [Keys -> EntryRec] /\ \A i \in Keys : EntryOK(cache'[i])
  BY <1>2 DEF Tick, EntryOK
<1>4. QED
  BY <1>1, <1>3, CallsAssumption
     DEF Tick, CallsInv, CallsTypeOK, AnswersFresh, EntryOK, CallOK, EntryRec, CallRec, Genuine

LEMMA DropStep == ASSUME CallsInv, NEW k, Drop(k) PROVE CallsInv'
<1>1. /\ \E x : CallOK(x) /\ call' \in {call, [call EXCEPT ![Blank] = x]}
      /\ \E y : EntryOK(y) /\ cache' \in {cache, [cache EXCEPT ![k] = y]}
  BY GoodAnswers DEF Drop
<1>2. QED
  BY <1>1, CallsInvPointwise

\* Calls that are taken are idle again.
LEMMA TakenStep ==
    ASSUME CallsInv, UNCHANGED cache, call' \in [Calls -> CallRec],
           \A c \in Calls : call'[c] \in {call[c], Idle}
    PROVE  CallsInv'
<1>1. \A c \in Calls : CallOK(call'[c])
  BY CallsInvParts, GoodAnswers
<1>2. QED
  BY <1>1, CallsInvParts, CallsAssumption
     DEF CallsInv, CallsTypeOK, AnswersFresh, EntryOK, CallOK, EntryRec, CallRec, Genuine

-----------------------------------------------------------------------------
LEMMA InitInv == Init => RetrievalInv
<1> SUFFICES ASSUME Init PROVE RetrievalInv
  OBVIOUS
<1>1. CallsInv
  BY CallsAssumption DEF Init, InitCalls, Empty, Malformed, Idle, CallsInv, CallsTypeOK,
                         AnswersFresh, Genuine
<1>2. ServerInv
  <2>1. /\ lines = <<>> /\ taken = 0 /\ replies = <<>> /\ pieces = 0 /\ ~(pieces > 0)
        /\ server = "reading" /\ built = FALSE
    BY DEF Init
  <2>2. /\ <<>> \in Seq(Lines) /\ <<>> \in Seq([to : Nat, id : Nat])
        /\ 0 \in 0..Len(<<>>) /\ DOMAIN <<>> = {} /\ 0 \in 0..(MaxPieces - 1)
    BY ServerAssumption
  <2>3. QED
    BY <2>1, <2>2 DEF ServerInv
<1>3. RepliesMatchRequests
  BY DEF Init, RepliesMatchRequests, Served
<1>4. QED
  BY <1>1, <1>2, <1>3 DEF RetrievalInv

\* The tool calls do not know who makes them.
LEMMA CallsStep == RetrievalInv /\ [Next]_vars => CallsInv'
<1> SUFFICES ASSUME CallsInv, [Next]_vars PROVE CallsInv'
  BY DEF RetrievalInv
<1>1. CASE UNCHANGED callVars
  BY <1>1, CallsInvUnchanged
<1>2. CASE CallTool \/ BeginLane \/ \E c \in Others, k \in Keys : OtherCall(c, k)
  BY <1>2, ExecuteStep DEF CallTool, BeginLane, OtherCall
<1>3. CASE \E c \in Calls : Respond(c) \/ FailAttempt(c) \/ WakeUp(c)
  BY <1>3, ProceedStep DEF Proceed
<1>4. CASE Tick
  BY <1>4, TickStep
<1>5. CASE \E k \in Keys : Drop(k)
  BY <1>5, DropStep
<1>6. CASE ReplyToCall \/ ReplyToResearch \/ \E c \in Others : OtherTakes(c)
  <2>1. Idle \in CallRec /\ call \in [Calls -> CallRec]
    BY GoodAnswers, CallsInvParts DEF CallOK
  <2>2. /\ UNCHANGED cache /\ call' \in [Calls -> CallRec]
        /\ \A c \in Calls : call'[c] \in {call[c], Idle}
    BY <1>6, <2>1 DEF ReplyToCall, ReplyToResearch, EndSearch, OtherTakes
  <2>3. QED
    BY <2>2, TakenStep
<1>7. CASE \/ \E line \in Lines : Send(line)
           \/ ReadLine \/ EndOfInput \/ HandleAtOnce \/ Overrun \/ SkipRest \/ Build
           \/ Research \/ Critique \/ ReplyToCritique \/ ReplyToUnknown \/ EndRag \/ Gather
           \/ UNCHANGED vars
  BY <1>1, <1>7 DEF Send, ReadLine, EndOfInput, HandleAtOnce, Overrun, SkipRest, Build, Research,
                    Critique, ReplyToCritique, ReplyToUnknown, EndRag, Gather, vars, callVars
<1>8. QED
  BY <1>2, <1>3, <1>4, <1>5, <1>6, <1>7 DEF Next

-----------------------------------------------------------------------------
Sound(j) ==
    \/ replies[j].id = replies[j].to /\ HasId(replies[j].to)
    \/ replies[j].id = 0 /\ Unnamed(replies[j].to)
    \/ /\ replies[j].id = 0 /\ CallsTool(replies[j].to)
       /\ \A i \in 1..(j - 1) : ~(replies[i].id # 0 /\ CallsTool(replies[i].to))

\* A reply, to the line at hand or to a piece of it, under its id or none.
Replied(id) ==
    /\ server \notin {"reading", "stopped"} /\ Asks(taken)
    /\ UNCHANGED <<lines, taken, built>>
    /\ replies' = Append(replies, [to |-> taken, id |-> id])
    /\ \/ server' = "reading" /\ pieces' = 0
       \/ server' = "handling" /\ pieces' \in 1..(MaxPieces - 1) /\ lines[taken].kind = "long"
    /\ \/ id = taken /\ HasId(taken)
       \/ id = 0 /\ Unnamed(taken)
       \/ id = 0 /\ CallsTool(taken) /\ ~built
    /\ id # 0 /\ CallsTool(taken) => built

\* It keeps the account.
LEMMA ReplyStep ==
    ASSUME ServerInv, RepliesMatchRequests, NEW id \in Nat, Replied(id)
    PROVE  /\ RepliesMatchRequests' /\ replies' \in Seq([to : Nat, id : Nat])
           /\ DOMAIN replies' = 1..(Len(replies) + 1)
           /\ \A j \in DOMAIN replies : replies'[j] = replies[j]
           /\ replies'[Len(replies) + 1] = [to |-> taken, id |-> id]
<1> DEFINE n == Len(replies)
           new == [to |-> taken, id |-> id]
           begun == IF pieces > 0 THEN {taken} ELSE {}
<1>1. /\ replies \in Seq([to : Nat, id : Nat]) /\ taken \in Nat \ {0}
      /\ n \in Nat /\ DOMAIN replies = 1..n /\ Served = taken - 1
      /\ UNCHANGED <<lines, taken, built>>
  BY DEF ServerInv, Served, Replied
<1>2. /\ replies' \in Seq([to : Nat, id : Nat]) /\ DOMAIN replies' = 1..(n + 1)
      /\ \A j \in 1..n : replies'[j] = replies[j]
      /\ replies'[n + 1] = new
  BY <1>1 DEF Replied
<1>3. \A j \in 1..n : \/ replies[j].to \in 1..(taken - 1)
                      \/ replies[j].to = taken /\ lines[taken].kind = "long"
  <2>1. {replies[j].to : j \in 1..n} \subseteq (1..(taken - 1)) \cup begun
    BY <1>1 DEF RepliesMatchRequests
  <2>2. pieces > 0 => lines[taken].kind = "long"
    BY DEF ServerInv
  <2>3. QED
    BY <2>1, <2>2
<1>4. {replies'[j].to : j \in DOMAIN replies'}
        = {i \in 1..Served' : Asks(i)'} \cup (IF pieces' > 0 THEN {taken'} ELSE {})
  <2>1. {replies'[j].to : j \in DOMAIN replies'} = {replies[j].to : j \in 1..n} \cup {taken}
    <3>1. \A j \in 1..n : replies'[j].to = replies[j].to
      BY <1>2
    <3>2. replies'[n + 1].to = taken
      BY <1>2
    <3>3. 1..(n + 1) = (1..n) \cup {n + 1}
      BY <1>1
    <3>4. \A x : x \in {replies'[j].to : j \in 1..(n + 1)}
                  <=> x \in {replies'[j].to : j \in 1..n} \/ x = replies'[n + 1].to
      <4> HIDE DEF n
      <4>1. QED
        BY <3>3
    <3>5. {replies'[j].to : j \in 1..n} = {replies[j].to : j \in 1..n}
      BY <3>1
    <3>6. QED
      BY <1>2, <3>2, <3>4, <3>5
  <2>2. {replies[j].to : j \in 1..n} \cup {taken}
          = {i \in 1..(taken - 1) : Asks(i)} \cup {taken}
    BY <1>1 DEF RepliesMatchRequests
  <2>3. CASE server' = "reading" /\ pieces' = 0
    <3>1. {i \in 1..Served' : Asks(i)'} = {i \in 1..(taken - 1) : Asks(i)} \cup {taken}
      BY <1>1, <2>3 DEF Asks, Served, Replied
    <3>2. {i \in 1..Served' : Asks(i)'} \cup (IF pieces' > 0 THEN {taken'} ELSE {})
            = {i \in 1..(taken - 1) : Asks(i)} \cup {taken}
      BY <2>3, <3>1
    <3>3. QED
      BY <2>1, <2>2, <3>2
  <2>4. CASE server' = "handling" /\ pieces' \in 1..(MaxPieces - 1)
    <3>1. {i \in 1..Served' : Asks(i)'} = {i \in 1..(taken - 1) : Asks(i)} /\ pieces' > 0
      BY <1>1, <2>4 DEF Asks, Served
    <3>2. {i \in 1..Served' : Asks(i)'} \cup (IF pieces' > 0 THEN {taken'} ELSE {})
            = {i \in 1..(taken - 1) : Asks(i)} \cup {taken}
      BY <1>1, <3>1
    <3>3. QED
      BY <2>1, <2>2, <3>2
  <2>5. QED
    BY <2>3, <2>4 DEF Replied
<1>5. \A i, j \in DOMAIN replies' :
        i < j => \/ replies'[i].to < replies'[j].to
                 \/ replies'[i].to = replies'[j].to /\ lines'[replies'[i].to].kind = "long"
  <2>1. \A i, j \in 1..n :
          i < j => \/ replies[i].to < replies[j].to
                   \/ replies[i].to = replies[j].to /\ lines[replies[i].to].kind = "long"
    BY <1>1 DEF RepliesMatchRequests
  <2>2. \A j \in 1..(n + 1) : j \in 1..n \/ j = n + 1
    BY <1>1
  <2>3. SUFFICES ASSUME NEW i \in 1..(n + 1), NEW j \in 1..(n + 1), i < j
                 PROVE  \/ replies'[i].to < replies'[j].to
                        \/ replies'[i].to = replies'[j].to /\ lines[replies'[i].to].kind = "long"
    BY <1>1, <1>2
  <2>4. i \in 1..n
    BY <1>1, <2>3
  <2>5. CASE j \in 1..n
    BY <1>2, <2>1, <2>3, <2>4, <2>5
  <2>6. CASE j = n + 1
    <3>1. replies'[i] = replies[i] /\ replies'[j].to = taken
      BY <1>2, <2>4, <2>6
    <3>2. CASE replies[i].to \in 1..(taken - 1)
      BY <1>1, <3>1, <3>2
    <3>3. CASE replies[i].to = taken /\ lines[taken].kind = "long"
      BY <3>1, <3>3
    <3>4. QED
      BY <1>3, <2>4, <3>2, <3>3
  <2>7. QED
    BY <2>2, <2>5, <2>6
<1>6. \A j \in DOMAIN replies' : Sound(j)'
  <2>1. SUFFICES ASSUME NEW j \in 1..(n + 1) PROVE Sound(j)'
    BY <1>2
  <2>2. CASE j \in 1..n
    <3>1. Sound(j)
      BY <1>1, <2>2 DEF RepliesMatchRequests, Sound
    <3>2. replies'[j] = replies[j] /\ \A i \in 1..(j - 1) : replies'[i] = replies[i]
      BY <1>1, <1>2, <2>2
    <3>3. QED
      BY <1>1, <3>1, <3>2 DEF Sound, HasId, Unnamed, CallsTool
  <2>3. CASE j = n + 1
    <3>1. replies'[j].to = taken /\ replies'[j].id = id
      BY <1>2, <2>3
    <3>2. CASE \/ id = taken /\ HasId(taken)
               \/ id = 0 /\ Unnamed(taken)
      BY <1>1, <3>1, <3>2 DEF Sound, HasId, Unnamed, CallsTool
    <3>3. CASE id = 0 /\ CallsTool(taken) /\ ~built
      <4>1. \A i \in 1..(j - 1) : i \in 1..n
        BY <1>1, <2>3
      <4>2. \A i \in 1..(j - 1) : replies'[i] = replies[i]
        BY <1>2, <4>1
      <4>3. \A i \in 1..n : ~(replies[i].id # 0 /\ CallsTool(replies[i].to))
        BY <1>1, <3>3 DEF ServerInv
      <4>4. QED
        BY <1>1, <3>1, <3>3, <4>1, <4>2, <4>3 DEF Sound, CallsTool
    <3>4. QED
      BY <3>2, <3>3 DEF Replied
  <2>4. QED
    BY <1>1, <2>2, <2>3
<1>7. RepliesMatchRequests'
  BY <1>4, <1>5, <1>6 DEF RepliesMatchRequests, Sound
<1>8. QED
  BY <1>1, <1>2, <1>7

\* The server's part of the invariant holds from step to step.
LEMMA ServerStepInv ==
    ASSUME ServerInv, RepliesMatchRequests, [Next]_vars
    PROVE  ServerInv' /\ RepliesMatchRequests'
<1> USE DEF CallsTool
<1>6. /\ taken \in Nat
      /\ \A kind \in {"hello", "unreadable", "faulty", "long", "search", "research", "critique",
                       "unknown"} : lines[taken].kind = kind => Asks(taken)
      /\ pieces > 0 => server = "handling" /\ lines[taken].kind = "long"
      /\ MaxPieces \in Nat \ {0} /\ pieces \in Nat /\ pieces \in 0..(MaxPieces - 1)
  BY ServerAssumption DEF ServerInv, Asks
<1>1. CASE UNCHANGED serverVars
  <2>1. UNCHANGED <<lines, taken, pieces, server, built, replies>>
    BY <1>1 DEF serverVars
  <2>2. ServerInv'
    BY <2>1 DEF ServerInv
  <2>3. Served' = Served
    BY <2>1 DEF Served
  <2>4. RepliesMatchRequests'
    BY <2>1, <2>3 DEF RepliesMatchRequests, Asks, HasId, Unnamed
  <2>5. QED
    BY <2>2, <2>4
<1>2. ASSUME NEW line \in Lines, Send(line) PROVE ServerInv' /\ RepliesMatchRequests'
  <2>1. /\ lines' \in Seq(Lines) /\ Len(lines') = Len(lines) + 1
        /\ \A i \in 1..Len(lines) : lines'[i] = lines[i]
    BY <1>2 DEF Send, ServerInv
  <2>2. /\ taken \in 0..Len(lines) /\ Len(lines) \in Nat /\ Served \in Int /\ Served <= taken
        /\ pieces > 0 => taken >= 1
    BY DEF ServerInv, Served
  <2>3. Served' = Served /\ UNCHANGED <<taken, pieces, server, built, replies>>
    BY <1>2 DEF Send, Served
  <2>4. \A i \in 1..taken : lines'[i] = lines[i]
    BY <2>1, <2>2
  <2>5. \A j \in DOMAIN replies : replies[j].to \in 1..taken
    BY <2>2 DEF RepliesMatchRequests
  <2>6. ServerInv'
    <3>1. taken' \in 0..Len(lines')
      BY <2>1, <2>2, <2>3
    <3>2. \A j \in DOMAIN replies : lines'[replies[j].to] = lines[replies[j].to]
      BY <2>4, <2>5
    <3>3. taken >= 1 => lines'[taken] = lines[taken]
      BY <2>2, <2>4
    <3>4. QED
      BY <2>1, <2>2, <2>3, <3>1, <3>2, <3>3 DEF ServerInv
  <2>7. {i \in 1..Served : Asks(i)'} = {i \in 1..Served : Asks(i)}
    BY <2>2, <2>4 DEF Asks
  <2>8. RepliesMatchRequests'
    <3>1. replies \in Seq([to : Nat, id : Nat])
      BY DEF ServerInv
    <3>2. \A j \in DOMAIN replies : \A i \in 1..(j - 1) : i \in DOMAIN replies
      BY <3>1
    <3>3. \A j \in DOMAIN replies : lines'[replies[j].to] = lines[replies[j].to]
      BY <2>4, <2>5
    <3>4. \A j \in DOMAIN replies : Sound(j)'
      <4>1. SUFFICES ASSUME NEW j \in DOMAIN replies PROVE Sound(j)'
        OBVIOUS
      <4>2. Sound(j)
        BY DEF RepliesMatchRequests, Sound
      <4>3. QED
        BY <2>3, <3>2, <3>3, <4>2 DEF Sound, HasId, Unnamed
    <3>5. QED
      BY <2>3, <2>7, <3>3, <3>4 DEF RepliesMatchRequests, Sound
  <2>9. QED
    BY <2>6, <2>8
<1>3. CASE ReadLine
  <2>1. Served' = Served /\ pieces = 0
    BY <1>3, <1>6 DEF ReadLine, Served
  <2>2. ServerInv'
    BY <1>3, <2>1 DEF ReadLine, ServerInv
  <2>3. RepliesMatchRequests'
    BY <1>3, <2>1 DEF ReadLine, RepliesMatchRequests, Asks, HasId, Unnamed
  <2>4. QED
    BY <2>2, <2>3
<1>4. CASE EndOfInput
  <2>1. Served' = Served /\ pieces = 0
    BY <1>4, <1>6 DEF EndOfInput, Served
  <2>2. QED
    BY <1>4, <2>1 DEF EndOfInput, ServerInv, RepliesMatchRequests, Asks, HasId, Unnamed
<1>5. ASSUME NEW id \in Nat, Replied(id) PROVE ServerInv' /\ RepliesMatchRequests'
  <2>1. /\ RepliesMatchRequests' /\ replies' \in Seq([to : Nat, id : Nat])
        /\ DOMAIN replies' = 1..(Len(replies) + 1)
        /\ \A j \in DOMAIN replies : replies'[j] = replies[j]
        /\ replies'[Len(replies) + 1] = [to |-> taken, id |-> id]
    BY <1>5, ReplyStep
  <2>2. /\ DOMAIN replies = 1..Len(replies) /\ Len(replies) \in Nat
    BY DEF ServerInv
  <2>3. \A j \in DOMAIN replies' : j \in DOMAIN replies \/ j = Len(replies) + 1
    BY <2>1, <2>2
  <2>4. /\ UNCHANGED <<lines, taken, built>> /\ taken >= 1
        /\ \/ server' = "reading" /\ pieces' = 0
           \/ server' = "handling" /\ pieces' \in 1..(MaxPieces - 1) /\ lines[taken].kind = "long"
    BY <1>5 DEF Replied, ServerInv
  <2>5. ASSUME ~built', NEW j \in DOMAIN replies'
        PROVE  ~(replies'[j].id # 0 /\ CallsTool(replies'[j].to))
    <3>1. CASE j \in DOMAIN replies
      BY <2>1, <2>4, <2>5, <3>1 DEF ServerInv
    <3>2. CASE j = Len(replies) + 1
      <4>1. replies'[j].id = id /\ replies'[j].to = taken
        BY <2>1, <3>2
      <4>2. ~(id # 0 /\ CallsTool(taken))
        BY <1>5, <2>4, <2>5 DEF Replied
      <4>3. QED
        BY <4>1, <4>2
    <3>3. QED
      BY <2>3, <2>5, <3>1, <3>2
  <2>6. ServerInv'
    <3>1. /\ lines' \in Seq(Lines) /\ taken' \in 0..Len(lines') /\ built' \in BOOLEAN
          /\ pieces' \in 0..(MaxPieces - 1)
      BY <2>4, ServerAssumption DEF ServerInv
    <3>2. QED
      BY <2>1, <2>4, <2>5, <3>1 DEF ServerInv
  <2>7. QED
    BY <2>1, <2>6
<1>7. CASE HandleAtOnce
  <2>1. CASE Current.kind = "hello" /\ Reply(taken)
    <3>1. Replied(taken)
      BY <1>6, <1>7, <2>1 DEF HandleAtOnce, Current, Reply, Replied, HasId
    <3>2. QED
      BY <1>5, <1>6, <3>1
  <2>2. CASE Current.kind \in {"unreadable", "faulty"} /\ Reply(0)
    <3>1. Replied(0)
      BY <1>6, <1>7, <2>2 DEF HandleAtOnce, Current, Reply, Replied, Unnamed
    <3>2. QED
      BY <1>5, <3>1
  <2>3. CASE Current.kind = "notification" /\ server' = "reading" /\ UNCHANGED replies
    <3>1. /\ Served' = taken /\ Served = taken - 1 /\ taken \in Nat \ {0}
          /\ pieces = 0 /\ pieces' = 0 /\ UNCHANGED <<lines, taken, built>>
      BY <1>6, <1>7, <2>3 DEF HandleAtOnce, Served, ServerInv, Current
    <3>2. {i \in 1..Served' : Asks(i)'} = {i \in 1..Served : Asks(i)}
      BY <1>7, <2>3, <3>1 DEF HandleAtOnce, Current, Asks
    <3>3. RepliesMatchRequests'
      BY <2>3, <3>1, <3>2 DEF RepliesMatchRequests, HasId, Unnamed
    <3>4. ServerInv'
      BY <2>3, <3>1 DEF ServerInv
    <3>5. QED
      BY <3>3, <3>4
  <2>4. QED
    BY <1>7, <2>1, <2>2, <2>3 DEF HandleAtOnce
<1>8. CASE Overrun
  <2>1. Replied(0)
    BY <1>6, <1>8 DEF Overrun, Current, Replied, Unnamed
  <2>2. QED
    BY <1>5, <2>1
<1>9. CASE SkipRest
  <2>1. /\ server = "handling" /\ server' = "reading" /\ pieces > 0 /\ pieces' = 0
        /\ UNCHANGED <<lines, taken, built, replies>>
    BY <1>9 DEF SkipRest
  <2>2. Served = taken - 1 /\ Served' = taken /\ taken \in Nat \ {0} /\ Asks(taken)
    BY <1>6, <2>1 DEF Served, ServerInv
  <2>3. {i \in 1..Served' : Asks(i)'} = {i \in 1..Served : Asks(i)} \cup {taken}
    BY <2>1, <2>2 DEF Asks
  <2>4. RepliesMatchRequests'
    BY <2>1, <2>3 DEF RepliesMatchRequests, HasId, Unnamed
  <2>5. ServerInv'
    BY <2>1, ServerAssumption DEF ServerInv
  <2>6. QED
    BY <2>4, <2>5
<1>10. CASE Build
  <2>1. CASE UNCHANGED built /\ Reply(0)
    <3>1. Replied(0)
      BY <1>6, <1>10, <2>1 DEF Build, Reply, Replied
    <3>2. QED
      BY <1>5, <3>1
  <2>2. CASE built' = TRUE /\ UNCHANGED <<replies, server>>
    <3>1. Served' = Served /\ UNCHANGED <<lines, taken, pieces>>
      BY <1>10, <2>2 DEF Build, Served
    <3>2. QED
      BY <1>10, <2>2, <3>1 DEF Build, ServerInv, RepliesMatchRequests, Asks, HasId, Unnamed
  <2>3. QED
    BY <1>10, <2>1, <2>2 DEF Build
<1>11. CASE CallTool \/ Research \/ Critique
  <2>1. /\ server = "handling" /\ server' \in {"calling", "searching", "critiquing"} /\ built
        /\ CallsTool(taken) /\ UNCHANGED <<lines, taken, pieces, built, replies>>
    BY <1>11 DEF CallTool, Research, Critique, Current
  <2>2. Served' = Served /\ pieces = 0
    BY <1>6, <2>1 DEF Served
  <2>3. ServerInv'
    BY <2>1, <2>2 DEF ServerInv
  <2>4. QED
    BY <2>1, <2>2, <2>3 DEF RepliesMatchRequests, Asks, HasId, Unnamed
<1>12. CASE ReplyToCall \/ ReplyToResearch \/ ReplyToCritique \/ ReplyToUnknown
  <2>1. /\ server \in {"handling", "calling", "searching", "critiquing"}
        /\ built /\ CallsTool(taken) /\ Reply(taken) /\ UNCHANGED <<lines, taken, pieces, built>>
    BY <1>12 DEF ReplyToCall, ReplyToResearch, ReplyToCritique, ReplyToUnknown, Current, ServerInv
  <2>2. Replied(taken)
    BY <1>6, <2>1 DEF Reply, Replied, HasId
  <2>3. QED
    BY <1>5, <1>6, <2>2
<1>13. CASE \/ \E c \in Others, k \in Keys : OtherCall(c, k)
            \/ \E c \in Others : OtherTakes(c)
  BY <1>1, <1>13 DEF OtherCall, OtherTakes
<1>14. QED
  BY <1>1, <1>2, <1>3, <1>4, <1>7, <1>8, <1>9, <1>10, <1>11, <1>12, <1>13 DEF Next, vars, serverVars

-----------------------------------------------------------------------------
THEOREM Invariance == Spec => []RetrievalInv
<1>1. Init => RetrievalInv
  BY InitInv
<1>2. RetrievalInv /\ [Next]_vars => RetrievalInv'
  BY CallsStep, ServerStepInv DEF RetrievalInv
<1>3. QED
  BY <1>1, <1>2, PTL DEF Spec

\* Cache entries and calls keep their types: no call has more attempts than it may.
THEOREM CallsTypeCorrect == Spec => []CallsTypeOK
<1>1. RetrievalInv => CallsTypeOK
  BY DEF RetrievalInv, CallsInv
<1>2. QED
  BY <1>1, Invariance, PTL

\* No answer is older than the lifetime of the cache, and no failure is remembered,
\* whoever shares the cache and whatever Redis does.
THEOREM AnswersAreFresh == Spec => []AnswersFresh
<1>1. RetrievalInv => AnswersFresh
  BY DEF RetrievalInv, CallsInv
<1>2. QED
  BY <1>1, Invariance, PTL

\* Every line served has been replied to and no other, in order, under its id where the
\* server knows it: more than once only a line longer than the reader's limit.
THEOREM RepliesAccounted == Spec => []RepliesMatchRequests
<1>1. RetrievalInv => RepliesMatchRequests
  BY DEF RetrievalInv
<1>2. QED
  BY <1>1, Invariance, PTL

-----------------------------------------------------------------------------
\* The literature search.

PaperSeq == Seq(Papers \cup {NoId})

\* f is what a loop of n rounds makes of its first value, in S like all of them.
Loops(f, n, S, start, step) ==
    /\ f \in [0..n -> S] /\ f[0] = start
    /\ \A i \in 1..n : f[i] = step[<<i, f[i - 1]>>]

LEMMA LoopExists ==
    ASSUME NEW n \in Nat, NEW S, NEW start \in S, NEW step \in [(1..n) \X S -> S]
    PROVE  \E f : Loops(f, n, S, start, step)
<1> DEFINE P(g, m) == Loops(g, m, S, start, step)
           T == {m \in 0..n : ~\E g : P(g, m)}
<1>1. T = {}
  <2>1. SUFFICES ASSUME T # {} PROVE FALSE
    OBVIOUS
  <2>2. PICK m \in T : \A k \in T : m <= k
    <3>1. T \in SUBSET Nat
      OBVIOUS
    <3>2. QED
      BY <2>1, <3>1, Smallest
  <2>3. m \in 0..n /\ ~\E g : P(g, m)
    BY <2>2
  <2>4. CASE m = 0
    <3> DEFINE g == [k \in 0..m |-> start]
    <3>1. P(g, m)
      BY <2>4 DEF Loops
    <3>2. QED
      BY <2>3, <3>1
  <2>5. CASE m # 0
    <3>1. m - 1 \in 0..n /\ ~(m <= m - 1) /\ m \in 1..n
      BY <2>3, <2>5
    <3>2. PICK g : P(g, m - 1)
      BY <2>2, <3>1
    <3> DEFINE h == [k \in 0..m |-> IF k = m THEN step[<<m, g[m - 1]>>] ELSE g[k]]
    <3>3. g[m - 1] \in S /\ \A k \in 0..(m - 1) : g[k] \in S
      BY <3>1, <3>2 DEF Loops
    <3>4. step[<<m, g[m - 1]>>] \in S
      BY <3>1, <3>3
    <3>5. h \in [0..m -> S]
      BY <3>1, <3>3, <3>4
    <3>6. h[0] = start
      BY <2>5, <3>1, <3>2 DEF Loops
    <3>7. ASSUME NEW i \in 1..m PROVE h[i] = step[<<i, h[i - 1]>>]
      <4>1. h[i - 1] = g[i - 1] /\ h[m] = step[<<m, g[m - 1]>>]
        BY <3>1
      <4>2. CASE i = m
        <5> HIDE DEF h
        <5>1. QED
          BY <4>1, <4>2
      <4>3. CASE i # m
        <5>1. i \in 1..(m - 1) /\ i \in 0..m
          BY <3>1, <4>3
        <5>2. QED
          BY <3>2, <4>1, <4>3, <5>1 DEF Loops
      <4>4. QED
        BY <4>2, <4>3
    <3>8. P(h, m)
      BY <3>5, <3>6, <3>7 DEF Loops
    <3> HIDE DEF h, P
    <3>9. QED
      BY <2>3, <3>8
  <2>6. QED
    BY <2>4, <2>5
<1>2. n \in 0..n
  OBVIOUS
<1>3. QED
  BY <1>1, <1>2

\* Kept is what its recursion says.
LEMMA KeptAre ==
    ASSUME NEW S, NEW ids \in Seq(S)
    PROVE  /\ Kept(ids)[0] = <<>>
           /\ \A n \in 1..Len(ids) :
                Kept(ids)[n] = IF Unseen(ids, n) THEN Append(Kept(ids)[n - 1], ids[n])
                               ELSE Kept(ids)[n - 1]
<1> DEFINE More(s, n) == IF Unseen(ids, n) THEN Append(s, ids[n]) ELSE s
           step == [p \in (1..Len(ids)) \X Seq(S) |-> More(p[2], p[1])]
<1>1. Len(ids) \in Nat /\ \A n \in 1..Len(ids) : ids[n] \in S
  BY LenProperties
<1>2. \A s \in Seq(S), n \in 1..Len(ids) : More(s, n) \in Seq(S)
  BY <1>1, AppendProperties
<1> HIDE DEF More
<1>3. step \in [(1..Len(ids)) \X Seq(S) -> Seq(S)]
  BY <1>2
<1>4. <<>> \in Seq(S)
  OBVIOUS
<1>5. PICK kept \in [0..Len(ids) -> Seq(S)] :
        kept[0] = <<>> /\ \A n \in 1..Len(ids) : kept[n] = step[<<n, kept[n - 1]>>]
  <2> HIDE DEF step
  <2>1. \E f : Loops(f, Len(ids), Seq(S), <<>>, step)
    BY <1>1, <1>3, <1>4, LoopExists
  <2>2. QED
    BY <2>1 DEF Loops
<1>6. ASSUME NEW n \in 1..Len(ids) PROVE kept[n] = More(kept[n - 1], n)
  <2>1. n - 1 \in 0..Len(ids)
    BY <1>1
  <2>2. <<n, kept[n - 1]>> \in (1..Len(ids)) \X Seq(S)
    BY <2>1
  <2>3. step[<<n, kept[n - 1]>>] = More(kept[n - 1], n)
    BY <2>2
  <2> HIDE DEF step
  <2>4. QED
    BY <1>5, <2>3
<1>7. kept = [n \in 0..Len(ids) |->
                IF n = 0 THEN <<>>
                ELSE IF Unseen(ids, n) THEN Append(kept[n - 1], ids[n]) ELSE kept[n - 1]]
  <2>1. ASSUME NEW n \in 0..Len(ids)
        PROVE  kept[n] = IF n = 0 THEN <<>> ELSE More(kept[n - 1], n)
    BY <1>1, <1>5, <1>6
  <2>2. kept = [n \in 0..Len(ids) |-> IF n = 0 THEN <<>> ELSE More(kept[n - 1], n)]
    BY <2>1
  <2>3. QED
    BY <2>2 DEF More
<1>8. Kept(ids) = [n \in 0..Len(ids) |->
                     IF n = 0 THEN <<>>
                     ELSE IF Unseen(ids, n) THEN Append(Kept(ids)[n - 1], ids[n])
                     ELSE Kept(ids)[n - 1]]
  BY <1>7 DEF Kept
<1>9. PICK k : k = Kept(ids)
  OBVIOUS
<1>10. k = [n \in 0..Len(ids) |->
              IF n = 0 THEN <<>> ELSE More(k[n - 1], n)]
  BY <1>8, <1>9 DEF More
<1>11. k[0] = <<>>
  BY <1>1, <1>10
<1>12. ASSUME NEW n \in 1..Len(ids) PROVE k[n] = More(k[n - 1], n)
  <2>1. n \in 0..Len(ids) /\ n # 0
    BY <1>1
  <2>2. QED
    BY <1>10, <2>1
<1>13. QED
  BY <1>9, <1>11, <1>12 DEF More

\* What s keeps of the first n ids: each once, in the order they come in.
Firsts(s, ids, n) ==
    /\ s \in Seq(ToSet(ids)) /\ IsInjective(s)
    /\ ToSet(s) = {ids[q] : q \in 1..n} \ {NoId}
    /\ \A i, j \in 1..Len(s) : i < j =>
         \A q \in 1..n : ids[q] = s[j] => \E p \in 1..q : ids[p] = s[i]

LEMMA KeptFirsts ==
    ASSUME NEW S, NEW ids \in Seq(S), NEW n \in 0..Len(ids)
    PROVE  Firsts(Kept(ids)[n], ids, n)
<1> DEFINE T == {m \in 0..Len(ids) : ~Firsts(Kept(ids)[m], ids, m)}
<1>1. Len(ids) \in Nat /\ DOMAIN ids = 1..Len(ids)
  BY LenProperties
<1>2. SUFFICES ASSUME T # {} PROVE FALSE
  OBVIOUS
<1>3. PICK m \in T : \A k \in T : m <= k
  <2>1. T \in SUBSET Nat
    BY <1>1
  <2>2. QED
    BY <1>2, <2>1, Smallest
<1>4. m \in 0..Len(ids) /\ ~Firsts(Kept(ids)[m], ids, m)
  BY <1>3
<1>5. CASE m = 0
  <2>1. Kept(ids)[m] = <<>>
    BY <1>5, KeptAre
  <2>2. /\ <<>> \in Seq(ToSet(ids)) /\ IsInjective(<<>>) /\ ToSet(<<>>) = {}
        /\ Len(<<>>) = 0
    BY DEF IsInjective, ToSet
  <2>3. Firsts(<<>>, ids, 0)
    BY <2>2 DEF Firsts
  <2>4. QED
    BY <1>4, <1>5, <2>1, <2>3
<1>6. CASE m # 0
  <2>1. m \in 1..Len(ids) /\ m - 1 \in 0..Len(ids) /\ ~(m <= m - 1)
    BY <1>1, <1>4, <1>6
  <2>2. Firsts(Kept(ids)[m - 1], ids, m - 1)
    BY <1>3, <2>1
  <2>3. PICK s, id : s = Kept(ids)[m - 1] /\ id = ids[m]
    OBVIOUS
  <2>4. id \in ToSet(ids)
    BY <1>1, <2>1, <2>3 DEF ToSet
  <2>5. {ids[q] : q \in 1..m} = {ids[q] : q \in 1..(m - 1)} \cup {id}
    <3>1. 1..m = 1..(m - 1) \cup {m}
      BY <2>1
    <3>2. QED
      BY <2>3, <3>1
  <2>6. CASE id = NoId \/ id \in ToSet(s)
    <3>1. Kept(ids)[m] = s
      <4>1. ~Unseen(ids, m)
        BY <2>2, <2>3, <2>6 DEF Firsts, Unseen
      <4>2. QED
        BY <2>1, <2>3, <4>1, KeptAre
    <3>2. s \in Seq(ToSet(ids)) /\ IsInjective(s)
      BY <2>2, <2>3 DEF Firsts
    <3>3. ToSet(s) = {ids[q] : q \in 1..(m - 1)} \ {NoId}
      BY <2>2, <2>3 DEF Firsts
    <3>4. ToSet(s) = {ids[q] : q \in 1..m} \ {NoId}
      BY <2>5, <2>6, <3>3
    <3>5. ASSUME NEW i \in 1..Len(s), NEW j \in 1..Len(s), i < j, NEW q \in 1..m, ids[q] = s[j]
          PROVE  \E p \in 1..q : ids[p] = s[i]
      <4>1. \A r \in 1..(m - 1) : ids[r] = s[j] => \E p \in 1..r : ids[p] = s[i]
        BY <2>2, <2>3, <3>5 DEF Firsts
      <4>2. CASE q \in 1..(m - 1)
        BY <3>5, <4>1, <4>2
      <4>3. CASE q = m
        <5>1. s[j] \in ToSet(s)
          BY <3>2, <3>5 DEF ToSet
        <5>2. PICK r \in 1..(m - 1) : ids[r] = s[j]
          BY <3>3, <5>1
        <5>3. PICK p \in 1..r : ids[p] = s[i]
          BY <4>1, <5>2
        <5>4. p \in 1..q
          BY <2>1, <4>3
        <5>5. QED
          BY <5>3, <5>4
      <4>4. QED
        BY <2>1, <4>2, <4>3
    <3>6. Firsts(s, ids, m)
      BY <3>2, <3>4, <3>5 DEF Firsts
    <3>7. QED
      BY <1>4, <3>1, <3>6
  <2>7. CASE id # NoId /\ id \notin ToSet(s)
    <3>1. Kept(ids)[m] = Append(s, id)
      <4>1. Unseen(ids, m)
        BY <2>2, <2>3, <2>7 DEF Firsts, Unseen
      <4>2. QED
        BY <2>1, <2>3, <4>1, KeptAre
    <3>2. s \in Seq(ToSet(ids)) /\ IsInjective(s)
      BY <2>2, <2>3 DEF Firsts
    <3>3. ToSet(s) = {ids[q] : q \in 1..(m - 1)} \ {NoId}
      BY <2>2, <2>3 DEF Firsts
    <3>4. PICK l, t : l = Len(s) /\ t = Append(s, id)
      OBVIOUS
    <3>5. /\ t \in Seq(ToSet(ids)) /\ l \in Nat /\ Len(t) = l + 1
          /\ \A k \in 1..l : t[k] = s[k]
          /\ t[l + 1] = id
          /\ DOMAIN s = 1..l /\ DOMAIN t = 1..(l + 1)
      BY <2>4, <3>2, <3>4, AppendProperties, LenProperties
    <3>6. \A k \in 1..l : s[k] \in ToSet(s) /\ s[k] # id
      BY <2>7, <3>5 DEF ToSet
    <3>7. IsInjective(t)
      <4>1. ASSUME NEW a \in 1..(l + 1), NEW b \in 1..(l + 1), t[a] = t[b] PROVE a = b
        <5>1. CASE a \in 1..l /\ b \in 1..l
          <6>1. s[a] = s[b]
            BY <3>5, <4>1, <5>1
          <6>2. QED
            BY <3>2, <3>5, <5>1, <6>1 DEF IsInjective
        <5>2. CASE a = l + 1 \/ b = l + 1
          BY <3>5, <3>6, <4>1, <5>2
        <5>3. QED
          BY <3>5, <5>1, <5>2
      <4>2. QED
        BY <3>5, <4>1 DEF IsInjective
    <3>8. ToSet(t) = ToSet(s) \cup {id}
      <4>1. 1..(l + 1) = 1..l \cup {l + 1}
        BY <3>5
      <4>2. QED
        BY <3>5, <4>1 DEF ToSet
    <3>9. ToSet(t) = {ids[q] : q \in 1..m} \ {NoId}
      BY <2>5, <2>7, <3>3, <3>8
    <3>10. ASSUME NEW i \in 1..(l + 1), NEW j \in 1..(l + 1), i < j, NEW q \in 1..m,
                  ids[q] = t[j]
           PROVE  \E p \in 1..q : ids[p] = t[i]
      <4>1. i \in 1..l /\ t[i] = s[i] /\ s[i] \in ToSet(s)
        BY <3>5, <3>6, <3>10
      <4>2. CASE j \in 1..l
        <5>1. t[j] = s[j] /\ s[j] # id
          BY <3>5, <3>6, <4>2
        <5>2. q \in 1..(m - 1)
          BY <2>1, <2>3, <3>10, <5>1
        <5>3. QED
          BY <2>2, <2>3, <3>4, <3>10, <4>1, <4>2, <5>1, <5>2 DEF Firsts
      <4>3. CASE j = l + 1
        <5>1. t[j] \notin {ids[r] : r \in 1..(m - 1)}
          BY <2>7, <3>3, <3>5, <4>3
        <5>2. q = m
          BY <2>1, <3>10, <5>1
        <5>3. PICK p \in 1..(m - 1) : ids[p] = s[i]
          BY <3>3, <4>1
        <5>4. p \in 1..q
          BY <2>1, <5>2
        <5>5. QED
          BY <4>1, <5>3, <5>4
      <4>4. QED
        BY <3>5, <4>2, <4>3
    <3>11. Firsts(t, ids, m)
      BY <3>5, <3>7, <3>9, <3>10 DEF Firsts
    <3>12. QED
      BY <1>4, <3>1, <3>4, <3>11
  <2>8. QED
    BY <2>6, <2>7
<1>7. QED
  BY <1>5, <1>6

\* LanesOf never has more lanes than MaxLanes.
LEMMA FewLanes ==
    ASSUME NEW S, NEW plan \in Seq(S)
    PROVE  LanesOf(plan) \in Seq(S) /\ Len(LanesOf(plan)) <= MaxLanes
<1> DEFINE cut == Looked(plan)
           More(s, q) == IF q = NoQuery THEN s ELSE Append(s, q)
           step == [p \in (1..cut) \X Seq(S) |-> More(p[2], plan[p[1]])]
<1>1. MaxLanes \in Nat /\ cut \in Nat /\ cut <= MaxLanes /\ cut <= Len(plan)
  BY SearchAssumption, LenProperties DEF Looked
<1>2. \A n \in 1..cut : plan[n] \in S
  BY <1>1, LenProperties, ElementOfSeq
<1>3. \A s \in Seq(S), q \in S :
        More(s, q) \in Seq(S) /\ Len(More(s, q)) \in 0..(Len(s) + 1)
  BY AppendProperties, LenProperties
<1> HIDE DEF cut, More
<1>4. step \in [(1..cut) \X Seq(S) -> Seq(S)]
  BY <1>2, <1>3
<1>5. PICK kept \in [0..cut -> Seq(S)] :
        kept[0] = <<>> /\ \A n \in 1..cut : kept[n] = step[<<n, kept[n - 1]>>]
  <2>1. <<>> \in Seq(S)
    OBVIOUS
  <2> HIDE DEF step
  <2>2. \E f : Loops(f, cut, Seq(S), <<>>, step)
    BY <1>1, <1>4, <2>1, LoopExists
  <2>3. QED
    BY <2>2 DEF Loops
<1>6. ASSUME NEW n \in 1..cut PROVE kept[n] = More(kept[n - 1], plan[n])
  <2>1. <<n, kept[n - 1]>> \in (1..cut) \X Seq(S)
    BY <1>1
  <2>2. step[<<n, kept[n - 1]>>] = More(kept[n - 1], plan[n])
    BY <2>1
  <2> HIDE DEF step
  <2>3. QED
    BY <1>5, <2>2
<1>7. kept = [n \in 0..cut |-> IF n = 0 THEN <<>>
                               ELSE IF plan[n] = NoQuery THEN kept[n - 1]
                               ELSE Append(kept[n - 1], plan[n])]
  <2>1. kept = [n \in 0..cut |-> IF n = 0 THEN <<>> ELSE More(kept[n - 1], plan[n])]
    BY <1>1, <1>5, <1>6
  <2>2. QED
    BY <2>1 DEF More
<1>8. PICK upTo : /\ upTo = Asked(plan)
                  /\ upTo = [n \in 0..cut |-> IF n = 0 THEN <<>>
                                              ELSE IF plan[n] = NoQuery THEN upTo[n - 1]
                                              ELSE Append(upTo[n - 1], plan[n])]
  BY <1>7 DEF Asked, cut
<1>9. upTo[0] = <<>> /\ \A n \in 1..cut : upTo[n] = More(upTo[n - 1], plan[n])
  <2>1. 0 \in 0..cut /\ \A n \in 1..cut : n \in 0..cut /\ n # 0
    BY <1>1
  <2>2. QED
    BY <1>8, <2>1 DEF More
<1> DEFINE T == {n \in 0..cut : ~(upTo[n] \in Seq(S) /\ Len(upTo[n]) <= n)}
<1>10. T = {}
  <2>1. SUFFICES ASSUME T # {} PROVE FALSE
    OBVIOUS
  <2>2. PICK m \in T : \A k \in T : m <= k
    <3>1. T \in SUBSET Nat
      BY <1>1
    <3>2. QED
      BY <2>1, <3>1, Smallest
  <2>3. m # 0
    <3>1. <<>> \in Seq(S) /\ Len(<<>>) <= 0
      OBVIOUS
    <3>2. QED
      BY <1>9, <2>2, <3>1
  <2>4. m \in 1..cut /\ m - 1 \in 0..cut /\ ~(m <= m - 1)
    BY <1>1, <2>2, <2>3
  <2>5. upTo[m - 1] \in Seq(S) /\ Len(upTo[m - 1]) <= m - 1
    BY <2>2, <2>4
  <2>6. upTo[m] = More(upTo[m - 1], plan[m]) /\ plan[m] \in S
    BY <1>2, <1>9, <2>4
  <2>7. upTo[m] \in Seq(S) /\ Len(upTo[m]) \in 0..(Len(upTo[m - 1]) + 1)
    BY <1>3, <2>5, <2>6
  <2>8. Len(upTo[m - 1]) \in Nat
    BY <2>5, LenProperties
  <2>9. QED
    BY <2>2, <2>4, <2>5, <2>7, <2>8
<1>11. cut \in 0..cut
  BY <1>1
<1>12. upTo[cut] \in Seq(S) /\ Len(upTo[cut]) <= cut
  BY <1>10, <1>11
<1>13. QED
  BY <1>1, <1>8, <1>12, LenProperties DEF LanesOf, cut

\* What two sequences hold together.
LEMMA SetOfConcat ==
    ASSUME NEW S, NEW s \in Seq(S), NEW t \in Seq(S)
    PROVE  ToSet(s \o t) = ToSet(s) \cup ToSet(t)
<1>1. PICK l, n, u : l = Len(s) /\ n = Len(t) /\ u = s \o t
  OBVIOUS
<1>2. /\ l \in Nat /\ n \in Nat /\ DOMAIN s = 1..l /\ DOMAIN t = 1..n
      /\ u \in Seq(S) /\ Len(u) = l + n /\ DOMAIN u = 1..(l + n)
      /\ \A i \in 1..(l + n) : u[i] = IF i <= l THEN s[i] ELSE t[i - l]
  BY <1>1, ConcatProperties, LenProperties
<1>3. ASSUME NEW x \in ToSet(u) PROVE x \in ToSet(s) \cup ToSet(t)
  <2>1. PICK i \in 1..(l + n) : u[i] = x
    BY <1>2, <1>3 DEF ToSet
  <2>2. CASE i <= l
    BY <1>2, <2>1, <2>2 DEF ToSet
  <2>3. CASE ~(i <= l)
    <3>1. i - l \in 1..n /\ t[i - l] = x
      BY <1>2, <2>1, <2>3
    <3>2. QED
      BY <1>2, <3>1 DEF ToSet
  <2>4. QED
    BY <2>2, <2>3
<1>4. ASSUME NEW x \in ToSet(s) PROVE x \in ToSet(u)
  <2>1. PICK i \in 1..l : s[i] = x
    BY <1>2, <1>4 DEF ToSet
  <2>2. i \in 1..(l + n) /\ u[i] = x
    BY <1>2, <2>1
  <2>3. QED
    BY <1>2, <2>2 DEF ToSet
<1>5. ASSUME NEW x \in ToSet(t) PROVE x \in ToSet(u)
  <2>1. PICK i \in 1..n : t[i] = x
    BY <1>2, <1>5 DEF ToSet
  <2>2. i + l \in 1..(l + n) /\ ~(i + l <= l) /\ i + l - l = i
    BY <1>2
  <2>3. u[i + l] = x
    BY <1>2, <2>1, <2>2
  <2>4. QED
    BY <1>2, <2>2, <2>3 DEF ToSet
<1>6. QED
  BY <1>1, <1>3, <1>4, <1>5

\* LanePapers is what its recursion says.
LEMMA LanePapersAre ==
    ASSUME NEW S, Len(search.keys) \in Nat,
           \A i \in 1..Len(search.keys) : PapersOf(Lanes[i]) \in Seq(S)
    PROVE  /\ LanePapers[0] = <<>>
           /\ \A i \in 1..Len(search.keys) :
                LanePapers[i] = LanePapers[i - 1] \o PapersOf(Lanes[i])
<1>0. PICK n \in Nat : n = Len(search.keys)
  OBVIOUS
<1> DEFINE step == [p \in (1..n) \X Seq(S) |-> p[2] \o PapersOf(Lanes[p[1]])]
<1>1. ASSUME NEW i \in 1..n, NEW s \in Seq(S) PROVE s \o PapersOf(Lanes[i]) \in Seq(S)
  BY <1>0, ConcatProperties
<1>2. step \in [(1..n) \X Seq(S) -> Seq(S)]
  BY <1>1
<1>3. PICK upTo \in [0..n -> Seq(S)] :
        upTo[0] = <<>> /\ \A i \in 1..n : upTo[i] = step[<<i, upTo[i - 1]>>]
  <2>1. <<>> \in Seq(S)
    OBVIOUS
  <2> HIDE DEF step
  <2>2. \E f : Loops(f, n, Seq(S), <<>>, step)
    BY <1>0, <1>2, <2>1, LoopExists
  <2>3. QED
    BY <2>2 DEF Loops
<1>4. ASSUME NEW i \in 1..n PROVE upTo[i] = upTo[i - 1] \o PapersOf(Lanes[i])
  <2>1. <<i, upTo[i - 1]>> \in (1..n) \X Seq(S)
    <3>1. i - 1 \in 0..n
      OBVIOUS
    <3>2. QED
      BY <3>1
  <2>2. step[<<i, upTo[i - 1]>>] = upTo[i - 1] \o PapersOf(Lanes[i])
    BY <2>1
  <2> HIDE DEF step
  <2>3. QED
    BY <1>3, <2>2
<1>5. upTo = [i \in 0..n |-> IF i = 0 THEN <<>> ELSE upTo[i - 1] \o PapersOf(Lanes[i])]
  <2>1. ASSUME NEW i \in 0..n
        PROVE  upTo[i] = IF i = 0 THEN <<>> ELSE upTo[i - 1] \o PapersOf(Lanes[i])
    <3>1. i = 0 \/ i \in 1..n
      OBVIOUS
    <3>2. QED
      BY <1>3, <1>4, <3>1
  <2>2. QED
    BY <2>1
<1>6. LanePapers = [i \in 0..n |-> IF i = 0 THEN <<>>
                                   ELSE LanePapers[i - 1] \o PapersOf(Lanes[i])]
  BY <1>0, <1>5 DEF LanePapers
<1>7. PICK u : u = LanePapers
  OBVIOUS
<1>8. u = [i \in 0..n |-> IF i = 0 THEN <<>> ELSE u[i - 1] \o PapersOf(Lanes[i])]
  BY <1>6, <1>7
<1>9. u[0] = <<>> /\ \A i \in 1..n : u[i] = u[i - 1] \o PapersOf(Lanes[i])
  <2>1. 0 \in 0..n /\ \A i \in 1..n : i \in 0..n /\ i # 0
    OBVIOUS
  <2>2. QED
    BY <1>8, <2>1
<1>10. QED
  BY <1>0, <1>7, <1>9

\* u[n] is w[1] \o ... \o w[n]: it holds what they hold, and begins with u[m] for m <= n.
Joins(u, w, n) ==
    /\ \A x : x \in ToSet(u[n]) <=> \E i \in 1..n : x \in ToSet(w[i])
    /\ \A m \in 0..n : /\ Len(u[m]) <= Len(u[n])
                       /\ \A p \in 1..Len(u[m]) : u[n][p] = u[m][p]

LEMMA JoinsHold ==
    ASSUME NEW N \in Nat, NEW S, NEW u, NEW w, u[0] = <<>>,
           \A i \in 1..N : w[i] \in Seq(S) /\ u[i] = u[i - 1] \o w[i]
    PROVE  \A n \in 0..N : u[n] \in Seq(S) /\ Joins(u, w, n)
<1> DEFINE T == {n \in 0..N : ~(u[n] \in Seq(S) /\ Joins(u, w, n))}
<1>1. SUFFICES ASSUME T # {} PROVE FALSE
  OBVIOUS
<1>2. PICK m \in T : \A k \in T : m <= k
  <2>1. T \in SUBSET Nat
    OBVIOUS
  <2>2. QED
    BY <1>1, <2>1, Smallest
<1>3. m \in 0..N /\ ~(u[m] \in Seq(S) /\ Joins(u, w, m))
  BY <1>2
<1>4. CASE m = 0
  <2>1. u[m] = <<>> /\ u[m] \in Seq(S) /\ Len(u[m]) = 0
    <3>1. <<>> \in Seq(S) /\ Len(<<>>) = 0
      OBVIOUS
    <3>2. u[m] = <<>>
      BY <1>4
    <3>3. QED
      BY <3>1, <3>2
  <2>2. ToSet(u[m]) = {}
    <3>1. ToSet(<<>>) = {}
      BY DEF ToSet
    <3>2. QED
      BY <2>1, <3>1
  <2>3. \A x : x \in ToSet(u[m]) <=> \E i \in 1..m : x \in ToSet(w[i])
    BY <1>4, <2>2
  <2>4. \A k \in 0..m : k = m
    BY <1>4
  <2>5. \A k \in 0..m : /\ Len(u[k]) <= Len(u[m])
                        /\ \A p \in 1..Len(u[k]) : u[m][p] = u[k][p]
    BY <2>1, <2>4
  <2>6. QED
    BY <1>3, <2>1, <2>3, <2>5 DEF Joins
<1>5. CASE m # 0
  <2>1. m \in 1..N /\ m - 1 \in 0..N /\ ~(m <= m - 1)
    BY <1>3, <1>5
  <2>2. u[m - 1] \in Seq(S) /\ Joins(u, w, m - 1)
    BY <1>2, <2>1
  <2>3. PICK a, b, c : a = u[m - 1] /\ b = w[m] /\ c = u[m]
    OBVIOUS
  <2>4. a \in Seq(S) /\ b \in Seq(S) /\ c = a \o b
    BY <2>1, <2>2, <2>3
  <2>5. /\ c \in Seq(S) /\ Len(c) = Len(a) + Len(b) /\ Len(a) \in Nat /\ Len(b) \in Nat
        /\ \A p \in 1..Len(a) : c[p] = a[p]
    BY <2>4, ConcatProperties, LenProperties
  <2>6. ASSUME NEW x PROVE x \in ToSet(c) <=> \E i \in 1..m : x \in ToSet(w[i])
    <3>1. x \in ToSet(c) <=> x \in ToSet(a) \/ x \in ToSet(b)
      BY <2>4, SetOfConcat
    <3>2. x \in ToSet(a) <=> \E i \in 1..(m - 1) : x \in ToSet(w[i])
      BY <2>2, <2>3 DEF Joins
    <3>3. x \in ToSet(b) <=> x \in ToSet(w[m])
      BY <2>3
    <3>4. 1..m = 1..(m - 1) \cup {m}
      BY <2>1
    <3>5. QED
      BY <3>1, <3>2, <3>3, <3>4
  <2>7. ASSUME NEW k \in 0..m
        PROVE  Len(u[k]) <= Len(c) /\ \A p \in 1..Len(u[k]) : c[p] = u[k][p]
    <3>1. CASE k = m
      <4>1. u[k] = c
        BY <2>3, <3>1
      <4>2. Len(c) <= Len(c)
        BY <2>5
      <4>3. QED
        BY <4>1, <4>2
    <3>2. CASE k # m
      <4>1. k \in 0..(m - 1) /\ k \in 0..N /\ ~(m <= k)
        BY <2>1, <3>2
      <4>2. PICK d : d = u[k]
        OBVIOUS
      <4>3. Len(d) <= Len(a) /\ \A p \in 1..Len(d) : a[p] = d[p]
        BY <2>2, <2>3, <4>1, <4>2 DEF Joins
      <4>4. Len(d) \in Nat
        <5>1. u[k] \in Seq(S)
          BY <1>2, <4>1
        <5>2. QED
          BY <4>2, <5>1, LenProperties
      <4>5. Len(d) <= Len(c) /\ \A p \in 1..Len(d) : c[p] = d[p]
        BY <2>5, <4>3, <4>4
      <4>6. QED
        BY <4>2, <4>5
    <3>3. QED
      BY <3>1, <3>2
  <2>8. Joins(u, w, m)
    BY <2>3, <2>6, <2>7 DEF Joins
  <2>9. QED
    BY <1>3, <2>3, <2>5, <2>8
<1>6. QED
  BY <1>4, <1>5

\* What the lanes bring together, and how it grows from lane to lane.
LEMMA LanePapersHold ==
    ASSUME NEW N \in Nat, N = Len(search.keys), NEW S, NEW w,
           \A i \in 1..N : PapersOf(Lanes[i]) = w[i] /\ w[i] \in Seq(S)
    PROVE  \A n \in 0..N : LanePapers[n] \in Seq(S) /\ Joins(LanePapers, w, n)
<1>1. PICK u : u = LanePapers
  OBVIOUS
<1>2. u[0] = <<>> /\ \A i \in 1..N : u[i] = u[i - 1] \o PapersOf(Lanes[i])
  BY <1>1, LanePapersAre
<1>3. \A i \in 1..N : w[i] \in Seq(S) /\ u[i] = u[i - 1] \o w[i]
  BY <1>2
<1>4. \A n \in 0..N : u[n] \in Seq(S) /\ Joins(u, w, n)
  BY <1>2, <1>3, JoinsHold
<1>5. QED
  BY <1>1, <1>4

LaneCalls == [i \in 1..Len(search.keys) |-> call[Lanes[i]]]

\* The terms of MergedExact, of any lanes and any result.
Brought(lane, rag, i) ==
    IF i > Len(lane) THEN IdsOf(rag)
    ELSE IF lane[i].what = "found" THEN IdsOf(Found[lane[i].key]) ELSE {}

PlaceIn(lane, rag, id) ==
    CHOOSE i \in 1..(Len(lane) + 1) :
      id \in Brought(lane, rag, i) /\ \A j \in 1..(i - 1) : id \notin Brought(lane, rag, j)

Merged(lane, rag, papers) ==
    /\ IsInjective(papers)
    /\ ToSet(papers) =
         (UNION {IdsOf(Found[lane[i].key]) :
                   i \in {k \in DOMAIN lane : lane[k].what = "found"}}) \cup IdsOf(rag)
    /\ \A i, j \in DOMAIN papers :
         i < j => PlaceIn(lane, rag, papers[i]) <= PlaceIn(lane, rag, papers[j])

LEMMA MergedExactIs ==
    MergedExact <=>
      /\ Len(search.keys) <= MaxLanes
      /\ search.pc = "done" =>
           /\ \A i \in DOMAIN LaneCalls :
                LaneCalls[i].pc = "done" /\ LaneCalls[i].key = search.keys[i]
           /\ Merged(LaneCalls, search.rag, search.papers)
BY DEF MergedExact, Merged, PlaceIn, PlaceOf, Brought, LaneCalls

\* Every paper of a merged search has a first place that brought it.
LEMMA PlaceInIs ==
    ASSUME NEW N \in Nat, NEW lane, Len(lane) = N, NEW rag, NEW id,
           NEW r \in 1..(N + 1), id \in Brought(lane, rag, r)
    PROVE  /\ PlaceIn(lane, rag, id) \in 1..(N + 1)
           /\ id \in Brought(lane, rag, PlaceIn(lane, rag, id))
           /\ PlaceIn(lane, rag, id) <= r
<1> DEFINE T == {i \in 1..(N + 1) : id \in Brought(lane, rag, i)}
<1>1. PICK k \in T : \A i \in T : k <= i
  <2>1. T \in SUBSET Nat /\ T # {}
    OBVIOUS
  <2>2. QED
    BY <2>1, Smallest
<1>2. k \in 1..(Len(lane) + 1) /\ id \in Brought(lane, rag, k)
  OBVIOUS
<1>3. ASSUME NEW j \in 1..(k - 1) PROVE id \notin Brought(lane, rag, j)
  <2>1. j \in 1..(N + 1) /\ ~(k <= j)
    BY <1>2
  <2>2. QED
    BY <1>1, <2>1
<1>4. PICK place : place = PlaceIn(lane, rag, id)
  OBVIOUS
<1>5. /\ place \in 1..(N + 1) /\ id \in Brought(lane, rag, place)
      /\ \A j \in 1..(place - 1) : id \notin Brought(lane, rag, j)
  BY <1>2, <1>3, <1>4 DEF PlaceIn
<1>6. place <= r
  <2>1. SUFFICES ASSUME ~(place <= r) PROVE FALSE
    OBVIOUS
  <2>2. r \in 1..(place - 1)
    BY <1>5, <2>1
  <2>3. QED
    BY <1>5, <2>2
<1>7. QED
  BY <1>4, <1>5, <1>6

\* Joining the lanes in order and keeping the first of each id merges them.
LEMMA MergedOf ==
    ASSUME NEW N \in Nat, NEW S, NEW lane \in Seq(S), Len(lane) = N, NEW rag \in PaperSeq,
           NEW u, NEW w, \A i \in 1..N : w[i] \in PaperSeq,
           \A i \in 1..N : w[i] = IF lane[i].what = "found" THEN Found[lane[i].key] ELSE <<>>,
           \A n \in 0..N : u[n] \in PaperSeq /\ Joins(u, w, n)
    PROVE  Merged(lane, rag, Deduplicated(u[N] \o rag))
<1>1. PICK all, ids, d : all = u[N] /\ ids = u[N] \o rag /\ d = Deduplicated(ids)
  OBVIOUS
<1>2. all \in PaperSeq /\ Joins(u, w, N)
  BY <1>1
<1>3. /\ ids \in PaperSeq /\ Len(ids) = Len(all) + Len(rag)
      /\ Len(all) \in Nat /\ Len(rag) \in Nat /\ Len(ids) \in Nat
      /\ \A q \in 1..Len(all) : ids[q] = all[q]
      /\ DOMAIN ids = 1..Len(ids)
  BY <1>1, <1>2, ConcatProperties, LenProperties DEF PaperSeq
<1>4. Firsts(d, ids, Len(ids))
  <2>1. Len(ids) \in 0..Len(ids)
    BY <1>3
  <2>2. Firsts(Kept(ids)[Len(ids)], ids, Len(ids))
    BY <1>3, <2>1, KeptFirsts DEF PaperSeq
  <2>3. QED
    BY <1>1, <2>2 DEF Deduplicated
<1>5. /\ d \in Seq(ToSet(ids)) /\ IsInjective(d)
      /\ ToSet(d) = {ids[q] : q \in 1..Len(ids)} \ {NoId}
      /\ \A i, j \in 1..Len(d) : i < j =>
           \A q \in 1..Len(ids) : ids[q] = d[j] => \E p \in 1..q : ids[p] = d[i]
  BY <1>4 DEF Firsts
<1>6. Len(d) \in Nat /\ DOMAIN d = 1..Len(d) /\ DOMAIN lane = 1..N
  BY <1>5, LenProperties
<1>7. IdsOf(<<>>) = {}
  BY DEF IdsOf, ToSet
<1>8. ASSUME NEW i \in 1..N
      PROVE  /\ Brought(lane, rag, i) = IdsOf(w[i])
             /\ lane[i].what # "found" => IdsOf(w[i]) = {}
             /\ lane[i].what = "found" => w[i] = Found[lane[i].key]
  <2>1. ~(i > Len(lane))
    OBVIOUS
  <2>2. QED
    BY <1>7, <2>1 DEF Brought
<1>9. Brought(lane, rag, N + 1) = IdsOf(rag)
  BY DEF Brought
<1>10. ASSUME NEW x
       PROVE  x \in ToSet(d) <=> \E i \in 1..(N + 1) : x \in Brought(lane, rag, i)
  <2>1. x \in ToSet(d) <=> x \in ToSet(ids) /\ x # NoId
    BY <1>3, <1>5 DEF ToSet
  <2>2. x \in ToSet(ids) <=> x \in ToSet(all) \/ x \in ToSet(rag)
    BY <1>1, <1>2, SetOfConcat DEF PaperSeq
  <2>3. x \in ToSet(all) <=> \E i \in 1..N : x \in ToSet(w[i])
    BY <1>1, <1>2 DEF Joins
  <2>4. 1..(N + 1) = 1..N \cup {N + 1}
    OBVIOUS
  <2>5. (\E i \in 1..(N + 1) : x \in Brought(lane, rag, i))
          <=> (\E i \in 1..N : x \in IdsOf(w[i])) \/ x \in IdsOf(rag)
    BY <1>8, <1>9, <2>4
  <2>6. QED
    BY <2>1, <2>2, <2>3, <2>5 DEF IdsOf
<1>11. ToSet(d) = (UNION {IdsOf(Found[lane[i].key]) :
                            i \in {k \in DOMAIN lane : lane[k].what = "found"}}) \cup IdsOf(rag)
  <2>1. ASSUME NEW x
        PROVE  (\E i \in 1..(N + 1) : x \in Brought(lane, rag, i))
                 <=> (\E i \in 1..N : x \in IdsOf(w[i])) \/ x \in IdsOf(rag)
    <3>1. 1..(N + 1) = 1..N \cup {N + 1}
      OBVIOUS
    <3>2. QED
      BY <1>8, <1>9, <3>1
  <2>2. ASSUME NEW x, NEW i \in 1..N
        PROVE  x \in IdsOf(w[i])
                 <=> lane[i].what = "found" /\ x \in IdsOf(Found[lane[i].key])
    BY <1>8
  <2> DEFINE Answered == {i \in 1..N : lane[i].what = "found"}
             Ids(i) == IdsOf(Found[lane[i].key])
  <2>3. ASSUME NEW x
        PROVE  x \in ToSet(d) <=> (\E i \in Answered : x \in Ids(i)) \/ x \in IdsOf(rag)
    BY <1>10, <2>1, <2>2
  <2>4. PICK brings : brings = {IdsOf(Found[lane[i].key]) :
                                  i \in {k \in DOMAIN lane : lane[k].what = "found"}}
    OBVIOUS
  <2>5. \A y : y \in brings <=> \E i \in Answered : y = Ids(i)
    BY <1>6, <2>4
  <2> HIDE DEF Answered, Ids
  <2>6. \A x : x \in UNION brings <=> \E i \in Answered : x \in Ids(i)
    BY <2>5
  <2>7. PICK kept, seen : kept = ToSet(d) /\ seen = IdsOf(rag)
    OBVIOUS
  <2>8. \A x : x \in kept <=> x \in UNION brings \/ x \in seen
    BY <2>3, <2>6, <2>7
  <2>9. kept = (UNION brings) \cup seen
    BY <2>8
  <2>10. QED
    BY <2>4, <2>7, <2>9
<1>12. ASSUME NEW i \in 1..Len(d), NEW j \in 1..Len(d), i < j
       PROVE  PlaceIn(lane, rag, d[i]) <= PlaceIn(lane, rag, d[j])
  <2>1. PICK a, b : a = d[i] /\ b = d[j]
    OBVIOUS
  <2>2. a \in ToSet(d) /\ b \in ToSet(d) /\ a # NoId
    BY <1>5, <1>6, <2>1 DEF ToSet
  <2>3. PICK ra \in 1..(N + 1) : a \in Brought(lane, rag, ra)
    BY <1>10, <2>2
  <2>4. PICK rb \in 1..(N + 1) : b \in Brought(lane, rag, rb)
    BY <1>10, <2>2
  <2>5. PICK k : k = PlaceIn(lane, rag, b)
    OBVIOUS
  <2>6. k \in 1..(N + 1) /\ b \in Brought(lane, rag, k)
    BY <2>4, <2>5, PlaceInIs
  <2>7. CASE k = N + 1
    <3>1. PlaceIn(lane, rag, a) \in 1..(N + 1)
      BY <2>3, PlaceInIs
    <3>2. QED
      BY <2>1, <2>5, <2>7, <3>1
  <2>8. CASE k # N + 1
    <3>1. k \in 1..N /\ k \in 0..N
      BY <2>6, <2>8
    <3>2. b \in ToSet(w[k])
      BY <1>8, <2>6, <3>1 DEF IdsOf
    <3>3. PICK c : c = u[k]
      OBVIOUS
    <3>4. c \in PaperSeq /\ Len(c) \in Nat /\ DOMAIN c = 1..Len(c)
      BY <3>1, <3>3, LenProperties DEF PaperSeq
    <3>5. \A x : x \in ToSet(c) <=> \E r \in 1..k : x \in ToSet(w[r])
      BY <3>1, <3>3 DEF Joins
    <3>6. Len(c) <= Len(all) /\ \A p \in 1..Len(c) : all[p] = c[p]
      BY <1>1, <1>2, <3>1, <3>3 DEF Joins
    <3>7. \A p \in 1..Len(c) : p \in 1..Len(ids) /\ ids[p] = c[p]
      BY <1>3, <3>4, <3>6
    <3>8. PICK q \in 1..Len(c) : c[q] = b
      <4>1. k \in 1..k
        BY <3>1
      <4>2. b \in ToSet(c)
        BY <3>2, <3>5, <4>1
      <4>3. QED
        BY <3>4, <4>2 DEF ToSet
    <3>9. PICK p \in 1..q : ids[p] = a
      BY <1>5, <1>12, <2>1, <3>7, <3>8
    <3>10. a \in ToSet(c)
      <4>1. p \in 1..Len(c)
        BY <3>4
      <4>2. QED
        BY <3>4, <3>7, <3>9, <4>1 DEF ToSet
    <3>11. PICK r \in 1..k : a \in ToSet(w[r])
      BY <3>5, <3>10
    <3>12. r \in 1..N /\ r \in 1..(N + 1) /\ r <= k
      BY <3>1
    <3>13. a \in Brought(lane, rag, r)
      BY <1>8, <2>2, <3>11, <3>12 DEF IdsOf
    <3>14. /\ PlaceIn(lane, rag, a) \in 1..(N + 1)
           /\ PlaceIn(lane, rag, a) <= r
      BY <3>12, <3>13, PlaceInIs
    <3>15. QED
      BY <2>1, <2>5, <3>1, <3>12, <3>14
  <2>9. QED
    BY <2>7, <2>8
<1>13. Merged(lane, rag, d)
  BY <1>5, <1>6, <1>11, <1>12 DEF Merged
<1>14. QED
  BY <1>1, <1>13

\* Only a key is asked for or answered.
AsksKey(x) == x.pc \in {"request", "sleep"} \/ x.what \in Genuine => x.key \in Keys

AskedInv == \A c \in Calls : AsksKey(call[c])

SearchRec ==
    [pc : {"idle", "searching", "done"}, keys : Seq(Keys \cup {Blank, NoQuery}), begun : Nat,
     rag : PaperSeq, asked : BOOLEAN, papers : PaperSeq]

SearchInv ==
    /\ search \in SearchRec
    /\ search.begun <= Len(search.keys) /\ Len(search.keys) <= MaxLanes
    /\ \A i \in 1..search.begun :
         call[Lanes[i]].pc # "idle" /\ call[Lanes[i]].key = search.keys[i]
    /\ search.pc = "done" =>
         /\ search.begun = Len(search.keys) /\ LanesDone
         /\ Merged(LaneCalls, search.rag, search.papers)

\* What no step but EndSearch does to the call of a lane.
Lasts(c) ==
    /\ call[c].pc # "idle" => call'[c].pc # "idle" /\ call'[c].key = call[c].key
    /\ call[c].pc = "done" => call'[c] = call[c]

LEMMA ExecuteLasts ==
    ASSUME CallsInv, AskedInv, NEW c \in Calls, NEW k, Execute(c, k)
    PROVE  /\ AskedInv' /\ \A d \in Calls : Lasts(d)
           /\ call'[c].pc # "idle" /\ call'[c].key = k
<1>1. call \in [Calls -> CallRec] /\ call[c].pc = "idle"
  BY CallsInvParts DEF Execute
<1>2. PICK x : /\ call' = [call EXCEPT ![c] = x]
               /\ x.pc # "idle" /\ x.key = k /\ AsksKey(x)
  <2>1. CASE k \in Keys /\ Hit(c, k)
    <3> DEFINE y == Answer(k, cache[k].what, cache[k].age)
    <3>1. call' = [call EXCEPT ![c] = y] /\ y.pc # "idle" /\ y.key = k /\ AsksKey(y)
      BY <2>1 DEF Hit, Answer, AsksKey
    <3> HIDE DEF y
    <3>2. QED
      BY <3>1
  <2>2. CASE k \in Keys /\ Miss(c, k)
    <3> DEFINE y == Asking(k, 0)
    <3>1. call' = [call EXCEPT ![c] = y] /\ y.pc # "idle" /\ y.key = k /\ AsksKey(y)
      BY <2>2 DEF Miss, Asking, AsksKey
    <3> HIDE DEF y
    <3>2. QED
      BY <3>1
  <2>3. CASE k = Blank /\ call' = [call EXCEPT ![c] = Answer(k, "error", 0)]
    <3> DEFINE y == Answer(k, "error", 0)
    <3>1. call' = [call EXCEPT ![c] = y] /\ y.pc # "idle" /\ y.key = k /\ AsksKey(y)
      BY <2>3 DEF Answer, AsksKey, Genuine
    <3> HIDE DEF y
    <3>2. QED
      BY <3>1
  <2>4. QED
    BY <2>1, <2>2, <2>3 DEF Execute
<1>3. call'[c] = x /\ \A d \in Calls : d # c => call'[d] = call[d]
  BY <1>1, <1>2
<1>4. AskedInv'
  <2>1. ASSUME NEW d \in Calls PROVE AsksKey(call'[d])
    <3>1. CASE d = c
      BY <1>2, <1>3, <3>1
    <3>2. CASE d # c
      <4>1. AsksKey(call[d]) /\ call'[d] = call[d]
        BY <1>3, <3>2 DEF AskedInv
      <4>2. QED
        BY <4>1
    <3>3. QED
      BY <3>1, <3>2
  <2>2. QED
    BY <2>1 DEF AskedInv, AsksKey
<1>5. \A d \in Calls : Lasts(d)
  BY <1>1, <1>3 DEF Lasts
<1>6. QED
  BY <1>2, <1>3, <1>4, <1>5

LEMMA ProceedLasts ==
    ASSUME CallsInv, AskedInv, NEW c \in Calls, Proceed(c)
    PROVE  AskedInv' /\ \A d \in Calls : Lasts(d)
<1>1. /\ call \in [Calls -> CallRec] /\ call[c].pc \in {"request", "sleep"}
      /\ call[c] \in CallRec
  BY CallsInvParts DEF Proceed, Respond, FailAttempt, WakeUp
<1>2. call[c].key \in Keys
  BY <1>1 DEF AskedInv, AsksKey
<1>3. PICK x : /\ call' = [call EXCEPT ![c] = x]
               /\ x.pc # "idle" /\ x.key = call[c].key
  <2>1. ASSUME NEW what, Return(c, what)
        PROVE  \E x : call' = [call EXCEPT ![c] = x] /\ x.pc # "idle" /\ x.key = call[c].key
    <3> DEFINE y == Answer(call[c].key, what, 0)
    <3>1. call' = [call EXCEPT ![c] = y] /\ y.pc # "idle" /\ y.key = call[c].key
      BY <2>1 DEF Return, Answer
    <3> HIDE DEF y
    <3>2. QED
      BY <3>1
  <2>2. CASE call' = [call EXCEPT ![c].pc = "sleep"]
    <3> DEFINE y == [call[c] EXCEPT !.pc = "sleep"]
    <3>1. call' = [call EXCEPT ![c] = y]
      BY <2>2
    <3>2. y.pc # "idle" /\ y.key = call[c].key
      BY <1>1 DEF CallRec
    <3> HIDE DEF y
    <3>3. QED
      BY <3>1, <3>2
  <2>3. CASE call' = [call EXCEPT ![c] = Asking(@.key, @.attempt + 1)]
    <3> DEFINE y == Asking(call[c].key, call[c].attempt + 1)
    <3>1. call' = [call EXCEPT ![c] = y] /\ y.pc # "idle" /\ y.key = call[c].key
      BY <2>3, <1>1 DEF Asking
    <3> HIDE DEF y
    <3>2. QED
      BY <3>1
  <2>4. QED
    BY <2>1, <2>2, <2>3 DEF Proceed, Respond, FailAttempt, WakeUp
<1>4. call'[c] = x /\ \A d \in Calls : d # c => call'[d] = call[d]
  BY <1>1, <1>3
<1>5. AskedInv'
  <2>1. ASSUME NEW d \in Calls PROVE AsksKey(call'[d])
    <3>1. CASE d = c
      BY <1>2, <1>3, <1>4, <3>1 DEF AsksKey
    <3>2. CASE d # c
      <4>1. AsksKey(call[d]) /\ call'[d] = call[d]
        BY <1>4, <3>2 DEF AskedInv
      <4>2. QED
        BY <4>1
    <3>3. QED
      BY <3>1, <3>2
  <2>2. QED
    BY <2>1 DEF AskedInv, AsksKey
<1>6. \A d \in Calls : Lasts(d)
  BY <1>1, <1>3, <1>4 DEF Lasts
<1>7. QED
  BY <1>5, <1>6

\* The lanes are calls of the search and of nobody else.
LEMMA LaneCall ==
    ASSUME NEW i \in Nat, i # 0, i <= MaxLanes
    PROVE  Lanes[i] \in Calls /\ Lanes[i] # Own /\ Lanes[i] \notin Others
<1>1. i \in 1..Len(Lanes) /\ Lanes \in Seq(Calls) /\ DOMAIN Lanes = 1..Len(Lanes)
  BY SearchAssumption, LenProperties
<1>2. Lanes[i] \in Calls /\ Lanes[i] \in ToSet(Lanes)
  BY <1>1 DEF ToSet
<1>3. QED
  BY <1>2, ServerAssumption

\* A search whose lanes go on keeps what it knows of them.
LEMMA SearchLasts ==
    ASSUME SearchInv, UNCHANGED search,
           \A i \in Nat : i # 0 /\ i <= MaxLanes => Lasts(Lanes[i])
    PROVE  SearchInv'
<1>1. /\ search \in SearchRec
      /\ search.begun <= Len(search.keys) /\ Len(search.keys) <= MaxLanes
      /\ \A i \in 1..search.begun :
           call[Lanes[i]].pc # "idle" /\ call[Lanes[i]].key = search.keys[i]
  BY DEF SearchInv
<1>2. search.begun \in Nat /\ Len(search.keys) \in Nat /\ MaxLanes \in Nat
  BY <1>1, SearchAssumption, LenProperties DEF SearchRec
<1>3. \A i \in 1..Len(search.keys) : Lasts(Lanes[i])
  BY <1>1, <1>2
<1>4. \A i \in 1..search.begun :
        call'[Lanes[i]].pc # "idle" /\ call'[Lanes[i]].key = search.keys[i]
  BY <1>1, <1>2, <1>3 DEF Lasts
<1>5. ASSUME search.pc = "done"
      PROVE  LanesDone' /\ Merged(LaneCalls', search.rag, search.papers)
  <2>1. LanesDone /\ Merged(LaneCalls, search.rag, search.papers)
    BY <1>5 DEF SearchInv
  <2>2. \A i \in 1..Len(search.keys) : call'[Lanes[i]] = call[Lanes[i]]
    BY <1>3, <2>1 DEF LanesDone, Lasts
  <2>3. LaneCalls' = LaneCalls
    BY <2>2 DEF LaneCalls
  <2>4. LanesDone'
    BY <2>1, <2>2 DEF LanesDone
  <2>5. QED
    BY <2>1, <2>3, <2>4
<1>6. search.pc = "done" => search.begun = Len(search.keys)
  BY DEF SearchInv
<1>7. QED
  BY <1>1, <1>4, <1>5, <1>6 DEF SearchInv

LEMMA SearchInit == Init => AskedInv /\ SearchInv
<1> SUFFICES ASSUME Init PROVE AskedInv /\ SearchInv
  OBVIOUS
<1>1. AskedInv
  BY DEF Init, InitCalls, Idle, AskedInv, AsksKey, Genuine
<1>2. search = NoSearch
  BY DEF Init, InitSearch
<1>3. <<>> \in Seq(Keys \cup {Blank, NoQuery}) /\ <<>> \in PaperSeq /\ Len(<<>>) = 0
  BY DEF PaperSeq
<1>4. MaxLanes \in Nat
  BY SearchAssumption, LenProperties
<1>5. /\ NoSearch \in SearchRec /\ NoSearch.begun = 0 /\ NoSearch.keys = <<>>
      /\ NoSearch.pc = "idle"
  BY <1>3 DEF NoSearch, SearchRec
<1>6. SearchInv
  BY <1>2, <1>3, <1>4, <1>5 DEF SearchInv
<1>7. QED
  BY <1>1, <1>6

LEMMA BeginLaneStep ==
    ASSUME CallsInv, AskedInv, SearchInv, BeginLane
    PROVE  AskedInv' /\ SearchInv'
<1>1. /\ search \in SearchRec
      /\ search.begun <= Len(search.keys) /\ Len(search.keys) <= MaxLanes
      /\ \A i \in 1..search.begun :
           call[Lanes[i]].pc # "idle" /\ call[Lanes[i]].key = search.keys[i]
  BY DEF SearchInv
<1>2. PICK b \in Nat : b = search.begun
  BY <1>1 DEF SearchRec
<1>3. Len(search.keys) \in Nat /\ MaxLanes \in Nat
  BY <1>1, SearchAssumption, LenProperties DEF SearchRec
<1>4. b < Len(search.keys) /\ search.pc = "searching"
  BY <1>2 DEF BeginLane
<1>5. Lanes[b + 1] \in Calls /\ \A i \in 1..b : Lanes[i] \in Calls
  BY <1>1, <1>2, <1>3, <1>4, LaneCall
<1>6. Execute(Lanes[b + 1], search.keys[b + 1])
  BY <1>2 DEF BeginLane
<1>7. /\ AskedInv' /\ \A d \in Calls : Lasts(d)
      /\ call'[Lanes[b + 1]].pc # "idle" /\ call'[Lanes[b + 1]].key = search.keys[b + 1]
  BY <1>5, <1>6, ExecuteLasts
<1>8. /\ search' \in SearchRec /\ search'.begun = b + 1
      /\ search'.keys = search.keys /\ search'.pc = "searching"
  BY <1>1, <1>2, <1>4 DEF BeginLane, SearchRec
<1>9. ASSUME NEW i \in 1..(b + 1)
      PROVE  call'[Lanes[i]].pc # "idle" /\ call'[Lanes[i]].key = search.keys[i]
  <2>1. CASE i = b + 1
    BY <1>7, <2>1
  <2>2. CASE i # b + 1
    <3>1. i \in 1..b
      BY <2>2
    <3>2. Lasts(Lanes[i]) /\ call[Lanes[i]].pc # "idle" /\ call[Lanes[i]].key = search.keys[i]
      BY <1>1, <1>2, <1>5, <1>7, <3>1
    <3>3. QED
      BY <3>2 DEF Lasts
  <2>3. QED
    BY <2>1, <2>2
<1>10. SearchInv'
  BY <1>1, <1>3, <1>4, <1>8, <1>9 DEF SearchInv
<1>11. QED
  BY <1>7, <1>10

LEMMA GatherStep ==
    ASSUME CallsInv, AskedInv, SearchInv, Gather
    PROVE  SearchInv'
<1>1. /\ search \in SearchRec
      /\ search.begun <= Len(search.keys) /\ Len(search.keys) <= MaxLanes
      /\ \A i \in 1..search.begun :
           call[Lanes[i]].pc # "idle" /\ call[Lanes[i]].key = search.keys[i]
  BY DEF SearchInv
<1>2. PICK N \in Nat : N = Len(search.keys)
  BY <1>1, LenProperties DEF SearchRec
<1>3. MaxLanes \in Nat /\ search.rag \in PaperSeq
  BY <1>1, SearchAssumption, LenProperties DEF SearchRec
<1>4. \A i \in 1..N : Lanes[i] \in Calls
  BY <1>1, <1>2, <1>3, LaneCall
<1>5. call \in [Calls -> CallRec]
  BY CallsInvParts
<1>6. PICK lane : lane = LaneCalls
  OBVIOUS
<1>7. lane \in Seq(CallRec) /\ Len(lane) = N /\ \A i \in 1..N : lane[i] = call[Lanes[i]]
  <2>1. LaneCalls = [i \in 1..N |-> call[Lanes[i]]]
    BY <1>2 DEF LaneCalls
  <2>2. \A i \in 1..N : call[Lanes[i]] \in CallRec
    BY <1>4, <1>5
  <2>3. lane \in [1..N -> CallRec]
    BY <1>6, <2>1, <2>2
  <2>4. lane \in Seq(CallRec) /\ Len(lane) = N
    BY <2>3, IsASeq
  <2>5. QED
    BY <1>6, <2>1, <2>4
<1>8. PICK w : \A i \in 1..N : w[i] = PapersOf(Lanes[i])
  <2> DEFINE w == [i \in 1..N |-> PapersOf(Lanes[i])]
  <2>1. \A i \in 1..N : w[i] = PapersOf(Lanes[i])
    OBVIOUS
  <2> HIDE DEF w
  <2>2. QED
    BY <2>1
<1>9. ASSUME NEW i \in 1..N
      PROVE  /\ w[i] = IF lane[i].what = "found" THEN Found[lane[i].key] ELSE <<>>
             /\ PapersOf(Lanes[i]) = w[i] /\ w[i] \in PaperSeq
  <2>1. w[i] = IF lane[i].what = "found" THEN Found[lane[i].key] ELSE <<>>
    BY <1>7, <1>8 DEF PapersOf
  <2>2. CASE lane[i].what = "found"
    <3>1. lane[i].key \in Keys
      BY <1>4, <1>7, <2>2 DEF AskedInv, AsksKey, Genuine
    <3>2. Found[lane[i].key] \in PaperSeq
      BY <3>1, SearchAssumption DEF PaperSeq
    <3>3. QED
      BY <1>8, <2>1, <2>2, <3>2
  <2>3. CASE lane[i].what # "found"
    <3>1. <<>> \in PaperSeq
      BY DEF PaperSeq
    <3>2. QED
      BY <1>8, <2>1, <2>3, <3>1
  <2>4. QED
    BY <2>1, <2>2, <2>3
<1>10. \A n \in 0..N : LanePapers[n] \in PaperSeq /\ Joins(LanePapers, w, n)
  BY <1>2, <1>9, LanePapersHold DEF PaperSeq
<1>11. Merged(lane, search.rag, Deduplicated(LanePapers[N] \o search.rag))
  BY <1>3, <1>7, <1>9, <1>10, MergedOf
<1>12. Deduplicated(LanePapers[N] \o search.rag) \in PaperSeq
  <2>1. PICK all, ids : all = LanePapers[N] /\ ids = all \o search.rag
    OBVIOUS
  <2>2. all \in PaperSeq
    BY <1>10, <2>1
  <2>3. ids \in PaperSeq /\ Len(ids) \in 0..Len(ids)
    <3>1. PICK rag \in PaperSeq : rag = search.rag
      BY <1>3
    <3>2. all \o rag \in PaperSeq
      BY <2>2, ConcatProperties DEF PaperSeq
    <3>3. ids \in PaperSeq
      BY <2>1, <3>1, <3>2
    <3>4. Len(ids) \in Nat
      BY <3>3, LenProperties DEF PaperSeq
    <3>5. QED
      BY <3>3, <3>4
  <2>4. Firsts(Kept(ids)[Len(ids)], ids, Len(ids))
    BY <2>3, KeptFirsts DEF PaperSeq
  <2>5. ToSet(ids) \subseteq Papers \cup {NoId}
    <3>1. ids \in Seq(Papers \cup {NoId}) /\ DOMAIN ids = 1..Len(ids)
      BY <2>3, LenProperties DEF PaperSeq
    <3>2. \A q \in 1..Len(ids) : ids[q] \in Papers \cup {NoId}
      BY <3>1
    <3>3. QED
      BY <3>1, <3>2 DEF ToSet
  <2>6. Deduplicated(ids) \in Seq(ToSet(ids))
    BY <2>4 DEF Firsts, Deduplicated
  <2>7. Deduplicated(ids) \in PaperSeq
    BY <2>5, <2>6 DEF PaperSeq
  <2>8. QED
    BY <2>1, <2>7
<1>13. PICK d : d = Deduplicated(AllPapers)
  OBVIOUS
<1>14. d \in PaperSeq /\ Merged(lane, search.rag, d)
  BY <1>2, <1>11, <1>12, <1>13 DEF AllPapers
<1>15. /\ search' \in SearchRec /\ search'.begun = N /\ search'.keys = search.keys
       /\ search'.rag = search.rag /\ search'.papers = d /\ search'.pc = "done"
       /\ search.begun = N /\ call' = call /\ LanesDone
  BY <1>1, <1>2, <1>13, <1>14 DEF Gather, SearchRec, callVars
<1>16. LaneCalls' = lane /\ LanesDone'
  BY <1>6, <1>15 DEF LaneCalls, LanesDone
<1>17. Merged(LaneCalls', search'.rag, search'.papers)
  BY <1>14, <1>15, <1>16
<1>18. QED
  BY <1>1, <1>2, <1>15, <1>16, <1>17 DEF SearchInv

LEMMA SearchStep ==
    ASSUME CallsInv, ServerInv, AskedInv, SearchInv, [Next]_vars
    PROVE  AskedInv' /\ SearchInv'
<1>1. call \in [Calls -> CallRec]
  BY CallsInvParts
<1>3. ASSUME UNCHANGED search, \A c \in Calls : Lasts(c) PROVE SearchInv'
  BY <1>3, LaneCall, SearchLasts
<1>4. CASE UNCHANGED <<call, search>>
  <2>1. \A c \in Calls : Lasts(c)
    BY <1>4 DEF Lasts
  <2>2. AskedInv'
    BY <1>4 DEF AskedInv, AsksKey
  <2>3. QED
    BY <1>3, <1>4, <2>1, <2>2
<1>5. CASE UNCHANGED search /\ \E c \in Calls : \E k : Execute(c, k)
  BY <1>3, <1>5, ExecuteLasts
<1>6. CASE UNCHANGED search /\ \E c \in Calls : Proceed(c)
  BY <1>3, <1>6, ProceedLasts
<1>7. ASSUME NEW c \in {Own} \cup Others, call' = [call EXCEPT ![c] = Idle], UNCHANGED search
      PROVE  AskedInv' /\ SearchInv'
  <2>1. \A d \in Calls : call'[d] \in {call[d], Idle} /\ (d # c => call'[d] = call[d])
    BY <1>1, <1>7
  <2>2. AskedInv'
    BY <2>1 DEF AskedInv, AsksKey, Idle, Genuine
  <2>3. \A i \in Nat : i # 0 /\ i <= MaxLanes => Lasts(Lanes[i])
    BY <1>7, <2>1, LaneCall DEF Lasts
  <2>4. QED
    BY <1>7, <2>2, <2>3, SearchLasts
<1>8. CASE BeginLane
  BY <1>8, BeginLaneStep
<1>9. CASE Gather
  <2>1. AskedInv'
    BY <1>9 DEF Gather, callVars, AskedInv, AsksKey
  <2>2. QED
    BY <1>9, <2>1, GatherStep
<1>10. CASE EndRag
  <2>1. AskedInv'
    BY <1>10 DEF EndRag, callVars, AskedInv, AsksKey
  <2>2. PICK ids \in PaperSeq : search' = [search EXCEPT !.rag = ids, !.asked = TRUE]
    BY <1>10, SearchAssumption DEF EndRag, PaperSeq
  <2>3. search \in SearchRec /\ search.pc = "searching" /\ call' = call
    BY <1>10 DEF SearchInv, EndRag, callVars
  <2>4. /\ search' \in SearchRec /\ search'.pc = "searching"
        /\ search'.keys = search.keys /\ search'.begun = search.begun
    BY <2>2, <2>3 DEF SearchRec
  <2>5. SearchInv'
    BY <2>3, <2>4 DEF SearchInv
  <2>6. QED
    BY <2>1, <2>5
<1>11. CASE EndSearch
  <2>1. \A d \in Calls : call'[d] \in {call[d], Idle}
    BY <1>11 DEF EndSearch
  <2>2. AskedInv'
    BY <2>1 DEF AskedInv, AsksKey, Idle, Genuine
  <2>3. search' = NoSearch
    BY <1>11 DEF EndSearch
  <2>4. <<>> \in Seq(Keys \cup {Blank, NoQuery}) /\ <<>> \in PaperSeq /\ Len(<<>>) = 0
    BY DEF PaperSeq
  <2>5. MaxLanes \in Nat
    BY SearchAssumption, LenProperties
  <2>6. /\ NoSearch \in SearchRec /\ NoSearch.begun = 0 /\ NoSearch.keys = <<>>
        /\ NoSearch.pc = "idle"
    BY <2>4 DEF NoSearch, SearchRec
  <2>7. SearchInv'
    BY <2>3, <2>4, <2>5, <2>6 DEF SearchInv
  <2>8. QED
    BY <2>2, <2>7
<1>12. CASE Research
  <2>1. /\ UNCHANGED call
        /\ search' = [NoSearch EXCEPT !.pc = "searching", !.keys = LanesOf(Current.plan)]
    BY <1>12 DEF Research, StartSearch
  <2>2. AskedInv'
    BY <2>1 DEF AskedInv, AsksKey
  <2>3. Current \in Lines
    BY <1>12, LenProperties DEF Research, ServerInv, Current
  <2>4. Current.plan \in Seq(Keys \cup {Blank, NoQuery})
    BY <2>3, ServerAssumption
  <2>5. PICK keys : keys = LanesOf(Current.plan)
    OBVIOUS
  <2>6. keys \in Seq(Keys \cup {Blank, NoQuery}) /\ Len(keys) <= MaxLanes
    BY <2>4, <2>5, FewLanes
  <2>7. Len(keys) \in Nat /\ <<>> \in PaperSeq
    BY <2>6, LenProperties DEF PaperSeq
  <2>8. /\ search' \in SearchRec /\ search'.begun = 0 /\ search'.keys = keys
        /\ search'.pc = "searching"
    BY <2>1, <2>5, <2>6, <2>7 DEF NoSearch, SearchRec
  <2>9. SearchInv'
    BY <2>6, <2>7, <2>8 DEF SearchInv
  <2>10. QED
    BY <2>2, <2>9
<1>13. CASE CallTool \/ \E c \in Others, k \in Keys : OtherCall(c, k)
  BY <1>5, <1>13, ServerAssumption DEF CallTool, OtherCall
<1>14. CASE ReplyToCall \/ \E c \in Others : OtherTakes(c)
  BY <1>7, <1>14 DEF ReplyToCall, OtherTakes
<1>15. CASE \E c \in Calls : /\ Respond(c) \/ FailAttempt(c) \/ WakeUp(c)
                             /\ UNCHANGED <<search, serverVars>>
  BY <1>6, <1>15 DEF Proceed
<1>16. CASE ReplyToResearch
  BY <1>11, <1>16 DEF ReplyToResearch
<1>17. CASE \/ \E line \in Lines : Send(line)
            \/ ReadLine \/ EndOfInput \/ HandleAtOnce \/ Overrun \/ SkipRest \/ Build
            \/ Critique \/ ReplyToCritique \/ ReplyToUnknown
            \/ (Tick \/ \E k \in Keys : Drop(k)) /\ UNCHANGED <<search, serverVars>>
            \/ UNCHANGED vars
  BY <1>4, <1>17 DEF Send, ReadLine, EndOfInput, HandleAtOnce, Overrun, SkipRest, Build, Critique,
                     ReplyToCritique, ReplyToUnknown, Tick, Drop, vars
<1>18. QED
  BY <1>8, <1>9, <1>10, <1>12, <1>13, <1>14, <1>15, <1>16, <1>17 DEF Next

\* What the server's invariant adds to that of its calls.
LEMMA SearchInvariant == Spec => [](AskedInv /\ SearchInv)
<1>1. Init => AskedInv /\ SearchInv
  BY SearchInit
<1>2. RetrievalInv /\ AskedInv /\ SearchInv /\ [Next]_vars => (AskedInv /\ SearchInv)'
  BY SearchStep DEF RetrievalInv
<1>3. QED
  BY <1>1, <1>2, Invariance, PTL DEF Spec

\* The merged list has every id that an answered lane or the RAG found, once, in the
\* order of the plan.
THEOREM SearchMergedExactly == Spec => []MergedExact
<1>1. SearchInv => MergedExact
  <2>1. SUFFICES ASSUME SearchInv PROVE MergedExact
    OBVIOUS
  <2>2. Len(search.keys) \in Nat /\ search.begun \in Nat
    BY <2>1, LenProperties DEF SearchInv, SearchRec
  <2>3. ASSUME search.pc = "done", NEW i \in DOMAIN LaneCalls
        PROVE  LaneCalls[i].pc = "done" /\ LaneCalls[i].key = search.keys[i]
    <3>1. i \in 1..Len(search.keys) /\ LaneCalls[i] = call[Lanes[i]]
      BY <2>3 DEF LaneCalls
    <3>2. QED
      BY <2>1, <2>3, <3>1 DEF SearchInv, LanesDone
  <2>4. QED
    BY <2>1, <2>3, MergedExactIs DEF SearchInv
<1>2. QED
  BY <1>1, SearchInvariant, PTL

\* Every variable of the server, its calls and its search keeps its type.
THEOREM ServerTypeCorrect == Spec => []TypeOK
<1>1. RetrievalInv /\ SearchInv => TypeOK
  BY DEF TypeOK, RetrievalInv, CallsInv, ServerInv, SearchInv, SearchRec
<1>2. QED
  BY <1>1, Invariance, SearchInvariant, PTL

-----------------------------------------------------------------------------
\* The document store.

\* The words after a up to b.
Run(a, b) == [k \in 1..(b - a) |-> a + k]

End(chunks, i) == IF i = 0 THEN 0 ELSE Last(chunks[i])

Long(doc) == {Ends(doc)[n - 1] + 1 : n \in {m \in 1..Len(doc) : doc[m] > MaxWords}}

\* The i-th chunk holds the words after a, as Faithful wants it.
Cut(chunks, i, a, long) ==
    /\ a < End(chunks, i) /\ chunks[i] = Run(a, End(chunks, i))
    /\ End(chunks, i - 1) - a \in 0..Overlap
    /\ End(chunks, i) - End(chunks, i - 1) \in 0..MaxWords
    /\ i > 1 /\ Overlap > 0 /\ a + 1 \notin long => a < End(chunks, i - 1)

WellCut(chunks, long) ==
    \A i \in 1..Len(chunks) : End(chunks, i) \in Nat /\ \E a \in Nat : Cut(chunks, i, a, long)

LoopState == [chunks : Seq(Seq(Nat)), buf : Seq(Nat), carry : Seq(Nat)]

\* The state of the loop after the sentences up to word e.
Loop(s, e, long) ==
    LET z == End(s.chunks, Len(s.chunks))
    IN  /\ s \in LoopState
        /\ WellCut(s.chunks, long)
        /\ z \in Nat /\ z <= e /\ e - z <= MaxWords /\ s.buf = Run(z, e)
        /\ \E a \in 0..z : /\ z - a <= Overlap /\ s.carry = Run(a, z)
                           /\ Len(s.chunks) > 0 /\ Overlap > 0 => a < z

LEMMA RunSeq ==
    ASSUME NEW a \in Nat, NEW b \in Nat, a <= b
    PROVE  Run(a, b) \in Seq(Nat) /\ Len(Run(a, b)) = b - a
<1>1. b - a \in Nat /\ \A k \in 1..(b - a) : a + k \in Nat
  OBVIOUS
<1>2. Run(a, b) \in [1..(b - a) -> Nat]
  BY <1>1 DEF Run
<1>3. QED
  BY <1>1, <1>2

LEMMA RunAt ==
    ASSUME NEW a \in Nat, NEW b \in Nat, NEW k \in 1..(b - a)
    PROVE  Run(a, b)[k] = a + k
  BY DEF Run

LEMMA RunLast ==
    ASSUME NEW a \in Nat, NEW b \in Nat, a < b
    PROVE  Last(Run(a, b)) = b /\ Run(a, b) # <<>>
<1>1. Run(a, b) \in Seq(Nat) /\ Len(Run(a, b)) = b - a
  BY RunSeq
<1>2. b - a \in 1..(b - a) /\ a + (b - a) = b
  OBVIOUS
<1>3. Run(a, b)[b - a] = b
  BY <1>2, RunAt
<1>4. QED
  BY <1>1, <1>2, <1>3 DEF Last

LEMMA RunNone ==
    ASSUME NEW a \in Nat
    PROVE  Run(a, a) = <<>>
<1>1. Run(a, a) \in Seq(Nat) /\ Len(Run(a, a)) = 0
  BY RunSeq
<1>2. QED
  BY <1>1, EmptySeq

LEMMA JoinRuns ==
    ASSUME NEW a \in Nat, NEW b \in Nat, NEW c \in Nat, a <= b, b <= c
    PROVE  Run(a, b) \o Run(b, c) = Run(a, c)
<1> DEFINE j == Run(a, b) \o Run(b, c)
<1>1. Run(a, b) \in Seq(Nat) /\ Len(Run(a, b)) = b - a
  BY RunSeq
<1>2. Run(b, c) \in Seq(Nat) /\ Len(Run(b, c)) = c - b
  BY RunSeq
<1>3. Run(a, c) \in Seq(Nat) /\ Len(Run(a, c)) = c - a
  <2>1. a <= c
    OBVIOUS
  <2>2. QED
    BY <2>1, RunSeq
<1>4. /\ j \in Seq(Nat) /\ Len(j) = c - a
      /\ \A k \in 1..(c - a) : j[k] = IF k <= b - a THEN Run(a, b)[k]
                                       ELSE Run(b, c)[k - (b - a)]
  <2>1. ASSUME NEW s \in Seq(Nat), NEW t \in Seq(Nat)
        PROVE  /\ s \o t \in Seq(Nat) /\ Len(s \o t) = Len(s) + Len(t)
               /\ \A k \in 1..(Len(s) + Len(t)) :
                    (s \o t)[k] = IF k <= Len(s) THEN s[k] ELSE t[k - Len(s)]
    BY ConcatProperties
  <2>2. (b - a) + (c - b) = c - a
    OBVIOUS
  <2>3. /\ j \in Seq(Nat) /\ Len(j) = Len(Run(a, b)) + Len(Run(b, c))
        /\ \A k \in 1..(Len(Run(a, b)) + Len(Run(b, c))) :
             j[k] = IF k <= Len(Run(a, b)) THEN Run(a, b)[k]
                    ELSE Run(b, c)[k - Len(Run(a, b))]
    BY <1>1, <1>2, <2>1, Zenon
  <2> HIDE DEF j
  <2>4. QED
    BY <1>1, <1>2, <2>2, <2>3
<1> HIDE DEF j
<1>5. ASSUME NEW k \in 1..(c - a) PROVE j[k] = Run(a, c)[k]
  <2>1. CASE k <= b - a
    <3>1. k \in 1..(b - a)
      BY <2>1
    <3>2. QED
      BY <1>4, <2>1, <3>1, RunAt
  <2>2. CASE k > b - a
    <3> DEFINE i == k - (b - a)
    <3>1. i \in 1..(c - b) /\ b + i = a + k
      BY <2>2
    <3>2. Run(b, c)[i] = b + i
      BY <3>1, RunAt
    <3>3. ~(k <= b - a) /\ a \in Nat /\ k \in 1..(c - a) /\ a + k \in 1..c
      BY <2>2
    <3>4. Run(a, c)[k] = a + k
      BY RunAt
    <3>5. j[k] = Run(b, c)[i]
      BY <1>4, <3>3
    <3>6. QED
      BY <3>1, <3>2, <3>4, <3>5
  <2>3. k <= b - a \/ k > b - a
    OBVIOUS
  <2>4. QED
    BY <2>1, <2>2, <2>3
<1>6. \A k \in 1..Len(j) : j[k] = Run(a, c)[k]
  BY <1>4, <1>5
<1>7. QED
  <2>1. j \in Seq(Nat) /\ Run(a, c) \in Seq(Nat) /\ Len(j) = Len(Run(a, c))
    BY <1>3, <1>4
  <2>2. j = Run(a, c)
    BY <1>6, <2>1, SeqEqual, Zenon
  <2>3. QED
    BY <2>2 DEF j

LEMMA CutRun ==
    ASSUME NEW a \in Nat, NEW b \in Nat, NEW p \in Nat, NEW q \in Nat, p <= q, a + q <= b
    PROVE  SubSeq(Run(a, b), p + 1, q) = Run(a + p, a + q)
<1> DEFINE s == SubSeq(Run(a, b), p + 1, q)
<1>1. a <= b /\ a + p <= a + q /\ a + p \in Nat /\ a + q \in Nat
  OBVIOUS
<1>2. \A k \in (p + 1)..q : Run(a, b)[k] = a + k /\ a + k \in Nat
  <2>1. \A k \in (p + 1)..q : k \in 1..(b - a) /\ a + k \in Nat
    OBVIOUS
  <2>2. QED
    BY <2>1, RunAt
<1>3. /\ s \in Seq(Nat) /\ Len(s) = q - p
      /\ \A k \in 1..(q - p) : s[k] = Run(a, b)[p + k]
  <2>1. p + 1 \in Int /\ q \in Int /\ \A k \in (p + 1)..q : Run(a, b)[k] \in Nat
    BY <1>2
  <2> HIDE DEF s
  <2>2. /\ s \in Seq(Nat)
        /\ Len(s) = IF p + 1 <= q THEN q - (p + 1) + 1 ELSE 0
        /\ \A k \in 1..(q - (p + 1) + 1) : s[k] = Run(a, b)[p + 1 + k - 1]
    BY <2>1, SubSeqProperties DEF s
  <2>3. QED
    BY <2>2
<1>4. \A k \in 1..(q - p) : s[k] = a + p + k
  <2>1. \A k \in 1..(q - p) : p + k \in (p + 1)..q
    OBVIOUS
  <2>2. QED
    BY <1>2, <1>3, <2>1
<1>5. \A k \in 1..(q - p) : Run(a + p, a + q)[k] = a + p + k
  <2>1. (a + q) - (a + p) = q - p
    OBVIOUS
  <2>2. QED
    BY <1>1, <2>1, RunAt
<1>6. Run(a + p, a + q) \in Seq(Nat) /\ Len(Run(a + p, a + q)) = q - p
  <2>1. Run(a + p, a + q) \in Seq(Nat) /\ Len(Run(a + p, a + q)) = (a + q) - (a + p)
    BY <1>1, RunSeq
  <2>2. QED
    BY <2>1
<1>7. \A k \in 1..Len(s) : s[k] = Run(a + p, a + q)[k]
  BY <1>3, <1>4, <1>5
<1> HIDE DEF s
<1>8. Len(s) = Len(Run(a + p, a + q))
  BY <1>3, <1>6
<1>9. s = Run(a + p, a + q)
  BY <1>3, <1>6, <1>7, <1>8, SeqEqual, Zenon
<1>10. QED
  BY <1>9 DEF s

LEMMA CutRunAt ==
    \A z, u, v, w \in Nat :
      u <= v /\ z + v <= w => SubSeq(Run(z, w), u + 1, v) = Run(z + u, z + v)
  BY CutRun

LEMMA TailRun ==
    ASSUME NEW a \in Nat, NEW b \in Nat, a < b
    PROVE  \E c \in a..b : /\ Tail_(Run(a, b)) = Run(c, b) /\ b - c <= Overlap
                           /\ Overlap > 0 => c < b
<1> DEFINE c == IF b - a > Overlap THEN b - Overlap ELSE a
<1>1. Overlap \in Nat
  BY RagAssumption
<1>2. c \in a..b /\ b - c <= Overlap /\ (Overlap > 0 => c < b)
  BY <1>1
<1>3. Len(Run(a, b)) = b - a
  BY RunSeq
<1>4. Tail_(Run(a, b)) = SubSeq(Run(a, b), (c - a) + 1, b - a)
  BY <1>1, <1>3 DEF Tail_
<1>5. SubSeq(Run(a, b), (c - a) + 1, b - a) = Run(a + (c - a), a + (b - a))
  <2>1. c - a \in Nat /\ b - a \in Nat /\ c - a <= b - a /\ a + (b - a) <= b
    BY <1>2
  <2>2. QED
    BY <2>1, CutRunAt
<1>6. Run(a + (c - a), a + (b - a)) = Run(c, b)
  <2>1. a + (c - a) = c /\ a + (b - a) = b
    BY <1>2
  <2>2. QED
    BY <2>1
<1>7. QED
  BY <1>2, <1>4, <1>5, <1>6

-----------------------------------------------------------------------------
\* A chunk more, which replays from the end of the last one, keeps the cut.
LEMMA OneMore ==
    ASSUME NEW chunks \in Seq(Seq(Nat)), NEW long, WellCut(chunks, long),
           NEW a \in Nat, NEW b \in Nat, a < b,
           LET z == End(chunks, Len(chunks))
           IN  /\ z \in Nat /\ z - a \in 0..Overlap /\ b - z \in 0..MaxWords
               /\ Len(chunks) > 0 /\ Overlap > 0 /\ a + 1 \notin long => a < z
    PROVE  LET more == Append(chunks, Run(a, b))
           IN  /\ more \in Seq(Seq(Nat)) /\ Len(more) = Len(chunks) + 1
               /\ WellCut(more, long) /\ End(more, Len(more)) = b
<1> DEFINE more == Append(chunks, Run(a, b))
           N == Len(chunks)
<1>1. Run(a, b) \in Seq(Nat) /\ Last(Run(a, b)) = b /\ N \in Nat
  <2>1. Run(a, b) \in Seq(Nat)
    BY RunSeq
  <2>2. Last(Run(a, b)) = b
    BY RunLast
  <2>3. N \in Nat
    BY LenProperties
  <2>4. QED
    BY <2>1, <2>2, <2>3
<1>2. /\ more \in Seq(Seq(Nat)) /\ Len(more) = N + 1
      /\ \A i \in 1..N : more[i] = chunks[i]
      /\ more[N + 1] = Run(a, b)
  BY <1>1, AppendProperties
<1> HIDE DEF more
<1>3. \A i \in 0..N : End(more, i) = End(chunks, i)
  BY <1>1, <1>2 DEF End
<1>4. End(more, N + 1) = b
  BY <1>1, <1>2 DEF End
<1>5. ASSUME NEW i \in 1..N
      PROVE  End(more, i) \in Nat /\ \E c \in Nat : Cut(more, i, c, long)
  <2>1. PICK c \in Nat : Cut(chunks, i, c, long)
    BY DEF WellCut
  <2>2. /\ End(more, i) = End(chunks, i) /\ End(more, i - 1) = End(chunks, i - 1)
        /\ more[i] = chunks[i] /\ End(chunks, i) \in Nat
    BY <1>1, <1>2, <1>3 DEF WellCut
  <2>3. Cut(more, i, c, long)
    BY <2>1, <2>2 DEF Cut
  <2>4. QED
    BY <2>2, <2>3
<1>6. Cut(more, N + 1, a, long)
  <2>1. /\ (N + 1) - 1 = N /\ N \in 0..N
        /\ N + 1 > 1 <=> N > 0
    BY <1>1
  <2>2. End(more, (N + 1) - 1) = End(chunks, N)
    BY <1>3, <2>1
  <2>3. more[N + 1] = Run(a, End(more, N + 1))
    BY <1>2, <1>4
  <2>4. QED
    BY <1>4, <2>1, <2>2, <2>3 DEF Cut
<1>7. WellCut(more, long)
  <2>1. ASSUME NEW i \in 1..(N + 1)
        PROVE  End(more, i) \in Nat /\ \E c \in Nat : Cut(more, i, c, long)
    <3>1. i \in 1..N \/ i = N + 1
      BY <1>1
    <3>2. QED
      BY <1>4, <1>5, <1>6, <3>1
  <2>2. QED
    BY <1>2, <2>1 DEF WellCut
<1>8. QED
  BY <1>2, <1>4, <1>7 DEF more

LEMMA FlushKeeps ==
    ASSUME NEW s, NEW e \in Nat, NEW long, Loop(s, e, long)
    PROVE  /\ Loop(Flush(s), e, long) /\ Flush(s).buf = <<>>
           /\ End(Flush(s).chunks, Len(Flush(s).chunks)) = e
<1> DEFINE z == End(s.chunks, Len(s.chunks))
<1>1. /\ s \in LoopState /\ WellCut(s.chunks, long)
      /\ z \in Nat /\ z <= e /\ e - z <= MaxWords /\ s.buf = Run(z, e)
  BY DEF Loop
<1> HIDE DEF z
<1>2. s.chunks \in Seq(Seq(Nat)) /\ s.buf \in Seq(Nat) /\ s.carry \in Seq(Nat)
  BY <1>1 DEF LoopState
<1>3. MaxWords \in Nat /\ Overlap \in Nat
  BY RagAssumption
<1>4. CASE s.buf = <<>>
  <2>1. z < e => Run(z, e) # <<>>
    BY <1>1, RunLast
  <2>2. z = e
    BY <1>1, <1>4, <2>1
  <2>3. QED
    BY <1>4, <2>2 DEF Flush, z
<1>5. CASE s.buf # <<>>
  <2>1. z < e
    BY <1>1, <1>5, RunNone
  <2>2. PICK a \in 0..z : /\ z - a <= Overlap /\ s.carry = Run(a, z)
                          /\ Len(s.chunks) > 0 /\ Overlap > 0 => a < z
    BY DEF Loop, z
  <2>3. a \in Nat /\ a < e /\ z - a \in 0..Overlap /\ e - z \in 0..MaxWords /\ a <= z
    BY <1>1, <1>3, <2>1, <2>2
  <2>4. s.carry \o s.buf = Run(a, e)
    BY <1>1, <2>2, <2>3, JoinRuns
  <2> DEFINE more == Append(s.chunks, Run(a, e))
  <2>5. /\ more \in Seq(Seq(Nat)) /\ Len(more) = Len(s.chunks) + 1
        /\ WellCut(more, long) /\ End(more, Len(more)) = e
    BY <1>1, <1>2, <2>2, <2>3, OneMore DEF z
  <2>6. Flush(s) = [chunks |-> more, buf |-> <<>>, carry |-> Tail_(s.buf)]
    BY <1>5, <2>4 DEF Flush
  <2> HIDE DEF more
  <2>7. PICK c \in z..e : /\ Tail_(Run(z, e)) = Run(c, e) /\ e - c <= Overlap
                          /\ Overlap > 0 => c < e
    BY <1>1, <2>1, TailRun
  <2>8. Run(c, e) \in Seq(Nat)
    <3>1. c \in Nat /\ c <= e
      BY <1>1, <2>7
    <3>2. QED
      BY <3>1, RunSeq
  <2>9. Flush(s) \in LoopState
    BY <1>1, <2>5, <2>6, <2>7, <2>8 DEF LoopState
  <2>10. Run(e, e) = <<>>
    BY RunNone
  <2>11. c \in 0..e
    BY <1>1, <2>7
  <2>12. /\ Flush(s).chunks = more /\ Flush(s).buf = <<>> /\ Flush(s).carry = Run(c, e)
    BY <1>1, <2>6, <2>7
  <2>13. /\ e \in Nat /\ e <= e /\ e - e <= MaxWords
         /\ \E k \in 0..e : /\ e - k <= Overlap /\ Flush(s).carry = Run(k, e)
                            /\ Len(more) > 0 /\ Overlap > 0 => k < e
    BY <1>3, <2>7, <2>11, <2>12
  <2>14. Loop(Flush(s), e, long)
    BY <2>5, <2>9, <2>10, <2>12, <2>13 DEF Loop
  <2>15. QED
    BY <2>5, <2>12, <2>14
<1>6. QED
  BY <1>4, <1>5

-----------------------------------------------------------------------------
\* How many windows start in a sentence: none after its last word, one every
\* Step words.
LEMMA WindowCount ==
    ASSUME NEW len \in Nat, len > MaxWords
    PROVE  LET count == (len + Step - 1) \div Step
           IN  /\ Step \in Nat \ {0} /\ count \in Nat \ {0}
               /\ \A k \in 1..count : /\ (k - 1) * Step \in Nat /\ (k - 1) * Step < len
                                      /\ k * Step = (k - 1) * Step + Step
               /\ count * Step >= len
<1> DEFINE count == (len + Step - 1) \div Step
<1>1. Step \in Nat /\ Step > 0 /\ len > 0
  <2>1. Overlap \in Nat /\ MaxWords \in Nat /\ Overlap < MaxWords
    BY RagAssumption
  <2>2. QED
    BY <2>1 DEF Step
<1>2. PICK q \in Nat : q = Step /\ q > 0
  BY <1>1
<1>3. ASSUME NEW n \in Nat, n > 0
      PROVE  LET c == (n + q - 1) \div q
             IN  c \in Nat /\ c > 0 /\ c * q >= n /\ (c - 1) * q < n
  <2> DEFINE c == (n + q - 1) \div q
             r == (n + q - 1) % q
  <2>1. c \in Int /\ r \in Int /\ 0 <= r /\ r < q /\ n + q - 1 = q * c + r
    BY <1>2, <1>3
  <2> HIDE DEF c, r
  <2>2. q * c >= n
    BY <2>1, <1>2
  <2>3. c > 0
    BY <2>2, <1>2, <1>3, <2>1
  <2>4. (c - 1) * q = q * c - q /\ c * q = q * c
    BY <1>2, <2>1
  <2>5. q * c - q < n
    BY <1>2, <2>1
  <2>6. QED
    BY <2>1, <2>2, <2>3, <2>4, <2>5 DEF c
<1>4. count \in Nat /\ count > 0 /\ count * q >= len /\ (count - 1) * q < len
  BY <1>1, <1>2, <1>3
<1> HIDE DEF count
<1>5. ASSUME NEW k \in 1..count
      PROVE  (k - 1) * q \in Nat /\ (k - 1) * q < len /\ k * q = (k - 1) * q + q
  <2>1. (k - 1) * q <= (count - 1) * q /\ (count - 1) * q \in Nat
    BY <1>2, <1>4
  <2>2. (k - 1) * q \in Nat /\ k * q = (k - 1) * q + q
    BY <1>2, <1>4
  <2>3. QED
    BY <1>4, <2>1, <2>2
<1>6. QED
  BY <1>2, <1>4, <1>5 DEF count

\* The k-th window of a sentence of len words holds its words after From(k) up to
\* Upto(k, len).
From(k) == (k - 1) * Step
Upto(k, len) == IF From(k) + MaxWords < len THEN From(k) + MaxWords ELSE len
WindowsIn(len) == (len + Step - 1) \div Step

LEMMA WindowPlaces ==
    ASSUME NEW len \in Nat, len > MaxWords
    PROVE  /\ WindowsIn(len) \in Nat \ {0}
           /\ \A k \in 1..WindowsIn(len) :
                /\ From(k) \in Nat /\ Upto(k, len) \in Nat
                /\ From(k) < Upto(k, len) /\ Upto(k, len) <= len
           /\ From(1) = 0 /\ Upto(1, len) = MaxWords /\ Upto(WindowsIn(len), len) = len
           /\ \A k \in 2..WindowsIn(len) :
                /\ Upto(k - 1, len) - From(k) \in 0..Overlap
                /\ Overlap > 0 => From(k) < Upto(k - 1, len)
                /\ Upto(k, len) - Upto(k - 1, len) \in 0..MaxWords
<1>1. Overlap \in Nat /\ MaxWords \in Nat /\ Overlap < MaxWords /\ Step = MaxWords - Overlap
  BY RagAssumption DEF Step
<1>2. /\ Step \in Nat \ {0} /\ WindowsIn(len) \in Nat \ {0}
      /\ \A k \in 1..WindowsIn(len) : /\ (k - 1) * Step \in Nat /\ (k - 1) * Step < len
                                      /\ k * Step = (k - 1) * Step + Step
      /\ WindowsIn(len) * Step >= len
  BY WindowCount DEF WindowsIn
<1> DEFINE count == WindowsIn(len)
<1> HIDE DEF count
<1>3. /\ \A k \in 1..count : /\ From(k) \in Nat /\ From(k) < len
                             /\ k * Step = From(k) + Step
      /\ From(1) = 0
  BY <1>2 DEF From, count
<1>4. \A k \in 2..count : From(k) = From(k - 1) + Step
  <2>1. ASSUME NEW k \in 2..count PROVE From(k) = From(k - 1) + Step
    <3>1. k - 1 \in 1..count
      BY <1>2 DEF count
    <3>2. (k - 1) * Step = From(k - 1) + Step
      BY <1>3, <3>1
    <3>3. QED
      BY <3>2 DEF From
  <2>2. QED
    BY <2>1
<1>5. ASSUME NEW k \in 1..count
      PROVE  /\ From(k) \in Nat /\ Upto(k, len) \in Nat
             /\ From(k) < Upto(k, len) /\ Upto(k, len) <= len
  BY <1>1, <1>3 DEF Upto
<1>6. ASSUME NEW k \in 2..count
      PROVE  /\ Upto(k - 1, len) - From(k) \in 0..Overlap
             /\ Overlap > 0 => From(k) < Upto(k - 1, len)
             /\ Upto(k, len) - Upto(k - 1, len) \in 0..MaxWords
  <2>1. k \in 1..count /\ k - 1 \in 1..count
    BY <1>2 DEF count
  <2>2. PICK m \in Nat : m = From(k - 1) /\ From(k) = m + Step /\ m + Step < len
    BY <1>3, <1>4, <2>1
  <2>3. /\ Upto(k - 1, len) = IF m + MaxWords < len THEN m + MaxWords ELSE len
        /\ Upto(k, len) = IF m + Step + MaxWords < len THEN m + Step + MaxWords ELSE len
    BY <2>2 DEF Upto
  <2>4. QED
    BY <1>1, <2>2, <2>3
<1>7. Upto(1, len) = MaxWords
  BY <1>1, <1>3 DEF Upto
<1>8. Upto(count, len) = len
  <2>1. count \in 1..count /\ count * Step = From(count) + Step /\ From(count) \in Nat
    BY <1>2, <1>3 DEF count
  <2>2. From(count) + Step >= len
    BY <1>2, <2>1 DEF count
  <2>3. From(count) + MaxWords >= len
    BY <1>1, <2>1, <2>2
  <2>4. QED
    BY <1>1, <2>1, <2>3 DEF Upto
<1>9. QED
  BY <1>2, <1>3, <1>5, <1>6, <1>7, <1>8 DEF count

LEMMA WindowRuns ==
    ASSUME NEW z \in Nat, NEW len \in Nat, len > MaxWords
    PROVE  LET ws == Windows(Run(z, z + len))
           IN  /\ ws \in Seq(Seq(Nat)) /\ Len(ws) = WindowsIn(len)
               /\ \A k \in 1..WindowsIn(len) : ws[k] = Run(z + From(k), z + Upto(k, len))
<1> DEFINE ws == Windows(Run(z, z + len))
           run(k) == Run(z + From(k), z + Upto(k, len))
<1>1. z + len \in Nat /\ Len(Run(z, z + len)) = len
  <2>1. z + len \in Nat /\ z <= z + len /\ z + len - z = len
    OBVIOUS
  <2>2. QED
    BY <2>1, RunSeq
<1>2. ws = [k \in 1..WindowsIn(len) |->
              SubSeq(Run(z, z + len), From(k) + 1, Upto(k, len))]
  BY <1>1 DEF Windows, WindowsIn, From, Upto
<1> HIDE DEF ws
<1>3. ASSUME NEW k \in 1..WindowsIn(len)
      PROVE  ws[k] = run(k) /\ run(k) \in Seq(Nat)
  <2>1. /\ From(k) \in Nat /\ Upto(k, len) \in Nat
        /\ From(k) <= Upto(k, len) /\ Upto(k, len) <= len
    BY WindowPlaces
  <2>2. ws[k] = SubSeq(Run(z, z + len), From(k) + 1, Upto(k, len))
    BY <1>2
  <2>3. z + Upto(k, len) <= z + len
    BY <2>1
  <2>4. ws[k] = run(k)
    <3>1. PICK u \in Nat : u = From(k)
      BY <2>1
    <3>2. PICK v \in Nat : v = Upto(k, len)
      BY <2>1
    <3>3. PICK w \in Nat : w = z + len
      BY <1>1
    <3>4. u <= v
      BY <2>1, <3>1, <3>2
    <3>5. z + v <= w
      BY <2>3, <3>2, <3>3
    <3>6. SubSeq(Run(z, w), u + 1, v) = Run(z + u, z + v)
      BY <3>4, <3>5, CutRunAt
    <3>7. QED
      BY <2>2, <3>1, <3>2, <3>3, <3>6
  <2>5. /\ z + From(k) \in Nat /\ z + Upto(k, len) \in Nat
        /\ z + From(k) <= z + Upto(k, len)
    BY <2>1
  <2>6. run(k) \in Seq(Nat)
    BY <2>5, RunSeq
  <2>7. QED
    BY <2>4, <2>6
<1>4. ws \in [1..WindowsIn(len) -> Seq(Nat)]
  BY <1>2, <1>3
<1>5. WindowsIn(len) \in Nat
  BY WindowPlaces
<1>6. ws \in Seq(Seq(Nat)) /\ Len(ws) = WindowsIn(len)
  BY <1>4, <1>5
<1>7. QED
  BY <1>3, <1>6 DEF ws

\* A sentence too long for a chunk keeps the cut: its first window starts with it.
LEMMA Windowed ==
    ASSUME NEW chunks \in Seq(Seq(Nat)), NEW long, WellCut(chunks, long),
           NEW z \in Nat, End(chunks, Len(chunks)) = z, z + 1 \in long,
           NEW len \in Nat, len > MaxWords
    PROVE  LET more == chunks \o Windows(Run(z, z + len))
           IN  /\ more \in Seq(Seq(Nat)) /\ Len(more) > 0
               /\ WellCut(more, long) /\ End(more, Len(more)) = z + len
<1> DEFINE ws == Windows(Run(z, z + len))
           more == chunks \o ws
           N == Len(chunks)
           W == WindowsIn(len)
<1>1. /\ ws \in Seq(Seq(Nat)) /\ Len(ws) = W
      /\ \A k \in 1..W : ws[k] = Run(z + From(k), z + Upto(k, len))
  BY WindowRuns
<1>2. N \in Nat /\ W \in Nat /\ W > 0 /\ MaxWords \in Nat /\ Overlap \in Nat
  <2>1. WindowsIn(len) \in Nat \ {0}
    BY WindowPlaces
  <2>2. N \in Nat
    BY LenProperties
  <2>3. MaxWords \in Nat /\ Overlap \in Nat
    BY RagAssumption
  <2>4. W > 0
    BY <2>1
  <2>5. QED
    BY <2>1, <2>2, <2>3, <2>4
<1> HIDE DEF ws
<1>3. /\ more \in Seq(Seq(Nat)) /\ Len(more) = N + W
      /\ \A i \in 1..N : more[i] = chunks[i]
      /\ \A k \in 1..W : more[N + k] = ws[k]
  <2>1. /\ more \in Seq(Seq(Nat)) /\ Len(more) = Len(chunks) + Len(ws)
        /\ \A i \in 1..(Len(chunks) + Len(ws)) :
             more[i] = IF i <= Len(chunks) THEN chunks[i] ELSE ws[i - Len(chunks)]
    <3>1. ASSUME NEW s \in Seq(Seq(Nat)), NEW t \in Seq(Seq(Nat))
          PROVE  /\ s \o t \in Seq(Seq(Nat)) /\ Len(s \o t) = Len(s) + Len(t)
                 /\ \A i \in 1..(Len(s) + Len(t)) :
                      (s \o t)[i] = IF i <= Len(s) THEN s[i] ELSE t[i - Len(s)]
      BY ConcatProperties
    <3>2. QED
      BY <1>1, <3>1, Zenon
  <2> HIDE DEF more
  <2>2. \A i \in 1..N : more[i] = chunks[i]
    BY <1>1, <1>2, <2>1
  <2>3. ASSUME NEW k \in 1..W PROVE more[N + k] = ws[k]
    <3>1. N + k \in 1..(N + W) /\ ~(N + k <= N) /\ (N + k) - N = k
      BY <1>2
    <3>2. QED
      BY <1>1, <2>1, <3>1
  <2>4. QED
    BY <1>1, <2>1, <2>2, <2>3
<1> HIDE DEF more
<1>4. \A i \in 0..N : End(more, i) = End(chunks, i)
  BY <1>2, <1>3 DEF End
<1>5. ASSUME NEW k \in 1..W
      PROVE  /\ End(more, N + k) = z + Upto(k, len)
             /\ more[N + k] = Run(z + From(k), End(more, N + k))
             /\ z + From(k) \in Nat /\ End(more, N + k) \in Nat
             /\ z + From(k) < End(more, N + k)
  <2>1. /\ From(k) \in Nat /\ Upto(k, len) \in Nat /\ From(k) < Upto(k, len)
    BY WindowPlaces
  <2>2. /\ z + From(k) \in Nat /\ z + Upto(k, len) \in Nat
        /\ z + From(k) < z + Upto(k, len)
    BY <2>1
  <2>3. Last(Run(z + From(k), z + Upto(k, len))) = z + Upto(k, len)
    BY <2>2, RunLast
  <2>4. End(more, N + k) = z + Upto(k, len)
    <3>1. N + k # 0 /\ more[N + k] = Run(z + From(k), z + Upto(k, len))
      BY <1>1, <1>2, <1>3
    <3>2. QED
      BY <2>3, <3>1 DEF End
  <2>5. QED
    BY <1>1, <1>3, <2>2, <2>4
<1>6. ASSUME NEW i \in 1..N
      PROVE  End(more, i) \in Nat /\ \E c \in Nat : Cut(more, i, c, long)
  <2>1. PICK c \in Nat : Cut(chunks, i, c, long)
    BY DEF WellCut
  <2>2. /\ End(more, i) = End(chunks, i) /\ End(more, i - 1) = End(chunks, i - 1)
        /\ more[i] = chunks[i] /\ End(chunks, i) \in Nat
    BY <1>2, <1>3, <1>4 DEF WellCut
  <2>3. Cut(more, i, c, long)
    BY <2>1, <2>2 DEF Cut
  <2>4. QED
    BY <2>2, <2>3
<1>7. Cut(more, N + 1, z, long)
  <2>1. 1 \in 1..W /\ From(1) = 0 /\ Upto(1, len) = MaxWords
    BY <1>2, WindowPlaces
  <2>2. /\ End(more, N + 1) = z + MaxWords /\ more[N + 1] = Run(z, End(more, N + 1))
        /\ z < End(more, N + 1)
    BY <1>5, <2>1
  <2>3. End(more, (N + 1) - 1) = z
    BY <1>2, <1>4
  <2>4. QED
    BY <1>2, <2>2, <2>3 DEF Cut
<1>8. ASSUME NEW k \in 2..W PROVE Cut(more, N + k, z + From(k), long)
  <2>1. k \in 1..W /\ k - 1 \in 1..W /\ (N + k) - 1 = N + (k - 1)
    BY <1>2
  <2>2. /\ Upto(k - 1, len) - From(k) \in 0..Overlap
        /\ Overlap > 0 => From(k) < Upto(k - 1, len)
        /\ Upto(k, len) - Upto(k - 1, len) \in 0..MaxWords
        /\ From(k) \in Nat /\ Upto(k, len) \in Nat /\ Upto(k - 1, len) \in Nat
    BY <2>1, WindowPlaces
  <2>3. End(more, (N + k) - 1) = z + Upto(k - 1, len)
    BY <1>5, <2>1
  <2>4. /\ End(more, N + k) = z + Upto(k, len)
        /\ more[N + k] = Run(z + From(k), End(more, N + k))
        /\ z + From(k) < End(more, N + k)
    BY <1>5, <2>1
  <2>5. /\ (z + Upto(k - 1, len)) - (z + From(k)) \in 0..Overlap
        /\ (z + Upto(k, len)) - (z + Upto(k - 1, len)) \in 0..MaxWords
        /\ Overlap > 0 => z + From(k) < z + Upto(k - 1, len)
    <3>1. \A f, u, v \in Nat : /\ (z + u) - (z + f) = u - f /\ (z + v) - (z + u) = v - u
                               /\ f < u => z + f < z + u
      OBVIOUS
    <3>2. QED
      BY <2>2, <3>1
  <2>6. QED
    BY <2>3, <2>4, <2>5 DEF Cut
<1>9. WellCut(more, long)
  <2>1. ASSUME NEW i \in 1..(N + W)
        PROVE  End(more, i) \in Nat /\ \E c \in Nat : Cut(more, i, c, long)
    <3>1. CASE i \in 1..N
      BY <1>6, <3>1
    <3>2. CASE i = N + 1
      BY <1>2, <1>5, <1>7, <3>2
    <3>3. CASE i \in (N + 2)..(N + W)
      <4>1. PICK k \in 2..W : i = N + k
        <5>1. i - N \in 2..W /\ i = N + (i - N)
          BY <1>2, <3>3
        <5>2. QED
          BY <5>1
      <4>2. k \in 1..W
        OBVIOUS
      <4>3. QED
        BY <1>5, <1>8, <4>1, <4>2
    <3>4. i \in 1..N \/ i = N + 1 \/ i \in (N + 2)..(N + W)
      BY <1>2
    <3>5. QED
      BY <3>1, <3>2, <3>3, <3>4
  <2>2. QED
    BY <1>3, <2>1 DEF WellCut
<1>10. End(more, Len(more)) = z + len
  <2>1. W \in 1..W /\ Upto(W, len) = len
    BY <1>2, WindowPlaces
  <2>2. QED
    BY <1>3, <1>5, <2>1
<1>11. QED
  BY <1>2, <1>3, <1>9, <1>10 DEF more, ws

-----------------------------------------------------------------------------
\* A sentence more.
LEMMA TakeKeeps ==
    ASSUME NEW s, NEW e \in Nat, NEW long, Loop(s, e, long), NEW len \in Nat \ {0},
           len > MaxWords => e + 1 \in long
    PROVE  Loop(TakeSentence(s, Run(e, e + len)), e + len, long)
<1> DEFINE words == Run(e, e + len)
           t == TakeSentence(s, words)
<1>1. MaxWords \in Nat /\ Overlap \in Nat
  BY RagAssumption
<1>2. e + len \in Nat /\ e <= e + len /\ (e + len) - e = len
  OBVIOUS
<1>3. words \in Seq(Nat) /\ Len(words) = len
  BY <1>2, RunSeq
<1> HIDE DEF words
<1>4. CASE len > MaxWords
  <2> DEFINE f == Flush(s)
             ws == Windows(words)
             more == f.chunks \o ws
  <2>1. Loop(f, e, long) /\ End(f.chunks, Len(f.chunks)) = e
    BY FlushKeeps
  <2>2. f.chunks \in Seq(Seq(Nat)) /\ WellCut(f.chunks, long)
    BY <2>1 DEF Loop, LoopState
  <2>3. t = [chunks |-> more, buf |-> <<>>, carry |-> Tail_(Last(ws))]
    BY <1>3, <1>4 DEF TakeSentence
  <2>4. /\ more \in Seq(Seq(Nat)) /\ Len(more) > 0
        /\ WellCut(more, long) /\ End(more, Len(more)) = e + len
    <3>1. PICK cs \in Seq(Seq(Nat)) : cs = f.chunks
      BY <2>2
    <3>2. WellCut(cs, long) /\ End(cs, Len(cs)) = e /\ e + 1 \in long
      BY <1>4, <2>1, <2>2, <3>1
    <3>3. /\ cs \o Windows(Run(e, e + len)) \in Seq(Seq(Nat))
          /\ Len(cs \o Windows(Run(e, e + len))) > 0
          /\ WellCut(cs \o Windows(Run(e, e + len)), long)
          /\ End(cs \o Windows(Run(e, e + len)),
                 Len(cs \o Windows(Run(e, e + len)))) = e + len
      BY <1>4, <3>2, Windowed
    <3> HIDE DEF f
    <3>4. QED
      BY <3>1, <3>3 DEF words
  <2> DEFINE W == WindowsIn(len)
  <2>5. /\ W \in Nat /\ W > 0 /\ From(W) \in Nat /\ From(W) < len /\ Upto(W, len) = len
    <3>1. WindowsIn(len) \in Nat \ {0}
      BY <1>4, WindowPlaces
    <3>2. WindowsIn(len) \in 1..WindowsIn(len)
      BY <3>1
    <3>3. From(W) \in Nat /\ From(W) < Upto(W, len) /\ Upto(W, len) = len
      BY <1>4, <3>2, WindowPlaces
    <3>4. QED
      BY <3>1, <3>3
  <2>6. Last(ws) = Run(e + From(W), e + len)
    <3>1. Len(ws) = W /\ \A k \in 1..W : ws[k] = Run(e + From(k), e + Upto(k, len))
      BY <1>4, WindowRuns DEF words
    <3>2. W \in 1..W
      BY <2>5
    <3>3. ws[W] = Run(e + From(W), e + Upto(W, len))
      BY <3>1, <3>2
    <3>4. QED
      BY <2>5, <3>1, <3>3 DEF Last
  <2> HIDE DEF f, ws, more, t, W
  <2>7. PICK c \in (e + From(W))..(e + len) :
          /\ Tail_(Run(e + From(W), e + len)) = Run(c, e + len) /\ (e + len) - c <= Overlap
          /\ Overlap > 0 => c < e + len
    <3>1. e + From(W) \in Nat /\ e + From(W) < e + len
      BY <2>5
    <3>2. QED
      BY <1>2, <3>1, TailRun
  <2>8. c \in 0..(e + len) /\ c \in Nat /\ c <= e + len
    BY <2>5, <2>7
  <2>9. Run(c, e + len) \in Seq(Nat) /\ Run(e + len, e + len) = <<>>
    BY <1>2, <2>8, RunSeq, RunNone
  <2>10. t.chunks = more /\ t.buf = <<>> /\ t.carry = Run(c, e + len) /\ t \in LoopState
    BY <2>3, <2>4, <2>6, <2>7, <2>9 DEF LoopState
  <2>11. /\ e + len \in Nat /\ e + len <= e + len /\ (e + len) - (e + len) <= MaxWords
         /\ \E k \in 0..(e + len) :
              /\ (e + len) - k <= Overlap /\ t.carry = Run(k, e + len)
              /\ Len(more) > 0 /\ Overlap > 0 => k < e + len
    BY <1>1, <2>7, <2>8, <2>10
  <2>12. Loop(t, e + len, long)
    BY <2>4, <2>9, <2>10, <2>11 DEF Loop
  <2>13. QED
    BY <2>12 DEF t, words
<1>5. CASE ~(len > MaxWords)
  <2> DEFINE room == IF Len(s.buf) + len > MaxWords THEN Flush(s) ELSE s
             z == End(room.chunks, Len(room.chunks))
  <2>1. Loop(room, e, long) /\ z \in Nat /\ z <= e /\ (e + len) - z <= MaxWords
    <3>1. CASE Len(s.buf) + len > MaxWords
      <4>1. room = Flush(s)
        BY <3>1
      <4>2. Loop(room, e, long) /\ z = e
        BY <4>1, FlushKeeps
      <4>3. QED
        BY <1>1, <1>5, <4>2
    <3>2. CASE ~(Len(s.buf) + len > MaxWords)
      <4>1. room = s
        BY <3>2
      <4>2. z \in Nat /\ z <= e /\ s.buf = Run(z, e)
        BY <4>1 DEF Loop
      <4>3. Len(s.buf) = e - z
        BY <4>2, RunSeq
      <4> HIDE DEF z, room
      <4>4. (e + len) - z <= MaxWords
        BY <1>1, <3>2, <4>2, <4>3
      <4>5. QED
        BY <4>1, <4>2, <4>4
    <3>3. QED
      BY <3>1, <3>2
  <2>2. t = [room EXCEPT !.buf = @ \o words]
    BY <1>3, <1>5 DEF TakeSentence
  <2> HIDE DEF room, t
  <2>3. /\ room \in LoopState /\ WellCut(room.chunks, long) /\ room.buf = Run(z, e)
        /\ \E a \in 0..z : /\ z - a <= Overlap /\ room.carry = Run(a, z)
                           /\ Len(room.chunks) > 0 /\ Overlap > 0 => a < z
    BY <2>1 DEF Loop
  <2> HIDE DEF z
  <2>4. Run(z, e) \o words = Run(z, e + len)
    BY <1>2, <2>1, JoinRuns DEF words
  <2>5. Run(z, e + len) \in Seq(Nat)
    <3>1. z <= e + len
      BY <1>2, <2>1
    <3>2. QED
      BY <1>2, <2>1, <3>1, RunSeq
  <2>6. /\ t \in LoopState /\ t.chunks = room.chunks /\ t.carry = room.carry
        /\ t.buf = Run(z, e + len)
    BY <2>2, <2>3, <2>4, <2>5 DEF LoopState
  <2>7. z <= e + len
    BY <1>2, <2>1
  <2>8. Loop(t, e + len, long)
    BY <2>1, <2>3, <2>6, <2>7 DEF Loop, z
  <2>9. QED
    BY <2>8 DEF t, words
<1>6. QED
  BY <1>4, <1>5

\* The functions Ends and Gathered are what their recursions say.
LEMMA EndsAre ==
    ASSUME NEW doc \in Seq(Nat \ {0})
    PROVE  /\ Ends(doc)[0] = 0
           /\ \A n \in 1..Len(doc) : Ends(doc)[n] = Ends(doc)[n - 1] + doc[n]
<1> DEFINE P(g, m) == g[0] = 0 /\ \A n \in 1..m : g[n] = g[n - 1] + doc[n]
           S == {m \in 0..Len(doc) : ~\E g : P(g, m)}
<1>1. Len(doc) \in Nat
  BY LenProperties
<1>2. S = {}
  <2>1. SUFFICES ASSUME S # {} PROVE FALSE
    OBVIOUS
  <2>2. S \in SUBSET Nat
    BY <1>1
  <2>3. PICK m \in S : \A k \in S : m <= k
    BY <2>1, <2>2, Smallest
  <2>4. m \in 0..Len(doc) /\ ~\E g : P(g, m)
    BY <2>3
  <2>5. CASE m = 0
    <3> DEFINE g == [k \in {0} |-> 0]
    <3>1. g[0] = 0 /\ \A n \in 1..m : g[n] = g[n - 1] + doc[n]
      BY <2>5
    <3>2. QED
      BY <2>4, <3>1
  <2>6. CASE m # 0
    <3>1. m - 1 \in 0..Len(doc) /\ ~(m <= m - 1) /\ m \in Nat
      BY <1>1, <2>4, <2>6
    <3>2. m - 1 \notin S
      BY <2>3, <3>1
    <3>3. PICK g : P(g, m - 1)
      BY <3>1, <3>2
    <3> DEFINE h == [k \in 0..m |-> IF k = m THEN g[m - 1] + doc[m] ELSE g[k]]
    <3>4. h[0] = 0
      BY <2>6, <3>1, <3>3
    <3>5. ASSUME NEW n \in 1..m PROVE h[n] = h[n - 1] + doc[n]
      <4>1. h[n - 1] = g[n - 1]
        BY <3>1
      <4>2. CASE n = m
        BY <4>1, <4>2, <3>1
      <4>3. CASE n # m
        <5>1. n \in 1..(m - 1) /\ n \in 0..m
          BY <3>1, <4>3
        <5>2. QED
          BY <3>3, <4>1, <4>3, <5>1
      <4>4. QED
        BY <4>2, <4>3
    <3> HIDE DEF h
    <3>6. QED
      BY <2>4, <3>4, <3>5
  <2>7. QED
    BY <2>5, <2>6
<1>3. PICK g : P(g, Len(doc))
  <2>1. Len(doc) \in 0..Len(doc)
    BY <1>1
  <2>2. QED
    BY <1>2, <2>1
<1> DEFINE last == [n \in 0..Len(doc) |-> g[n]]
<1>4. last = [n \in 0..Len(doc) |-> IF n = 0 THEN 0 ELSE last[n - 1] + doc[n]]
  <2>1. ASSUME NEW n \in 0..Len(doc)
        PROVE  g[n] = IF n = 0 THEN 0 ELSE last[n - 1] + doc[n]
    <3>1. CASE n = 0
      BY <1>3, <3>1
    <3>2. CASE n # 0
      <4>1. n \in 1..Len(doc) /\ n - 1 \in 0..Len(doc)
        BY <1>1, <3>2
      <4>2. QED
        BY <1>3, <3>2, <4>1
    <3>3. QED
      BY <3>1, <3>2
  <2>2. QED
    BY <2>1
<1> HIDE DEF last
<1>5. Ends(doc) = [n \in 0..Len(doc) |-> IF n = 0 THEN 0 ELSE Ends(doc)[n - 1] + doc[n]]
  BY <1>4 DEF Ends
<1>6. QED
  BY <1>1, <1>5

LEMMA EndsNat ==
    ASSUME NEW doc \in Seq(Nat \ {0})
    PROVE  \A n \in 0..Len(doc) : Ends(doc)[n] \in Nat
<1> DEFINE S == {n \in 0..Len(doc) : Ends(doc)[n] \notin Nat}
<1>1. Len(doc) \in Nat /\ \A n \in 1..Len(doc) : doc[n] \in Nat
  BY LenProperties
<1>2. SUFFICES ASSUME S # {} PROVE FALSE
  OBVIOUS
<1>3. S \in SUBSET Nat
  BY <1>1
<1>4. PICK m \in S : \A k \in S : m <= k
  BY <1>2, <1>3, Smallest
<1>5. m \in 0..Len(doc) /\ Ends(doc)[m] \notin Nat
  BY <1>4
<1>6. m # 0
  BY <1>5, EndsAre
<1>7. m \in 1..Len(doc) /\ m - 1 \in 0..Len(doc) /\ ~(m <= m - 1)
  BY <1>1, <1>5, <1>6
<1>8. Ends(doc)[m - 1] \in Nat
  BY <1>4, <1>7
<1>9. Ends(doc)[m] = Ends(doc)[m - 1] + doc[m]
  BY <1>7, EndsAre
<1>10. QED
  BY <1>1, <1>5, <1>7, <1>8, <1>9

LEMMA GatheredAre ==
    ASSUME NEW doc \in Seq(Nat \ {0})
    PROVE  /\ Gathered(doc)[0] = Nothing
           /\ \A n \in 1..Len(doc) :
                Gathered(doc)[n] = TakeSentence(Gathered(doc)[n - 1], Sentence(doc, n))
<1> DEFINE P(g, m) == /\ g[0] = Nothing
                      /\ \A n \in 1..m : g[n] = TakeSentence(g[n - 1], Sentence(doc, n))
           S == {m \in 0..Len(doc) : ~\E g : P(g, m)}
<1>1. Len(doc) \in Nat
  BY LenProperties
<1>2. S = {}
  <2>1. SUFFICES ASSUME S # {} PROVE FALSE
    OBVIOUS
  <2>2. S \in SUBSET Nat
    BY <1>1
  <2>3. PICK m \in S : \A k \in S : m <= k
    BY <2>1, <2>2, Smallest
  <2>4. m \in 0..Len(doc) /\ ~\E g : P(g, m)
    BY <2>3
  <2>5. CASE m = 0
    <3> DEFINE g == [k \in {0} |-> Nothing]
    <3>1. g[0] = Nothing /\ \A n \in 1..m : g[n] = TakeSentence(g[n - 1], Sentence(doc, n))
      BY <2>5
    <3>2. QED
      BY <2>4, <3>1
  <2>6. CASE m # 0
    <3>1. m - 1 \in 0..Len(doc) /\ ~(m <= m - 1) /\ m \in Nat
      BY <1>1, <2>4, <2>6
    <3>2. m - 1 \notin S
      BY <2>3, <3>1
    <3>3. PICK g : P(g, m - 1)
      BY <3>1, <3>2
    <3> DEFINE h == [k \in 0..m |-> IF k = m THEN TakeSentence(g[m - 1], Sentence(doc, m))
                                   ELSE g[k]]
    <3>4. h[0] = Nothing
      BY <2>6, <3>1, <3>3
    <3>5. ASSUME NEW n \in 1..m PROVE h[n] = TakeSentence(h[n - 1], Sentence(doc, n))
      <4>1. h[n - 1] = g[n - 1]
        BY <3>1
      <4>2. CASE n = m
        BY <4>1, <4>2, <3>1
      <4>3. CASE n # m
        <5>1. n \in 1..(m - 1) /\ n \in 0..m
          BY <3>1, <4>3
        <5>2. QED
          BY <3>3, <4>1, <4>3, <5>1
      <4>4. QED
        BY <4>2, <4>3
    <3> HIDE DEF h
    <3>6. QED
      BY <2>4, <3>4, <3>5
  <2>7. QED
    BY <2>5, <2>6
<1>3. PICK g : P(g, Len(doc))
  <2>1. Len(doc) \in 0..Len(doc)
    BY <1>1
  <2>2. QED
    BY <1>2, <2>1
<1> DEFINE after == [n \in 0..Len(doc) |-> g[n]]
<1>4. after = [n \in 0..Len(doc) |-> IF n = 0 THEN Nothing
                                   ELSE TakeSentence(after[n - 1], Sentence(doc, n))]
  <2>1. ASSUME NEW n \in 0..Len(doc)
        PROVE  g[n] = IF n = 0 THEN Nothing ELSE TakeSentence(after[n - 1], Sentence(doc, n))
    <3>1. CASE n = 0
      BY <1>3, <3>1
    <3>2. CASE n # 0
      <4>1. n \in 1..Len(doc) /\ n - 1 \in 0..Len(doc)
        BY <1>1, <3>2
      <4>2. QED
        BY <1>3, <3>2, <4>1
    <3>3. QED
      BY <3>1, <3>2
  <2>2. QED
    BY <2>1
<1> HIDE DEF after
<1>5. Gathered(doc)
        = [n \in 0..Len(doc) |-> IF n = 0 THEN Nothing
                                ELSE TakeSentence(Gathered(doc)[n - 1], Sentence(doc, n))]
  BY <1>4 DEF Gathered
<1>6. QED
  BY <1>1, <1>5

LEMMA GatheredLoop ==
    ASSUME NEW doc \in Seq(Nat \ {0})
    PROVE  \A n \in 0..Len(doc) : Loop(Gathered(doc)[n], Ends(doc)[n], Long(doc))
<1> DEFINE S == {n \in 0..Len(doc) : ~Loop(Gathered(doc)[n], Ends(doc)[n], Long(doc))}
<1>1. Len(doc) \in Nat /\ \A n \in 1..Len(doc) : doc[n] \in Nat \ {0}
  BY LenProperties
<1>2. SUFFICES ASSUME S # {} PROVE FALSE
  OBVIOUS
<1>3. S \in SUBSET Nat
  BY <1>1
<1>4. PICK m \in S : \A k \in S : m <= k
  BY <1>2, <1>3, Smallest
<1>5. m \in 0..Len(doc) /\ ~Loop(Gathered(doc)[m], Ends(doc)[m], Long(doc))
  BY <1>4
<1>6. Loop(Gathered(doc)[0], Ends(doc)[0], Long(doc))
  <2>1. Gathered(doc)[0] = Nothing /\ Ends(doc)[0] = 0
    BY EndsAre, GatheredAre
  <2>2. Nothing \in LoopState /\ Len(Nothing.chunks) = 0 /\ Nothing.buf = <<>>
        /\ Nothing.carry = <<>>
    BY DEF Nothing, LoopState
  <2>3. End(Nothing.chunks, Len(Nothing.chunks)) = 0 /\ WellCut(Nothing.chunks, Long(doc))
    BY <2>2 DEF End, WellCut
  <2>4. Run(0, 0) = <<>>
    BY RunNone
  <2>5. MaxWords \in Nat /\ Overlap \in Nat
    BY RagAssumption
  <2>6. /\ 0 \in Nat /\ 0 <= 0 /\ 0 - 0 <= MaxWords /\ Nothing.buf = Run(0, 0)
        /\ \E a \in 0..0 : /\ 0 - a <= Overlap /\ Nothing.carry = Run(a, 0)
                           /\ Len(Nothing.chunks) > 0 /\ Overlap > 0 => a < 0
    BY <2>2, <2>4, <2>5
  <2>7. Loop(Nothing, 0, Long(doc))
    BY <2>2, <2>3, <2>6 DEF Loop
  <2>8. QED
    BY <2>1, <2>7
<1>7. m \in 1..Len(doc) /\ m - 1 \in 0..Len(doc) /\ ~(m <= m - 1)
  <2>1. m # 0
    BY <1>5, <1>6
  <2>2. QED
    BY <1>1, <1>5, <2>1
<1>8. Loop(Gathered(doc)[m - 1], Ends(doc)[m - 1], Long(doc))
  BY <1>4, <1>7
<1>9. PICK e \in Nat : e = Ends(doc)[m - 1]
  BY <1>7, EndsNat
<1>10. PICK len \in Nat \ {0} : len = doc[m]
  BY <1>1, <1>7
<1>11. Ends(doc)[m] = e + len
  BY <1>7, <1>9, <1>10, EndsAre
<1>12. Sentence(doc, m) = Run(e, e + len)
  <2>1. (e + len) - e = len
    OBVIOUS
  <2>2. QED
    BY <1>9, <1>10, <2>1 DEF Sentence, Run
<1>13. len > MaxWords => e + 1 \in Long(doc)
  BY <1>7, <1>9, <1>10 DEF Long
<1>14. PICK s : s = Gathered(doc)[m - 1]
  OBVIOUS
<1>15. PICK long : long = Long(doc)
  OBVIOUS
<1>16. Loop(TakeSentence(s, Run(e, e + len)), e + len, long)
  <2>1. Loop(s, e, long) /\ (len > MaxWords => e + 1 \in long)
    BY <1>8, <1>9, <1>13, <1>14, <1>15
  <2>2. QED
    BY <2>1, TakeKeeps
<1>17. Gathered(doc)[m] = TakeSentence(s, Run(e, e + len))
  BY <1>7, <1>12, <1>14, GatheredAre
<1>18. QED
  BY <1>5, <1>11, <1>15, <1>16, <1>17

\* Every document is cut as chunk_text promises, and all of it.
LEMMA ChunksCut ==
    ASSUME NEW doc \in Seq(Nat \ {0})
    PROVE  /\ Chunks(doc) \in Seq(Seq(Nat)) /\ WellCut(Chunks(doc), Long(doc))
           /\ End(Chunks(doc), Len(Chunks(doc))) = Ends(doc)[Len(doc)]
<1>1. Len(doc) \in 0..Len(doc)
  BY LenProperties
<1>2. PICK s : s = Gathered(doc)[Len(doc)]
  OBVIOUS
<1>3. PICK long : long = Long(doc)
  OBVIOUS
<1>4. PICK e \in Nat : e = Ends(doc)[Len(doc)]
  BY <1>1, EndsNat
<1>5. Loop(s, e, long)
  BY <1>1, <1>2, <1>3, <1>4, GatheredLoop
<1>6. Loop(Flush(s), e, long) /\ End(Flush(s).chunks, Len(Flush(s).chunks)) = e
  BY <1>5, FlushKeeps
<1>7. Flush(s).chunks = Chunks(doc)
  BY <1>2 DEF Chunks
<1>8. Chunks(doc) \in Seq(Seq(Nat)) /\ WellCut(Chunks(doc), long)
  BY <1>6, <1>7 DEF Loop, LoopState
<1>9. QED
  BY <1>3, <1>4, <1>6, <1>7, <1>8

LEMMA AllFaithful ==
    ASSUME NEW doc \in Seq(Nat \ {0})
    PROVE  Faithful(doc)
<1> DEFINE chunks == Chunks(doc)
           first(i) == chunks[i][1]
           end(i) == IF i = 0 THEN 0 ELSE Last(chunks[i])
           long == {Ends(doc)[n - 1] + 1 : n \in {m \in 1..Len(doc) : doc[m] > MaxWords}}
<1>1. /\ chunks \in Seq(Seq(Nat)) /\ WellCut(chunks, long)
      /\ End(chunks, Len(chunks)) = Ends(doc)[Len(doc)]
  BY ChunksCut DEF Long
<1>2. DOMAIN chunks = 1..Len(chunks) /\ Len(chunks) \in Nat
  BY <1>1, LenProperties
<1> HIDE DEF chunks, long
<1>3. \A i : end(i) = End(chunks, i)
  BY DEF End
<1>4. ASSUME NEW i \in DOMAIN chunks
      PROVE  /\ \A k \in DOMAIN chunks[i] : chunks[i][k] = first(i) + k - 1
             /\ end(i - 1) + 1 - first(i) \in 0..Overlap
             /\ end(i) - end(i - 1) \in 0..MaxWords
             /\ i > 1 /\ Overlap > 0 /\ first(i) \notin long => first(i) <= end(i - 1)
  <2>1. i \in 1..Len(chunks)
    BY <1>2
  <2>2. PICK a \in Nat : Cut(chunks, i, a, long)
    BY <1>1, <2>1 DEF WellCut
  <2>3. PICK b \in Nat : b = End(chunks, i)
    BY <1>1, <2>1 DEF WellCut
  <2>4. a < b /\ chunks[i] = Run(a, b)
    BY <2>2, <2>3 DEF Cut
  <2>5. DOMAIN chunks[i] = 1..(b - a) /\ \A k \in 1..(b - a) : chunks[i][k] = a + k
    BY <2>4 DEF Run
  <2>6. first(i) = a + 1
    BY <2>4, <2>5
  <2>7. PICK c : c = End(chunks, i - 1)
    OBVIOUS
  <2>8. c \in Int
    <3>1. i - 1 = 0 \/ i - 1 \in 1..Len(chunks)
      BY <1>2, <2>1
    <3>2. CASE i - 1 = 0
      BY <2>7, <3>2 DEF End
    <3>3. CASE i - 1 \in 1..Len(chunks)
      BY <1>1, <2>7, <3>3 DEF WellCut
    <3>4. QED
      BY <3>1, <3>2, <3>3
  <2>9. /\ c - a \in 0..Overlap /\ b - c \in 0..MaxWords
        /\ i > 1 /\ Overlap > 0 /\ a + 1 \notin long => a < c
    BY <2>2, <2>3, <2>7 DEF Cut
  <2>10. end(i - 1) = c /\ end(i) = b
    BY <1>3, <2>3, <2>7
  <2> HIDE DEF first, end
  <2>11. \A k \in DOMAIN chunks[i] : chunks[i][k] = first(i) + k - 1
    BY <2>5, <2>6
  <2>12. end(i - 1) + 1 - first(i) \in 0..Overlap
    BY <2>6, <2>8, <2>9, <2>10
  <2>13. end(i) - end(i - 1) \in 0..MaxWords
    BY <2>9, <2>10
  <2>14. i > 1 /\ Overlap > 0 /\ first(i) \notin long => first(i) <= end(i - 1)
    BY <2>6, <2>8, <2>9, <2>10
  <2>15. QED
    BY <2>11, <2>12, <2>13, <2>14
<1>5. end(Len(chunks)) = Ends(doc)[Len(doc)]
  BY <1>1, <1>3
<1>6. QED
  BY <1>4, <1>5 DEF Faithful, chunks, long

-----------------------------------------------------------------------------
Job ==
    [pc : {"idle", "ensure", "create", "add"}, name : Names \cup {NoName},
     file : Files \cup {NoFile}, version : Nat, chunks : Seq(Seq(Nat)), at : Nat,
     alone : BOOLEAN]

IndexTypeOK ==
    /\ file \in [Files -> [version : Nat, doc : Docs]]
    /\ job \in [Jobs -> Job]

\* A stored point lies at the id made of what it says of itself.
PointsInv ==
    \A id \in DOMAIN points :
      LET x == points[id]
      IN  /\ x.index \in Nat \ {0}
          /\ id = PointId(CollectionFor(x.name), x.file, x.index, x.version)

\* The i-th point of a file under a name is this one.
Holds(store, name, f, i, words, version) ==
    LET id == PointId(CollectionFor(name), f, i, version)
    IN  id \in DOMAIN store /\ store[id].words = words /\ store[id].version = version

\* What an indexer nobody disturbed has added so far is there.
Added(me, store) ==
    me.pc # "idle" =>
      /\ me.name \in Names /\ me.file \in Files
      /\ me.at < Len(me.chunks)
      /\ \A i \in 1..me.at :
           me.alone => Holds(store, me.name, me.file, i, me.chunks[i], me.version)

JobsInv == \A j \in Jobs : Added(job[j], points)

\* What a finished ingest that nothing touched has added is there.
CompleteInv ==
    \A p \in DOMAIN complete :
      LET last == complete[p]
      IN  /\ p[2] \in Files /\ last.chunks \in Seq(Seq(Nat))
          /\ \A i \in 1..Len(last.chunks) :
               Holds(points, p[1], p[2], i, last.chunks[i], last.version)

StoreInv == IndexTypeOK /\ PointsInv /\ JobsInv /\ CompleteInv

-----------------------------------------------------------------------------
\* Other points stay when one is upserted ...
LEMMA PutKeeps ==
    ASSUME NEW store, NEW n, NEW m, NEW f, NEW g, NEW i, NEW k,
           NEW words, NEW v, NEW u, NEW x,
           Holds(store, n, f, i, words, v),
           ~(CollectionFor(n) = CollectionFor(m) /\ f = g /\ i = k)
    PROVE  Holds(Put(store, PointId(CollectionFor(m), g, k, u), x), n, f, i, words, v)
<1> DEFINE id == PointId(CollectionFor(n), f, i, v)
           new == PointId(CollectionFor(m), g, k, u)
<1>1. id = <<CollectionFor(n), f, <<i>>>> /\ new = <<CollectionFor(m), g, <<k>>>>
  BY DEF PointId
<1>2. id # new
  BY <1>1
<1>3. id \in DOMAIN store /\ store[id].words = words /\ store[id].version = v
  BY DEF Holds
<1>4. id \in DOMAIN Put(store, new, x) /\ Put(store, new, x)[id] = store[id]
  BY <1>2, <1>3 DEF Put
<1>5. QED
  BY <1>3, <1>4 DEF Holds

\* ... and the new one is there.
LEMMA PutHolds ==
    ASSUME NEW store, NEW n, NEW f, NEW i, NEW x
    PROVE  Holds(Put(store, PointId(CollectionFor(n), f, i, x.version), x), n, f, i,
                 x.words, x.version)
  BY DEF Put, Holds

\* A deletion leaves what lies in the other collections.
LEMMA DeleteKeeps ==
    ASSUME NEW store, NEW n, NEW coll, NEW f, NEW i, NEW words, NEW v,
           Holds(store, n, f, i, words, v), CollectionFor(n) # coll
    PROVE  Holds(Restrict(store, {id \in DOMAIN store : id[1] # coll}), n, f, i, words, v)
<1> DEFINE id == PointId(CollectionFor(n), f, i, v)
<1>1. id[1] = CollectionFor(n) /\ CollectionFor(n) # coll
  BY DEF PointId
<1>2. QED
  BY <1>1 DEF Holds, Restrict

\* What the others see of a step that touches files of a collection.
LEMMA CrowdShape ==
    ASSUME IndexTypeOK, NEW coll, NEW files, NEW j \in Jobs
    PROVE  LET c == Crowd(coll, files)[j]
           IN  /\ c \in Job
               /\ c.pc = job[j].pc /\ c.name = job[j].name /\ c.file = job[j].file
               /\ c.version = job[j].version /\ c.chunks = job[j].chunks
               /\ c.at = job[j].at
               /\ c.alone => \/ c.at = 0
                             \/ job[j].alone
                                /\ ~Within(job[j].name, job[j].file, coll, files)
<1>1. job[j] \in Job
  BY DEF IndexTypeOK
<1>2. Crowd(coll, files)[j]
        = IF Within(job[j].name, job[j].file, coll, files)
          THEN [job[j] EXCEPT !.alone = job[j].at = 0] ELSE job[j]
  BY DEF Crowd
<1>3. ASSUME NEW r \in Job
      PROVE  LET c == [r EXCEPT !.alone = r.at = 0]
             IN  /\ c \in Job
                 /\ c.pc = r.pc /\ c.name = r.name /\ c.file = r.file
                 /\ c.version = r.version /\ c.chunks = r.chunks /\ c.at = r.at
                 /\ c.alone => c.at = 0
  BY DEF Job
<1>4. CASE Within(job[j].name, job[j].file, coll, files)
  BY <1>1, <1>2, <1>3, <1>4
<1>5. CASE ~Within(job[j].name, job[j].file, coll, files)
  BY <1>1, <1>2, <1>5
<1>6. QED
  BY <1>4, <1>5

-----------------------------------------------------------------------------
LEMMA StoreInit == InitIndex => StoreInv
<1> SUFFICES ASSUME InitIndex PROVE StoreInv
  OBVIOUS
<1> USE DEF InitIndex
<1>1. NoJob \in Job
  BY DEF NoJob, Job
<1>2. IndexTypeOK
  BY <1>1 DEF IndexTypeOK
<1>3. PointsInv /\ CompleteInv
  BY DEF PointsInv, CompleteInv
<1>4. JobsInv
  BY DEF JobsInv, Added, NoJob
<1>5. QED
  BY <1>2, <1>3, <1>4 DEF StoreInv

LEMMA EditStep ==
    ASSUME StoreInv, NEW f \in Files, NEW doc \in Docs, Edit(f, doc)
    PROVE  StoreInv'
<1> USE DEF StoreInv, Edit
<1>1. IndexTypeOK'
  <2>1. [version |-> file[f].version + 1, doc |-> doc] \in [version : Nat, doc : Docs]
    BY DEF IndexTypeOK
  <2>2. file' \in [Files -> [version : Nat, doc : Docs]]
    BY <2>1 DEF IndexTypeOK
  <2>3. QED
    BY <2>2 DEF IndexTypeOK
<1>2. PointsInv' /\ JobsInv' /\ CompleteInv'
  BY DEF PointsInv, JobsInv, CompleteInv
<1>3. QED
  BY <1>1, <1>2

\* A step of one indexer that leaves the store alone.
LEMMA JobStep ==
    ASSUME StoreInv, NEW j \in Jobs, NEW r \in Job, Added(r, points),
           job' = [job EXCEPT ![j] = r], UNCHANGED <<file, points, query, complete>>
    PROVE  StoreInv'
<1>1. IndexTypeOK'
  BY DEF StoreInv, IndexTypeOK
<1>2. PointsInv' /\ CompleteInv'
  BY DEF StoreInv, PointsInv, CompleteInv
<1>3. JobsInv'
  <2>1. ASSUME NEW k \in Jobs PROVE Added(job'[k], points)
    BY DEF StoreInv, IndexTypeOK, JobsInv
  <2>2. QED
    BY <2>1 DEF JobsInv, Added
<1>4. QED
  BY <1>1, <1>2, <1>3 DEF StoreInv

LEMMA NoJobFits == NoJob \in Job /\ \A store : Added(NoJob, store)
  BY DEF NoJob, Job, Added

LEMMA ReadStep ==
    ASSUME StoreInv, NEW j \in Jobs, NEW f \in Files, NEW name \in Names, Read(j, f, name)
    PROVE  StoreInv'
<1> DEFINE chunks == Chunks(file[f].doc)
           r == [pc |-> "ensure", name |-> name, file |-> f, version |-> file[f].version,
                 chunks |-> chunks, at |-> 0, alone |-> TRUE]
<1>1. file[f].doc \in Seq(Nat \ {0}) /\ file[f].version \in Nat
  BY RagAssumption DEF StoreInv, IndexTypeOK
<1>2. chunks \in Seq(Seq(Nat)) /\ chunks # <<>>
  BY <1>1, ChunksCut DEF Read
<1> HIDE DEF chunks
<1>3. Len(chunks) > 0
  BY <1>2
<1>4. r \in Job
  BY <1>1, <1>2 DEF Job
<1>5. Added(r, points)
  BY <1>3 DEF Added
<1>6. job' = [job EXCEPT ![j] = r]
  BY DEF Read, chunks
<1>7. QED
  BY <1>4, <1>5, <1>6, JobStep DEF Read

LEMMA EnsureStep ==
    ASSUME StoreInv, NEW j \in Jobs, Ensure(j)
    PROVE  StoreInv'
<1> DEFINE to == IF CollectionFor(job[j].name) \in colls THEN "add" ELSE "create"
           r == [job[j] EXCEPT !.pc = to]
<1>1. job[j] \in Job /\ Added(job[j], points) /\ job[j].pc = "ensure"
  BY DEF StoreInv, IndexTypeOK, JobsInv, Ensure
<1>2. to \in {"add", "create"}
  OBVIOUS
<1> HIDE DEF to
<1>3. r \in Job /\ Added(r, points)
  BY <1>1, <1>2 DEF Job, Added
<1>4. job' = [job EXCEPT ![j] = r]
  BY DEF Ensure, to, StoreInv, IndexTypeOK
<1>5. QED
  BY <1>3, <1>4, JobStep DEF Ensure

LEMMA CreateStep ==
    ASSUME StoreInv, NEW j \in Jobs, Create(j)
    PROVE  StoreInv'
<1> DEFINE coll == CollectionFor(job[j].name)
           r == IF coll \in colls THEN NoJob ELSE [job[j] EXCEPT !.pc = "add"]
<1>1. job[j] \in Job /\ Added(job[j], points) /\ job[j].pc = "create"
  BY DEF StoreInv, IndexTypeOK, JobsInv, Create
<1>2. r \in Job /\ Added(r, points)
  <2>1. [job[j] EXCEPT !.pc = "add"] \in Job
        /\ Added([job[j] EXCEPT !.pc = "add"], points)
    BY <1>1 DEF Job, Added
  <2>2. QED
    BY <2>1, NoJobFits
<1>3. job' = [job EXCEPT ![j] = r]
  BY DEF Create
<1> HIDE DEF r
<1>4. QED
  BY <1>2, <1>3, JobStep DEF Create

LEMMA DieStep ==
    ASSUME StoreInv, NEW j \in Jobs, Die(j)
    PROVE  StoreInv'
  BY NoJobFits, JobStep DEF Die

LEMMA QueryStep ==
    ASSUME StoreInv, (\E name \in Names : Ask(name)) \/ AnswerQuery \/ TakePapers
    PROVE  StoreInv'
<1>1. UNCHANGED <<file, colls, points, job, complete>>
  BY DEF Ask, AnswerQuery, TakePapers
<1>2. QED
  BY <1>1, Zenon DEF StoreInv, IndexTypeOK, PointsInv, JobsInv, Added, CompleteInv

LEMMA AddStep ==
    ASSUME StoreInv, NEW j \in Jobs, Add(j)
    PROVE  StoreInv'
<1> DEFINE me == job[j]
           coll == CollectionFor(me.name)
           i == me.at + 1
           point == [name |-> me.name, file |-> me.file, index |-> i,
                     version |-> me.version, words |-> me.chunks[i]]
           touched == Touched(coll, {me.file})
           crowd == Crowd(coll, {me.file})
           id == PointId(coll, me.file, i, me.version)
           further == [me EXCEPT !.at = i]
           last == [version |-> me.version, chunks |-> me.chunks]
<1>1. /\ me \in Job /\ me.pc = "add" /\ Added(me, points)
      /\ me.name \in Names /\ me.file \in Files /\ me.at < Len(me.chunks)
  BY DEF StoreInv, IndexTypeOK, JobsInv, Add, Added
<1>2. CollectionFor(me.name) = coll
  OBVIOUS
<1>3. /\ me.at \in Nat /\ me.chunks \in Seq(Seq(Nat)) /\ Len(me.chunks) \in Nat
      /\ i \in Nat \ {0} /\ i <= Len(me.chunks)
  BY <1>1 DEF Job
<1>4. /\ colls' = colls \cup {coll} /\ points' = Put(points, id, point)
      /\ UNCHANGED <<file, query>>
  BY DEF Add
<1>5. \/ i < Len(me.chunks) /\ job' = [crowd EXCEPT ![j] = further] /\ complete' = touched
      \/ /\ ~(i < Len(me.chunks)) /\ job' = [crowd EXCEPT ![j] = NoJob]
         /\ complete' = IF me.alone THEN Put(touched, <<me.name, me.file>>, last)
                        ELSE touched
  BY DEF Add
<1>6. crowd = [k \in Jobs |-> crowd[k]]
  BY DEF Crowd
\* What others hold of other points stays.
<1>7. ASSUME NEW n, NEW f, NEW k, NEW words, NEW v, Holds(points, n, f, k, words, v),
             ~(CollectionFor(n) = coll /\ f = me.file /\ k = i)
      PROVE  Holds(points', n, f, k, words, v)
  <2>1. PICK store : store = points
    OBVIOUS
  <2>2. PICK g, m, u, x : g = me.file /\ m = me.name /\ u = me.version /\ x = point
    OBVIOUS
  <2>3. PICK h : h = i
    OBVIOUS
  <2>4. Holds(Put(store, PointId(CollectionFor(m), g, h, u), x), n, f, k, words, v)
    BY <1>7, <2>1, <2>2, <2>3, PutKeeps
  <2>5. QED
    BY <1>4, <2>1, <2>2, <2>3, <2>4
<1>8. Holds(points', me.name, me.file, i, me.chunks[i], me.version)
  BY <1>4 DEF Put, Holds, PointId
\* When nobody disturbed it, all it has added is there.
<1>9. me.alone => \A k \in 1..i : Holds(points', me.name, me.file, k, me.chunks[k], me.version)
  <2>1. SUFFICES ASSUME me.alone, NEW k \in 1..i
                 PROVE  Holds(points', me.name, me.file, k, me.chunks[k], me.version)
    OBVIOUS
  <2>2. CASE k = i
    BY <1>8, <2>2
  <2>3. CASE k # i
    <3>1. k \in 1..me.at
      BY <1>3, <2>3
    <3>2. Holds(points, me.name, me.file, k, me.chunks[k], me.version)
      BY <1>1, <2>1, <3>1 DEF Added
    <3>3. QED
      BY <1>7, <2>3, <3>2
  <2>4. QED
    BY <2>2, <2>3
<1>10. further \in Job /\ (i < Len(me.chunks) => Added(further, points'))
  <2>1. /\ further \in Job /\ further.pc = me.pc /\ further.name = me.name
        /\ further.file = me.file /\ further.version = me.version
        /\ further.chunks = me.chunks /\ further.at = i /\ further.alone = me.alone
    BY <1>1, <1>3 DEF Job
  <2> HIDE DEF further
  <2>2. QED
    BY <1>1, <1>9, <2>1 DEF Added
<1>11. ASSUME NEW k \in Jobs, k # j
       PROVE  crowd[k] \in Job /\ Added(crowd[k], points')
  <2>1. /\ crowd[k] \in Job
        /\ crowd[k].pc = job[k].pc /\ crowd[k].name = job[k].name
        /\ crowd[k].file = job[k].file /\ crowd[k].version = job[k].version
        /\ crowd[k].chunks = job[k].chunks /\ crowd[k].at = job[k].at
        /\ crowd[k].alone => \/ crowd[k].at = 0
                             \/ job[k].alone
                                /\ ~Within(job[k].name, job[k].file, coll, {me.file})
    BY CrowdShape DEF StoreInv
  <2>2. Added(job[k], points)
    BY DEF StoreInv, JobsInv
  <2> HIDE DEF crowd
  <2>3. SUFFICES ASSUME job[k].pc # "idle"
                 PROVE  \A n \in 1..job[k].at :
                          crowd[k].alone => Holds(points', job[k].name, job[k].file, n,
                                                  job[k].chunks[n], job[k].version)
    BY <2>1, <2>2 DEF Added
  <2>4. SUFFICES ASSUME NEW n \in 1..job[k].at, crowd[k].alone
                 PROVE  Holds(points', job[k].name, job[k].file, n, job[k].chunks[n],
                              job[k].version)
    OBVIOUS
  <2>5. job[k].alone /\ ~(CollectionFor(job[k].name) = coll /\ job[k].file = me.file)
    BY <2>1, <2>2, <2>3, <2>4 DEF Within, Added
  <2>6. Holds(points, job[k].name, job[k].file, n, job[k].chunks[n], job[k].version)
    BY <2>2, <2>3, <2>5 DEF Added
  <2>7. QED
    BY <1>7, <2>5, <2>6
<1>12. IndexTypeOK' /\ JobsInv'
  <2>1. PICK r \in Job : job' = [crowd EXCEPT ![j] = r] /\ Added(r, points')
    BY <1>5, <1>10, NoJobFits
  <2> HIDE DEF crowd
  <2>2. job' \in [Jobs -> Job]
    BY <1>6, <1>11, <2>1
  <2>3. \A k \in Jobs : Added(job'[k], points')
    BY <1>6, <1>11, <2>1
  <2>4. QED
    BY <1>4, <2>2, <2>3 DEF StoreInv, IndexTypeOK, JobsInv
<1>13. PointsInv'
  <2>1. ASSUME NEW p \in DOMAIN points'
        PROVE  /\ points'[p].index \in Nat \ {0}
               /\ p = PointId(CollectionFor(points'[p].name), points'[p].file,
                              points'[p].index, points'[p].version)
    <3>1. CASE p = id
      BY <1>2, <1>3, <1>4, <3>1 DEF Put
    <3>2. CASE p # id
      <4>1. p \in DOMAIN points /\ points'[p] = points[p]
        BY <1>4, <3>2 DEF Put
      <4>2. QED
        BY <4>1 DEF StoreInv, PointsInv
    <3>3. QED
      BY <3>1, <3>2
  <2>2. QED
    BY <2>1 DEF PointsInv
<1>14. ASSUME NEW p \in DOMAIN touched
       PROVE  /\ p[2] \in Files /\ touched[p].chunks \in Seq(Seq(Nat))
              /\ \A k \in 1..Len(touched[p].chunks) :
                   Holds(points', p[1], p[2], k, touched[p].chunks[k], touched[p].version)
  <2>1. /\ p \in DOMAIN complete /\ touched[p] = complete[p]
        /\ ~(CollectionFor(p[1]) = coll /\ p[2] = me.file)
    BY DEF Touched, Restrict, Within
  <2>2. /\ p[2] \in Files /\ complete[p].chunks \in Seq(Seq(Nat))
        /\ \A k \in 1..Len(complete[p].chunks) :
             Holds(points, p[1], p[2], k, complete[p].chunks[k], complete[p].version)
    BY <2>1 DEF StoreInv, CompleteInv
  <2>3. QED
    BY <1>7, <2>1, <2>2
<1>15. CompleteInv'
  <2>1. CASE complete' = touched
    BY <1>14, <2>1 DEF CompleteInv
  <2>2. CASE /\ ~(i < Len(me.chunks)) /\ me.alone
             /\ complete' = Put(touched, <<me.name, me.file>>, last)
    <3>1. i = Len(me.chunks)
      BY <1>3, <2>2
    <3>2. ASSUME NEW p \in DOMAIN complete'
          PROVE  /\ p[2] \in Files /\ complete'[p].chunks \in Seq(Seq(Nat))
                 /\ \A k \in 1..Len(complete'[p].chunks) :
                      Holds(points', p[1], p[2], k, complete'[p].chunks[k],
                            complete'[p].version)
      <4>1. CASE p = <<me.name, me.file>>
        <5>1. complete'[p] = last /\ p[1] = me.name /\ p[2] = me.file
          BY <2>2, <4>1 DEF Put
        <5>2. complete'[p].chunks = me.chunks /\ complete'[p].version = me.version
          BY <5>1
        <5>3. \A k \in 1..Len(me.chunks) :
                Holds(points', me.name, me.file, k, me.chunks[k], me.version)
          BY <1>9, <2>2, <3>1
        <5>4. QED
          BY <1>1, <1>2, <1>3, <5>1, <5>2, <5>3, Zenon
      <4>2. CASE p # <<me.name, me.file>>
        <5>1. p \in DOMAIN touched /\ complete'[p] = touched[p]
          BY <2>2, <3>2, <4>2 DEF Put
        <5>2. QED
          BY <1>14, <5>1
      <4>3. QED
        BY <4>1, <4>2
    <3>3. QED
      BY <3>2 DEF CompleteInv
  <2>3. QED
    BY <1>5, <2>1, <2>2
<1>16. QED
  BY <1>12, <1>13, <1>15 DEF StoreInv

LEMMA DeleteStep ==
    ASSUME StoreInv, NEW name \in Names \cup {Listed(c) : c \in colls}, Delete(name)
    PROVE  StoreInv'
<1> DEFINE coll == CollectionFor(name)
           crowd == Crowd(coll, Files)
           touched == Touched(coll, Files)
<1>1. /\ colls' = colls \ {coll}
      /\ points' = Restrict(points, {id \in DOMAIN points : id[1] # coll})
      /\ job' = crowd /\ complete' = touched /\ UNCHANGED <<file, query>>
  BY DEF Delete
<1>2. ASSUME NEW n, NEW f, NEW k, NEW words, NEW v, Holds(points, n, f, k, words, v),
             CollectionFor(n) # coll
      PROVE  Holds(points', n, f, k, words, v)
  <2>1. PICK store, c : store = points /\ c = coll
    OBVIOUS
  <2>2. Holds(Restrict(store, {id \in DOMAIN store : id[1] # c}), n, f, k, words, v)
    BY <1>2, <2>1, DeleteKeeps
  <2>3. QED
    BY <1>1, <2>1, <2>2
<1>3. ASSUME NEW k \in Jobs
      PROVE  crowd[k] \in Job /\ Added(crowd[k], points')
  <2>1. /\ crowd[k] \in Job
        /\ crowd[k].pc = job[k].pc /\ crowd[k].name = job[k].name
        /\ crowd[k].file = job[k].file /\ crowd[k].version = job[k].version
        /\ crowd[k].chunks = job[k].chunks /\ crowd[k].at = job[k].at
        /\ crowd[k].alone => \/ crowd[k].at = 0
                             \/ job[k].alone
                                /\ ~Within(job[k].name, job[k].file, coll, Files)
    BY CrowdShape DEF StoreInv
  <2>2. Added(job[k], points)
    BY DEF StoreInv, JobsInv
  <2> HIDE DEF crowd
  <2>3. SUFFICES ASSUME job[k].pc # "idle"
                 PROVE  \A n \in 1..job[k].at :
                          crowd[k].alone => Holds(points', job[k].name, job[k].file, n,
                                                  job[k].chunks[n], job[k].version)
    BY <2>1, <2>2 DEF Added
  <2>4. SUFFICES ASSUME NEW n \in 1..job[k].at, crowd[k].alone
                 PROVE  Holds(points', job[k].name, job[k].file, n, job[k].chunks[n],
                              job[k].version)
    OBVIOUS
  <2>5. job[k].alone /\ CollectionFor(job[k].name) # coll
    BY <2>1, <2>2, <2>3, <2>4 DEF Added, Within
  <2>6. Holds(points, job[k].name, job[k].file, n, job[k].chunks[n], job[k].version)
    BY <2>2, <2>3, <2>5 DEF Added
  <2>7. QED
    BY <1>2, <2>5, <2>6
<1>4. IndexTypeOK' /\ JobsInv'
  <2>1. crowd = [k \in Jobs |-> crowd[k]]
    BY DEF Crowd
  <2> HIDE DEF crowd
  <2>2. job' \in [Jobs -> Job]
    BY <1>1, <1>3, <2>1
  <2>3. \A k \in Jobs : Added(job'[k], points')
    BY <1>1, <1>3
  <2>4. QED
    BY <1>1, <2>2, <2>3 DEF StoreInv, IndexTypeOK, JobsInv
<1>5. PointsInv'
  <2>1. \A id \in DOMAIN points' : id \in DOMAIN points /\ points'[id] = points[id]
    BY <1>1 DEF Restrict
  <2>2. QED
    BY <2>1 DEF StoreInv, PointsInv
<1>6. CompleteInv'
  <2>1. ASSUME NEW p \in DOMAIN touched
        PROVE  /\ p[2] \in Files /\ touched[p].chunks \in Seq(Seq(Nat))
               /\ \A k \in 1..Len(touched[p].chunks) :
                    Holds(points', p[1], p[2], k, touched[p].chunks[k], touched[p].version)
    <3>1. /\ p \in DOMAIN complete /\ touched[p] = complete[p]
          /\ ~Within(p[1], p[2], coll, Files)
      BY DEF Touched, Restrict
    <3>2. /\ p[2] \in Files /\ complete[p].chunks \in Seq(Seq(Nat))
          /\ \A k \in 1..Len(complete[p].chunks) :
               Holds(points, p[1], p[2], k, complete[p].chunks[k], complete[p].version)
      BY <3>1 DEF StoreInv, CompleteInv
    <3>3. CollectionFor(p[1]) # coll
      BY <3>1, <3>2 DEF Within
    <3>4. QED
      BY <1>2, <3>1, <3>2, <3>3
  <2>2. QED
    BY <1>1, <2>1 DEF CompleteInv
<1>7. QED
  BY <1>4, <1>5, <1>6 DEF StoreInv

LEMMA StoreStep == StoreInv /\ [NextIndex]_indexVars => StoreInv'
<1> SUFFICES ASSUME StoreInv, [NextIndex]_indexVars PROVE StoreInv'
  OBVIOUS
<1>1. CASE \E f \in Files, doc \in Docs : Edit(f, doc)
  BY <1>1, EditStep
<1>2. CASE \E j \in Jobs, f \in Files, name \in Names : Read(j, f, name)
  BY <1>2, ReadStep
<1>3. CASE \E j \in Jobs : Ensure(j)
  BY <1>3, EnsureStep
<1>4. CASE \E j \in Jobs : Create(j)
  BY <1>4, CreateStep
<1>5. CASE \E j \in Jobs : Add(j)
  BY <1>5, AddStep
<1>6. CASE \E j \in Jobs : Die(j)
  BY <1>6, DieStep
<1>7. CASE \E name \in Names \cup {Listed(c) : c \in colls} : Delete(name)
  BY <1>7, DeleteStep
<1>8. CASE (\E name \in Names : Ask(name)) \/ AnswerQuery \/ TakePapers
  BY <1>8, QueryStep
<1>9. CASE UNCHANGED indexVars
  BY <1>9 DEF indexVars, StoreInv, IndexTypeOK, PointsInv, JobsInv, Added,
              CompleteInv
<1>10. QED
  BY <1>1, <1>2, <1>3, <1>4, <1>5, <1>6, <1>7, <1>8, <1>9 DEF NextIndex

\* The invariant of the document store: a point lies at the id made of what it says
\* of itself; what an indexer nobody disturbed has added so far is there, and what
\* an ingest nothing touched has added still is.
THEOREM StoreInvariant == IndexSpec => []StoreInv
<1>1. InitIndex => StoreInv
  BY StoreInit
<1>2. StoreInv /\ [NextIndex]_indexVars => StoreInv'
  BY StoreStep
<1>3. QED
  BY <1>1, <1>2, PTL DEF IndexSpec

\* chunk_text loses no word and repeats few, of any document, with any max_words
\* and any smaller overlap.
THEOREM EveryDocumentWellChunked == IndexSpec => []ChunksFaithful
<1>1. BadlyChunked = {}
  BY AllFaithful, RagAssumption DEF BadlyChunked
<1>2. StoreInv => ChunksFaithful
  <2>1. SUFFICES ASSUME StoreInv, NEW f \in Files PROVE Faithful(file[f].doc)
    BY <1>1 DEF ChunksFaithful
  <2>2. file[f].doc \in Docs
    BY <2>1 DEF StoreInv, IndexTypeOK
  <2>3. file[f].doc \in Seq(Nat \ {0})
    BY <2>2, RagAssumption
  <2>4. QED
    BY <2>3, AllFaithful
<1>3. QED
  BY <1>2, StoreInvariant, PTL

\* However many indexers died or were overtaken on the way, and whatever is done
\* in other collections: what an ingest that nothing touched since has written is what
\* the store shows at its places.
THEOREM LastIngestShown == IndexSpec => []StoreShowsLastIngest
<1>1. StoreInv => StoreShowsLastIngest
  <2>1. SUFFICES ASSUME StoreInv, NEW p \in DOMAIN complete
                 PROVE  LET last == complete[p]
                            mine == {points[id] : id \in {q \in DOMAIN points :
                                       q[1] = CollectionFor(p[1]) /\ points[q].file = p[2]}}
                            current == {x \in mine : x.index <= Len(last.chunks)}
                        IN  /\ \A i \in DOMAIN last.chunks :
                                 \E x \in current : x.words = last.chunks[i]
                            /\ \A x \in current : x.version = last.version
    BY DEF StoreShowsLastIngest
  <2> DEFINE last == complete[p]
             mine == {points[id] : id \in {q \in DOMAIN points :
                        q[1] = CollectionFor(p[1]) /\ points[q].file = p[2]}}
             current == {x \in mine : x.index <= Len(last.chunks)}
             Id(i) == PointId(CollectionFor(p[1]), p[2], i, last.version)
  <2>2. /\ last.chunks \in Seq(Seq(Nat))
        /\ \A i \in 1..Len(last.chunks) :
             /\ Id(i) \in DOMAIN points
             /\ points[Id(i)].words = last.chunks[i]
             /\ points[Id(i)].version = last.version
    <3>1. /\ last.chunks \in Seq(Seq(Nat))
          /\ \A i \in 1..Len(last.chunks) :
               Holds(points, p[1], p[2], i, last.chunks[i], last.version)
      BY <2>1 DEF StoreInv, CompleteInv
    <3> HIDE DEF last
    <3>2. QED
      BY <3>1 DEF Holds
  <2>3. \A i : Id(i) = <<CollectionFor(p[1]), p[2], <<i>>>>
    BY DEF PointId
  <2>4. \A q \in DOMAIN points : /\ points[q].index \in Nat \ {0}
                                 /\ q = <<CollectionFor(points[q].name), points[q].file,
                                          <<points[q].index>>>>
    <3>1. ASSUME NEW q \in DOMAIN points
          PROVE  /\ points[q].index \in Nat \ {0}
                 /\ q = PointId(CollectionFor(points[q].name), points[q].file,
                                points[q].index, points[q].version)
      BY <2>1 DEF StoreInv, PointsInv
    <3>2. QED
      BY <3>1 DEF PointId
  <2> HIDE DEF Id
  <2>5. ASSUME NEW i \in DOMAIN last.chunks
        PROVE  \E x \in current : x.words = last.chunks[i]
    <3>1. i \in 1..Len(last.chunks)
      BY <2>2, LenProperties
    <3>2. Id(i) \in DOMAIN points /\ points[Id(i)].words = last.chunks[i]
      BY <2>2, <3>1
    <3>3. /\ Id(i)[1] = CollectionFor(p[1]) /\ points[Id(i)].file = p[2]
          /\ points[Id(i)].index = i
      BY <2>3, <2>4, <3>2
    <3>4. points[Id(i)] \in current
      BY <3>1, <3>2, <3>3
    <3>5. QED
      BY <3>2, <3>4
  <2>6. ASSUME NEW x \in current PROVE x.version = last.version
    <3>1. PICK q \in DOMAIN points : /\ q[1] = CollectionFor(p[1]) /\ points[q].file = p[2]
                                     /\ x = points[q] /\ x.index <= Len(last.chunks)
      OBVIOUS
    <3>2. x.index \in Nat \ {0} /\ Len(last.chunks) \in Nat
      BY <2>2, <2>4, <3>1, LenProperties
    <3>4. x.index \in 1..Len(last.chunks)
      BY <3>1, <3>2
    <3>5. q = Id(x.index)
      BY <2>3, <2>4, <3>1
    <3>6. QED
      BY <2>2, <3>1, <3>4, <3>5
  <2>7. QED
    BY <2>5, <2>6
<1>2. QED
  BY <1>1, StoreInvariant, PTL

=============================================================================
