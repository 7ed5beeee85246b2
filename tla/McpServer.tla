------------------------------ MODULE McpServer ------------------------------
(***************************************************************************)
(* ThesisMCPServer (apps/mcp_server/server.py): JSON-RPC over stdio, one    *)
(* line at a time, in front of the tool calls and the literature search.    *)
(* The client may pipeline: lines wait while a request is served.           *)
(* Meanwhile another process makes tool calls on the same cache.            *)
(*                                                                          *)
(* Of thesis_research the literature search is modelled here and the rest   *)
(* in ThesisPipeline; of thesis_critique only that it is awaited.  A line    *)
(* that is longer than the StreamReader's 64 KiB is read in pieces.  Every   *)
(* reply is taken to be one that can be encoded and written.                *)
(*                                                                          *)
(* A line is                                                                *)
(*   hello         initialize, tools/list or an unknown method, with an id;  *)
(*   notification  a request without an id, or blank;                        *)
(*   unreadable    no JSON object;                                          *)
(*   faulty        with an id, but its handling raises before any tool is     *)
(*                 called: tools/call with params that are a list;           *)
(*   long          longer than the reader's limit (no piece of it is a        *)
(*                 request itself: no proper end of a JSON object is one);   *)
(*   search        thesis_search_papers or thesis_verify_citation;           *)
(*   research, critique   the tools of these names;                         *)
(*   unknown       another tool, or arguments the tool cannot take.          *)
(***************************************************************************)
EXTENDS LiteratureSearch

CONSTANTS
    Lines,      \* what a client may send: [kind, key, plan]
    MaxLines,   \* bound on the lines sent
    MaxPieces,  \* bound on the pieces a long line is read in
    Own,        \* the call of a request that is one tool call
    Others      \* calls of another process

ASSUME ServerAssumption ==
    /\ Own \in Calls /\ Others \subseteq Calls \ {Own}
    /\ ToSet(Lanes) \cap ({Own} \cup Others) = {}
    /\ Lines \subseteq [kind : {"hello", "notification", "unreadable", "faulty", "long", "search",
                                "research", "critique", "unknown"},
                        key : Keys \cup {Blank}, plan : Seq(Keys \cup {Blank, NoQuery})]
    /\ MaxLines \in Nat /\ MaxPieces \in Nat \ {0}

VARIABLES
    lines,      \* lines sent so far; a request's id is its place
    taken,      \* lines the server has read, the last one perhaps in part
    pieces,     \* pieces read of a long line that is not at its end
    server,     \* the server's position in run()
    built,      \* _orchestrator exists
    replies     \* replies sent: the line answered, and the id, 0 for "id": null

vars == <<cache, call, search, lines, taken, pieces, server, built, replies>>
serverVars == <<lines, taken, pieces, server, built, replies>>

Init ==
    /\ InitCalls /\ InitSearch
    /\ lines = <<>> /\ taken = 0 /\ pieces = 0
    /\ server = "reading" /\ built = FALSE /\ replies = <<>>

Current == lines[taken]

\* tools/call with a tool's name, for which _call_tool needs the orchestrator.
CallsTool(i) == lines[i].kind \in {"search", "research", "critique", "unknown"}

-----------------------------------------------------------------------------
Send(line) ==
    /\ Len(lines) < MaxLines
    /\ lines' = Append(lines, line)
    /\ UNCHANGED <<cache, call, search, taken, pieces, server, built, replies>>

\* readline: the next line, or the end of the input.
ReadLine ==
    /\ server = "reading" /\ taken < Len(lines)
    /\ taken' = taken + 1
    /\ server' = "handling"
    /\ UNCHANGED <<cache, call, search, lines, pieces, built, replies>>

EndOfInput ==
    /\ server = "reading" /\ taken = Len(lines) /\ Len(lines) = MaxLines
    /\ server' = "stopped"
    /\ UNCHANGED <<cache, call, search, lines, taken, pieces, built, replies>>

Reply(id) ==
    /\ replies' = Append(replies, [to |-> taken, id |-> id])
    /\ server' = "reading"

\* What needs no tool: a request without an id is dropped, whatever it asks; what does
\* not parse, or raises, is answered without its id.
HandleAtOnce ==
    /\ server = "handling"
    /\ \/ Current.kind = "hello" /\ Reply(taken)
       \/ Current.kind = "notification" /\ server' = "reading" /\ UNCHANGED replies
       \/ Current.kind \in {"unreadable", "faulty"} /\ Reply(0)
    /\ UNCHANGED <<cache, call, search, lines, taken, pieces, built>>

\* A long line: readline drops it if its end is in the buffer and else clears the buffer;
\* in both cases it raises, and the error is answered.  A rest that fits is no JSON and
\* is answered too.
Overrun ==
    /\ server = "handling" /\ Current.kind = "long"
    /\ replies' = Append(replies, [to |-> taken, id |-> 0])
    /\ \/ server' = "reading" /\ pieces' = 0
       \/ pieces + 1 < MaxPieces /\ pieces' = pieces + 1 /\ UNCHANGED server
    /\ UNCHANGED <<cache, call, search, lines, taken, built>>

\* Nothing but blanks was left of it.
SkipRest ==
    /\ server = "handling" /\ pieces > 0
    /\ server' = "reading" /\ pieces' = 0
    /\ UNCHANGED <<cache, call, search, lines, taken, built, replies>>

Build_Silent ==
    /\ server = "handling" /\ CallsTool(taken) /\ ~built
    /\ \/ built' = TRUE /\ UNCHANGED <<replies, server>>
       \/ UNCHANGED <<built, replies>> /\ server' = "reading"
    /\ UNCHANGED <<cache, call, search, lines, taken, pieces>>

\* _get_orchestrator, on the first tools/call: it may raise, outside _call_tool's
\* try, and is tried again by the next one.
Build ==
    /\ server = "handling" /\ CallsTool(taken) /\ ~built
    /\ \/ built' = TRUE /\ UNCHANGED <<replies, server>>
       \/ UNCHANGED built /\ Reply(0)
    /\ UNCHANGED <<cache, call, search, lines, taken, pieces>>

\* Each tool is awaited and answered with the request's id, also where it raises.
CallTool ==
    /\ server = "handling" /\ Current.kind = "search" /\ built
    /\ Execute(Own, Current.key)
    /\ server' = "calling"
    /\ UNCHANGED <<search, lines, taken, pieces, built, replies>>

ReplyToCall ==
    /\ server = "calling" /\ call[Own].pc = "done"
    /\ Reply(taken)
    /\ call' = [call EXCEPT ![Own] = Idle]
    /\ UNCHANGED <<cache, search, lines, taken, pieces, built>>

Research ==
    /\ server = "handling" /\ Current.kind = "research" /\ built
    /\ StartSearch(Current.plan)
    /\ server' = "searching"
    /\ UNCHANGED <<cache, call, lines, taken, pieces, built, replies>>

ReplyToResearch ==
    /\ server = "searching" /\ EndSearch
    /\ Reply(taken)
    /\ UNCHANGED <<lines, taken, pieces, built>>

Critique ==
    /\ server = "handling" /\ Current.kind = "critique" /\ built
    /\ server' = "critiquing"
    /\ UNCHANGED <<cache, call, search, lines, taken, pieces, built, replies>>

ReplyToCritique ==
    /\ server = "critiquing"
    /\ Reply(taken)
    /\ UNCHANGED <<cache, call, search, lines, taken, pieces, built>>

ReplyToUnknown ==
    /\ server = "handling" /\ Current.kind = "unknown" /\ built
    /\ Reply(taken)
    /\ UNCHANGED <<cache, call, search, lines, taken, pieces, built>>

Handle ==
    \/ ReadLine \/ HandleAtOnce \/ Overrun \/ SkipRest \/ Build \/ CallTool \/ ReplyToCall
    \/ Research \/ ReplyToResearch \/ Critique \/ ReplyToCritique \/ ReplyToUnknown

-----------------------------------------------------------------------------
\* Another process starts a tool call, and takes its answer.
OtherCall(c, k) == Execute(c, k) /\ UNCHANGED <<search, serverVars>>

OtherTakes(c) ==
    /\ call[c].pc = "done"
    /\ call' = [call EXCEPT ![c] = Idle]
    /\ UNCHANGED <<cache, search, serverVars>>

Next ==
    \/ \E line \in Lines : Send(line)
    \/ ReadLine
    \/ EndOfInput
    \/ HandleAtOnce
    \/ Overrun
    \/ SkipRest
    \/ Build
    \/ CallTool
    \/ ReplyToCall
    \/ Research
    \/ ReplyToResearch
    \/ Critique
    \/ ReplyToCritique
    \/ ReplyToUnknown
    \/ BeginLane /\ UNCHANGED serverVars
    \/ EndRag /\ UNCHANGED serverVars
    \/ Gather /\ UNCHANGED serverVars
    \/ \E c \in Others, k \in Keys : OtherCall(c, k)
    \/ \E c \in Others : OtherTakes(c)
    \/ \E c \in Calls : Respond(c) /\ UNCHANGED <<search, serverVars>>
    \/ \E c \in Calls : FailAttempt(c) /\ UNCHANGED <<search, serverVars>>
    \/ \E c \in Calls : WakeUp(c) /\ UNCHANGED <<search, serverVars>>
    \/ Tick /\ UNCHANGED <<search, serverVars>>
    \/ \E k \in Keys : Drop(k) /\ UNCHANGED <<search, serverVars>>

Spec == Init /\ [][Next]_vars

\* The server's event loop runs what is ready; a request it sent ends, with an
\* answer or an error of the transport; a sleep ends; a critique does, its provider
\* calls being under wait_for.  Nothing is assumed of the client or of the other
\* process.
ServerStep ==
    \/ Handle
    \/ (BeginLane \/ EndRag \/ Gather) /\ UNCHANGED serverVars
    \/ \E c \in Calls \ Others : Proceed(c) /\ UNCHANGED <<search, serverVars>>

FairSpec == Spec /\ WF_vars(ServerStep)

-----------------------------------------------------------------------------
\* Every variable keeps its type.
TypeOK ==
    /\ CallsTypeOK
    /\ search.pc \in {"idle", "searching", "done"}
    /\ search.begun \in 0..Len(search.keys) /\ Len(search.keys) <= MaxLanes
    /\ lines \in Seq(Lines) /\ taken \in 0..Len(lines) /\ pieces \in 0..(MaxPieces - 1)
    /\ server \in {"reading", "handling", "calling", "searching", "critiquing", "stopped"}
    /\ built \in BOOLEAN
    /\ replies \in Seq([to : Nat, id : Nat])

Served == IF server \in {"reading", "stopped"} THEN taken ELSE taken - 1
Asks(i) == lines[i].kind # "notification"
HasId(i) == lines[i].kind = "hello" \/ CallsTool(i)
Unnamed(i) == lines[i].kind \in {"unreadable", "faulty", "long"}

\* The server replies to every line it has served but notifications, and to no other, in
\* the order they came: once, but for a line longer than the reader's limit, each piece of
\* which may be answered (server.py:208).  A reply bears the id of its request, but for
\* what cannot be read, what raises outside a tool, and a tools/call before the first
\* orchestrator was built: those are answered with a null id, which a client cannot tell
\* from another.
RepliesMatchRequests ==
    /\ {replies[j].to : j \in DOMAIN replies} =
         {i \in 1..Served : Asks(i)} \cup (IF pieces > 0 THEN {taken} ELSE {})
    /\ \A i, j \in DOMAIN replies :
         i < j => \/ replies[i].to < replies[j].to
                  \/ replies[i].to = replies[j].to /\ lines[replies[i].to].kind = "long"
    /\ \A j \in DOMAIN replies :
         \/ replies[j].id = replies[j].to /\ HasId(replies[j].to)
         \/ replies[j].id = 0 /\ Unnamed(replies[j].to)
         \/ /\ replies[j].id = 0 /\ CallsTool(replies[j].to)
            /\ \A i \in 1..(j - 1) : ~(replies[i].id # 0 /\ CallsTool(replies[i].to))

\* Every line is served, however the tools fail: one request, or one lane, that
\* never returned would block all that follow.
EveryLineServed ==
    Served < Len(lines) ~> Served = Len(lines)

=============================================================================
