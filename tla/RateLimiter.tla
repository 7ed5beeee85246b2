----------------------------- MODULE RateLimiter -----------------------------
(***************************************************************************)
(* The per-IP rate limiter of the API (apps/api/rate_limit.py): for every  *)
(* client a log of admitted requests per window, trimmed on each request,  *)
(* and a periodic prune of clients that went quiet.                        *)
(*                                                                         *)
(* dispatch() awaits nothing before it has decided and logged, so one      *)
(* request is one step; requests may share a clock reading.                *)
(***************************************************************************)
EXTENDS Integers, Sequences

CONSTANTS
    IPs,
    Width,      \* Width[w]: the window's length (60 s and 3600 s)
    Limit,      \* Limit[w]: API_RATE_LIMIT_REQUESTS_PER_MINUTE / _PER_HOUR
    Cleanup,    \* API_RATE_LIMIT_CLEANUP_INTERVAL_SEC
    MaxTime     \* bound on the clock

Windows == {"minute", "hour"}

ASSUME LimiterAssumption ==
    /\ Width \in [Windows -> Nat]
    /\ Width["minute"] <= Width["hour"]
    /\ Limit \in [Windows -> Nat]
    /\ Cleanup \in Nat
    /\ MaxTime \in Nat

VARIABLES
    now,        \* time.monotonic(), in ticks
    log,        \* _state: admitted requests by <<client, window>>; a key that
                \* is not in its domain is not tracked
    lastPrune,  \* _last_prune
    admits,     \* history, never read: every admitted request's time, by client
    reply       \* history, never read: the last request's client and verdict

vars == <<now, log, lastPrune, admits, reply>>

Init ==
    /\ now = 0
    /\ log = [k \in {} |-> <<>>]
    /\ lastPrune = 0
    /\ admits = [ip \in IPs |-> <<>>]
    /\ reply = [ip |-> "none", verdict |-> "none"]

-----------------------------------------------------------------------------
\* _trim: pop from the left while the oldest entry is before the cutoff.
Trim(s, cutoff) ==
    LET k == CHOOSE k \in 0..Len(s) :
               /\ \A i \in 1..k : s[i] < cutoff
               /\ k < Len(s) => ~(s[k + 1] < cutoff)
    IN  SubSeq(s, k + 1, Len(s))

Pruned_ByOldest ==
    IF now - lastPrune < Cleanup THEN log
    ELSE [k \in {k \in DOMAIN log : log[k] # <<>> /\ log[k][1] >= now - Width["hour"]}
            |-> log[k]]

Pruned_Never == log

\* _prune_if_needed: at most once per interval, drop the keys whose log is empty
\* or whose newest entry is over an hour old.
Pruned ==
    IF now - lastPrune < Cleanup THEN log
    ELSE [k \in {k \in DOMAIN log :
                   log[k] # <<>> /\ log[k][Len(log[k])] >= now - Width["hour"]}
            |-> log[k]]

\* setdefault followed by _trim.
Recent(pruned, ip, w) ==
    Trim(IF <<ip, w>> \in DOMAIN pruned THEN pruned[<<ip, w>>] ELSE <<>>, now - Width[w])

Logged(pruned, ip, entries) ==
    [k \in DOMAIN pruned \cup {<<ip, w>> : w \in Windows} |->
        IF k[1] = ip THEN entries[k[2]] ELSE pruned[k]]

PrunedAt == IF now - lastPrune < Cleanup THEN lastPrune ELSE now

Full(recent, w) == Len(recent[w]) >= Limit[w]

Request_LogsRefused(ip) ==
    LET recent == [w \in Windows |-> Recent(Pruned, ip, w)]
        entries == [w \in Windows |-> Append(recent[w], now)]
        verdict == IF Full(recent, "minute") THEN "minute"
                   ELSE IF Full(recent, "hour") THEN "hour" ELSE "admitted"
    IN  /\ lastPrune' = PrunedAt
        /\ log' = Logged(Pruned, ip, entries)
        /\ admits' = IF verdict = "admitted" THEN [admits EXCEPT ![ip] = Append(@, now)]
                     ELSE admits
        /\ reply' = [ip |-> ip, verdict |-> verdict]
        /\ UNCHANGED now

\* dispatch: prune, trim both windows, refuse with 429 when one is full, else log
\* the request in both and hand it on.
Request(ip) ==
    LET recent == [w \in Windows |-> Recent(Pruned, ip, w)]
        verdict == IF Full(recent, "minute") THEN "minute"
                   ELSE IF Full(recent, "hour") THEN "hour" ELSE "admitted"
        entries == IF verdict = "admitted"
                   THEN [w \in Windows |-> Append(recent[w], now)] ELSE recent
    IN  /\ lastPrune' = PrunedAt
        /\ log' = Logged(Pruned, ip, entries)
        /\ admits' = IF verdict = "admitted" THEN [admits EXCEPT ![ip] = Append(@, now)]
                     ELSE admits
        /\ reply' = [ip |-> ip, verdict |-> verdict]
        /\ UNCHANGED now

Tick ==
    /\ now < MaxTime
    /\ now' = now + 1
    /\ reply' = [ip |-> "none", verdict |-> "none"]
    /\ UNCHANGED <<log, lastPrune, admits>>

Next ==
    \/ \E ip \in IPs : Request(ip)
    \/ Tick

Spec == Init /\ [][Next]_vars

-----------------------------------------------------------------------------
\* Every variable keeps its type.
TypeOK ==
    /\ now \in 0..MaxTime
    /\ lastPrune \in 0..now
    /\ DOMAIN log \subseteq IPs \X Windows
    /\ \A k \in DOMAIN log : log[k] \in Seq(0..now)
    /\ admits \in [IPs -> Seq(0..now)]

\* README.md:279, as a bound on what any client ever got through, wherever the
\* window is placed and whatever was trimmed or pruned in between: the request
\* Limit[w] places after an admitted one comes more than Width[w] later.
WindowBound ==
    \A ip \in IPs, w \in Windows :
      LET a == admits[ip]
      IN  \A i \in 1..(Len(a) - Limit[w]) : a[i + Limit[w]] > a[i] + Width[w]

\* Nobody is refused for requests that were refused or that left the window: a
\* 429 means that the window really holds Limit[w] admitted requests.
RefusedOnlyWhenFull ==
    reply.verdict \in Windows =>
      LET a == admits[reply.ip]  w == reply.verdict
      IN  /\ Len(a) >= Limit[w]
          /\ \A i \in (Len(a) - Limit[w] + 1)..Len(a) : a[i] >= now - Width[w]

\* _state does not grow with every client ever seen: what it holds beyond the
\* last prune, if it is not empty, was active within an hour of it.
QuietClientsForgotten ==
    \A k \in DOMAIN log :
      log[k] # <<>> => log[k][Len(log[k])] >= lastPrune - Width["hour"]

=============================================================================
