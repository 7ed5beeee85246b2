----------------------------- MODULE ApiProofs ------------------------------
(***************************************************************************)
(* The HTTP API: the rate limiter for every set of clients, window widths, *)
(* limits and cleanup interval, and the task store for any number of tasks *)
(* and any bound on it.                                                    *)
(*                                                                         *)
(* The limiter's invariant: each log, tracked or not, is the part of the   *)
(* client's admitted requests that later requests can still be charged     *)
(* with; everything older has left the window. The store keeps record,     *)
(* handle and asyncio task together.                                       *)
(***************************************************************************)
EXTENDS RateLimiter, TaskQueue, WellFoundedInduction, SequenceTheorems, TLAPS

-----------------------------------------------------------------------------
\* The rate limiter.

Entries(ip, w) == IF <<ip, w>> \in DOMAIN log THEN log[<<ip, w>>] ELSE <<>>

\* s is what is left of a when entries from before the cutoff were dropped.
SuffixOf(s, a, cutoff) ==
    /\ Len(s) <= Len(a)
    /\ \A i \in 1..Len(s) : s[i] = a[Len(a) - Len(s) + i]
    /\ \A i \in 1..(Len(a) - Len(s)) : a[i] < cutoff

LogIsSuffix ==
    \A ip \in IPs, w \in Windows : SuffixOf(Entries(ip, w), admits[ip], now - Width[w])

Sorted ==
    \A ip \in IPs : \A i, j \in 1..Len(admits[ip]) : i <= j => admits[ip][i] <= admits[ip][j]

LimiterInv == TypeOK /\ Sorted /\ LogIsSuffix

-----------------------------------------------------------------------------
LEMMA Smallest ==
    ASSUME NEW S \in SUBSET Nat, S # {}
    PROVE  \E m \in S : \A k \in S : m <= k
<1> DEFINE R == {ss \in Nat \X Nat : ss[1] < ss[2]}
<1>1. R = OpToRel(<, Nat)
  BY DEF OpToRel
<1>2. IsWellFoundedOn(R, Nat)
  BY <1>1, NatLessThanWellFounded
<1>3. PICK x \in S : \A y \in S : ~(<<y, x>> \in R)
  BY <1>2, WFMin
<1>4. \A y \in S : ~(y < x)
  BY <1>3
<1>5. QED
  BY <1>4

\* Trim drops a prefix of entries before the cutoff and stops at the first that
\* is not.
LEMMA TrimShape ==
    ASSUME NEW n \in Nat, NEW s \in Seq(0..n), NEW cutoff \in Int
    PROVE  \E k \in 0..Len(s) :
             /\ Trim(s, cutoff) \in Seq(0..n)
             /\ Len(Trim(s, cutoff)) = Len(s) - k
             /\ \A i \in 1..(Len(s) - k) : Trim(s, cutoff)[i] = s[k + i]
             /\ \A i \in 1..k : s[i] < cutoff
             /\ k < Len(s) => s[k + 1] >= cutoff
<1> DEFINE P(k) == /\ \A i \in 1..k : s[i] < cutoff
                   /\ k < Len(s) => ~(s[k + 1] < cutoff)
           S == {k \in 0..Len(s) : k < Len(s) => ~(s[k + 1] < cutoff)}
<1>1. Len(s) \in Nat /\ \A i \in 1..Len(s) : s[i] \in 0..n
  BY LenProperties
<1>2. S \in SUBSET Nat /\ Len(s) \in S
  BY <1>1
<1>3. PICK m \in S : \A k \in S : m <= k
  BY <1>2, Smallest
<1>4. \A i \in 1..m : s[i] < cutoff
  <2>1. SUFFICES ASSUME NEW i \in 1..m, ~(s[i] < cutoff) PROVE FALSE
    OBVIOUS
  <2>2. i - 1 \in S
    BY <1>1, <2>1
  <2>3. m <= i - 1
    BY <1>3, <2>2
  <2>4. m \in Nat
    BY <1>2, <1>3
  <2>5. QED
    BY <2>1, <2>3, <2>4
<1>5. \E k \in 0..Len(s) : P(k)
  BY <1>3, <1>4
<1>6. PICK k \in 0..Len(s) : P(k) /\ Trim(s, cutoff) = SubSeq(s, k + 1, Len(s))
  BY <1>5 DEF Trim
<1>7. k \in Int /\ \A i \in (k + 1)..Len(s) : s[i] \in 0..n
  BY <1>1
<1>8. /\ SubSeq(s, k + 1, Len(s)) \in Seq(0..n)
      /\ Len(SubSeq(s, k + 1, Len(s))) = Len(s) - k
      /\ \A i \in 1..(Len(s) - k) : SubSeq(s, k + 1, Len(s))[i] = s[k + i]
  <2>1. k + 1 \in Int /\ Len(s) \in Int
    BY <1>1
  <2>2. /\ SubSeq(s, k + 1, Len(s)) \in Seq(0..n)
        /\ Len(SubSeq(s, k + 1, Len(s))) =
             IF k + 1 <= Len(s) THEN Len(s) - (k + 1) + 1 ELSE 0
        /\ \A i \in 1..(Len(s) - (k + 1) + 1) :
              SubSeq(s, k + 1, Len(s))[i] = s[(k + 1) + i - 1]
    BY <1>7, <2>1, SubSeqProperties
  <2>3. Len(s) - (k + 1) + 1 = Len(s) - k
    BY <1>1
  <2>4. \A i \in Int : (k + 1) + i - 1 = k + i
    BY <1>1
  <2>5. Len(SubSeq(s, k + 1, Len(s))) = Len(s) - k
    <3>1. Len(SubSeq(s, k + 1, Len(s))) = IF k + 1 <= Len(s) THEN Len(s) - k ELSE 0
      BY <2>2, <2>3
    <3>2. ~(k + 1 <= Len(s)) => Len(s) - k = 0
      BY <1>1
    <3>3. QED
      BY <3>1, <3>2
  <2>6. \A i \in 1..(Len(s) - k) : SubSeq(s, k + 1, Len(s))[i] = s[k + i]
    BY <2>2, <2>3, <2>4
  <2>7. QED
    BY <2>2, <2>5, <2>6
<1>9. k < Len(s) => s[k + 1] >= cutoff
  BY <1>1, <1>6
<1>10. QED
  BY <1>6, <1>8, <1>9

\* Trimming a suffix at a later cutoff leaves a suffix, whose first entry is
\* inside the window.
LEMMA TrimSuffix ==
    ASSUME NEW n \in Nat, NEW a \in Seq(0..n), NEW s \in Seq(0..n),
           NEW c0 \in Int, NEW c \in Int, c0 <= c, SuffixOf(s, a, c0)
    PROVE  /\ Trim(s, c) \in Seq(0..n)
           /\ SuffixOf(Trim(s, c), a, c)
           /\ Len(Trim(s, c)) > 0 => Trim(s, c)[1] >= c
<1> DEFINE t == Trim(s, c)
<1>1. PICK k \in 0..Len(s) :
         /\ t \in Seq(0..n)
         /\ Len(t) = Len(s) - k
         /\ \A i \in 1..(Len(s) - k) : t[i] = s[k + i]
         /\ \A i \in 1..k : s[i] < c
         /\ k < Len(s) => s[k + 1] >= c
  BY TrimShape
<1>2. /\ Len(s) \in Nat /\ Len(a) \in Nat /\ Len(s) <= Len(a)
      /\ \A i \in 1..Len(s) : s[i] = a[Len(a) - Len(s) + i]
      /\ \A i \in 1..(Len(a) - Len(s)) : a[i] < c0
      /\ \A i \in 1..Len(a) : a[i] \in 0..n
  BY LenProperties DEF SuffixOf
<1> HIDE DEF t
<1>3. \A i \in 1..Len(t) : t[i] = a[Len(a) - Len(t) + i]
  <2>1. SUFFICES ASSUME NEW i \in 1..Len(t) PROVE t[i] = a[Len(a) - Len(t) + i]
    OBVIOUS
  <2>2. k + i \in 1..Len(s) /\ Len(a) - Len(s) + (k + i) = Len(a) - Len(t) + i
    BY <1>1, <1>2
  <2>3. QED
    BY <1>1, <1>2, <2>2
<1>4. \A i \in 1..(Len(a) - Len(t)) : a[i] < c
  <2>1. SUFFICES ASSUME NEW i \in 1..(Len(a) - Len(t)) PROVE a[i] < c
    OBVIOUS
  <2>2. CASE i <= Len(a) - Len(s)
    BY <1>1, <1>2, <2>2, SMTT(30)
  <2>3. CASE ~(i <= Len(a) - Len(s))
    <3> DEFINE j == i - (Len(a) - Len(s))
    <3>1. i \in Int /\ i <= Len(a) - Len(t) /\ i > Len(a) - Len(s)
      BY <1>1, <1>2, <2>3
    <3>2. Len(a) - Len(t) = Len(a) - Len(s) + k
      BY <1>1, <1>2
    <3>3. j \in 1..k
      BY <1>2, <3>1, <3>2, SMTT(30)
    <3>4. j \in 1..Len(s) /\ Len(a) - Len(s) + j = i
      BY <1>2, <3>1, <3>3
    <3>5. s[j] < c /\ s[j] = a[i]
      BY <1>1, <1>2, <3>3, <3>4
    <3>6. QED
      BY <3>5
  <2>4. QED
    BY <2>2, <2>3
<1>5. ASSUME Len(t) > 0 PROVE t[1] >= c
  <2>1. k < Len(s) /\ 1 \in 1..(Len(s) - k)
    BY <1>1, <1>2, <1>5, SMTT(30)
  <2>2. QED
    BY <1>1, <2>1
<1>6. QED
  BY <1>1, <1>2, <1>3, <1>4, <1>5 DEF SuffixOf, t

LEMMA AppendSuffix ==
    ASSUME NEW n \in Nat, NEW a \in Seq(0..n), NEW s \in Seq(0..n),
           NEW c \in Int, NEW x \in 0..n, SuffixOf(s, a, c)
    PROVE  SuffixOf(Append(s, x), Append(a, x), c)
<1> DEFINE t == Append(s, x)
           b == Append(a, x)
<1>1. /\ Len(t) = Len(s) + 1 /\ Len(b) = Len(a) + 1
      /\ \A i \in 1..Len(s) : t[i] = s[i]
      /\ \A i \in 1..Len(a) : b[i] = a[i]
      /\ t[Len(s) + 1] = x /\ b[Len(a) + 1] = x
  BY AppendProperties
<1>2. /\ Len(s) \in Nat /\ Len(a) \in Nat /\ Len(s) <= Len(a)
      /\ \A i \in 1..Len(s) : s[i] = a[Len(a) - Len(s) + i]
      /\ \A i \in 1..(Len(a) - Len(s)) : a[i] < c
  BY LenProperties DEF SuffixOf
<1> HIDE DEF t, b
<1>3. \A i \in 1..Len(t) : t[i] = b[Len(b) - Len(t) + i]
  <2>1. SUFFICES ASSUME NEW i \in 1..Len(t) PROVE t[i] = b[Len(b) - Len(t) + i]
    OBVIOUS
  <2>2. CASE i = Len(s) + 1
    BY <1>1, <1>2, <2>2
  <2>3. CASE i # Len(s) + 1
    <3>1. i \in 1..Len(s) /\ Len(b) - Len(t) + i = Len(a) - Len(s) + i
          /\ Len(a) - Len(s) + i \in 1..Len(a)
      BY <1>1, <1>2, <2>3
    <3>2. QED
      BY <1>1, <1>2, <3>1
  <2>4. QED
    BY <2>2, <2>3
<1>4. \A i \in 1..(Len(b) - Len(t)) : b[i] < c
  <2>1. Len(b) - Len(t) = Len(a) - Len(s)
    BY <1>1, <1>2
  <2>2. \A i \in 1..(Len(a) - Len(s)) : i \in 1..Len(a)
    BY <1>2
  <2>3. QED
    BY <1>1, <1>2, <2>1, <2>2
<1>5. Len(t) <= Len(b)
  BY <1>1, <1>2
<1>6. SuffixOf(t, b, c)
  BY <1>3, <1>4, <1>5 DEF SuffixOf
<1>7. QED
  BY <1>6 DEF t, b

-----------------------------------------------------------------------------
\* The prune leaves what a request goes on with, for every client and window.
KeptLog(ip, w) == IF <<ip, w>> \in DOMAIN Pruned THEN Pruned[<<ip, w>>] ELSE <<>>

\* A pruned key has nothing left that counts.
LEMMA KeptShape ==
    ASSUME LimiterInv, NEW ip \in IPs, NEW w \in Windows
    PROVE  /\ KeptLog(ip, w) \in Seq(0..now)
           /\ SuffixOf(KeptLog(ip, w), admits[ip], now - Width[w])
<1> DEFINE k == <<ip, w>>
           kept == KeptLog(ip, w)
           c == now - Width[w]
<1> USE DEF KeptLog
<1>1. /\ now \in Nat /\ c \in Int /\ now - Width["hour"] <= c
      /\ now - Width["hour"] \in Int
  BY LimiterAssumption DEF LimiterInv, TypeOK, Windows
<1>2. admits[ip] \in Seq(0..now) /\ Entries(ip, w) \in Seq(0..now)
  BY EmptySeq DEF LimiterInv, TypeOK, Entries
<1>3. SuffixOf(Entries(ip, w), admits[ip], c)
  BY DEF LimiterInv, LogIsSuffix
<1>4. CASE kept = Entries(ip, w)
  BY <1>2, <1>3, <1>4
<1>5. CASE kept # Entries(ip, w)
  <2>1. /\ k \in DOMAIN log /\ kept = <<>>
        /\ Entries(ip, w) = log[k]
        /\ log[k] = <<>> \/ log[k][Len(log[k])] < now - Width["hour"]
    <3>1. k \in DOMAIN Pruned => k \in DOMAIN log /\ Pruned[k] = log[k]
      BY DEF Pruned
    <3>2. k \notin DOMAIN Pruned /\ kept = <<>>
      BY <1>5, <3>1 DEF Entries
    <3>3. k \in DOMAIN log /\ Entries(ip, w) = log[k]
      BY <1>5, <3>2 DEF Entries
    <3>4. ~(log[k] # <<>> /\ log[k][Len(log[k])] >= now - Width["hour"])
      BY <3>2, <3>3 DEF Pruned
    <3>5. log[k] # <<>> => log[k][Len(log[k])] \in 0..now
      <4>1. SUFFICES ASSUME log[k] # <<>> PROVE log[k][Len(log[k])] \in 0..now
        OBVIOUS
      <4>2. log[k] \in Seq(0..now) /\ Len(log[k]) \in 1..Len(log[k])
        BY <1>2, <3>3, <4>1, EmptySeq
      <4>3. QED
        BY <4>2, ElementOfSeq
    <3>6. QED
      BY <1>1, <3>2, <3>3, <3>4, <3>5
  <2>2. log[k] # <<>>
    BY <1>5, <2>1
  <2> DEFINE a == admits[ip]
             s == log[k]
  <2>3. /\ s \in Seq(0..now) /\ Len(s) \in Nat \ {0} /\ Len(a) \in Nat
        /\ \A i \in 1..Len(a) : a[i] \in 0..now
    BY <1>2, <2>1, <2>2, EmptySeq, LenProperties
  <2>4. a[Len(a)] < now - Width["hour"] /\ Len(a) \in Nat \ {0}
    <3>1. Len(s) <= Len(a) /\ \A i \in 1..Len(s) : s[i] = a[Len(a) - Len(s) + i]
      BY <1>3, <2>1 DEF SuffixOf
    <3>2. s[Len(s)] = a[Len(a)]
      <4>1. Len(s) \in 1..Len(s) /\ Len(a) - Len(s) + Len(s) = Len(a)
        BY <2>3
      <4>2. QED
        BY <3>1, <4>1
    <3>3. QED
      BY <2>1, <2>2, <2>3, <3>1, <3>2
  <2>5. \A i \in 1..Len(a) : a[i] <= a[Len(a)]
    BY <2>4 DEF LimiterInv, Sorted
  <2>6. \A i \in 1..Len(a) : a[i] < c
    <3>1. SUFFICES ASSUME NEW i \in 1..Len(a) PROVE a[i] < c
      OBVIOUS
    <3>2. a[i] \in Int /\ a[Len(a)] \in Int
      BY <1>1, <2>3, <2>4
    <3>3. a[i] <= a[Len(a)]
      BY <2>5
    <3> HIDE DEF a, c
    <3>4. QED
      BY <1>1, <2>4, <3>2, <3>3
  <2>7. SuffixOf(<<>>, a, c)
    BY <2>3, <2>6 DEF SuffixOf
  <2>8. QED
    BY <2>1, <2>7, EmptySeq
<1>6. QED
  BY <1>4, <1>5

\* ... and the trim leaves the entries inside the window.
LEMMA RecentShape ==
    ASSUME LimiterInv, NEW ip \in IPs, NEW w \in Windows
    PROVE  /\ Recent(Pruned, ip, w) \in Seq(0..now)
           /\ SuffixOf(Recent(Pruned, ip, w), admits[ip], now - Width[w])
           /\ Len(Recent(Pruned, ip, w)) > 0 => Recent(Pruned, ip, w)[1] >= now - Width[w]
<1>1. now \in Nat /\ now - Width[w] \in Int /\ admits[ip] \in Seq(0..now)
  BY LimiterAssumption DEF LimiterInv, TypeOK
<1>2. KeptLog(ip, w) \in Seq(0..now) /\ SuffixOf(KeptLog(ip, w), admits[ip], now - Width[w])
  BY KeptShape
<1>3. Recent(Pruned, ip, w) = Trim(KeptLog(ip, w), now - Width[w])
  BY DEF Recent, KeptLog
<1>4. QED
  BY <1>1, <1>2, <1>3, TrimSuffix

-----------------------------------------------------------------------------
\* One request, by client and window.
LEMMA RequestEntries ==
    ASSUME LimiterInv, NEW ip \in IPs, Request(ip)
    PROVE  /\ DOMAIN log' \subseteq IPs \X Windows
           /\ \A w \in Windows : Entries(ip, w)' =
                IF reply'.verdict = "admitted" THEN Append(Recent(Pruned, ip, w), now)
                                               ELSE Recent(Pruned, ip, w)
           /\ \A q \in IPs \ {ip}, w \in Windows : Entries(q, w)' = KeptLog(q, w)
           /\ admits' = IF reply'.verdict = "admitted"
                        THEN [admits EXCEPT ![ip] = Append(@, now)] ELSE admits
           /\ reply'.ip = ip
           /\ reply'.verdict = "admitted" =>
                \A w \in Windows : ~(Len(Recent(Pruned, ip, w)) >= Limit[w])
           /\ reply'.verdict \in Windows =>
                Len(Recent(Pruned, ip, reply'.verdict)) >= Limit[reply'.verdict]
           /\ UNCHANGED now
<1> DEFINE recent == [w \in Windows |-> Recent(Pruned, ip, w)]
           verdict == IF Full(recent, "minute") THEN "minute"
                      ELSE IF Full(recent, "hour") THEN "hour" ELSE "admitted"
           entries == IF verdict = "admitted"
                      THEN [w \in Windows |-> Append(recent[w], now)] ELSE recent
<1>1. /\ log' = Logged(Pruned, ip, entries)
      /\ admits' = IF verdict = "admitted" THEN [admits EXCEPT ![ip] = Append(@, now)]
                    ELSE admits
      /\ reply' = [ip |-> ip, verdict |-> verdict]
      /\ UNCHANGED now
  BY DEF Request, PrunedAt
<1>2. DOMAIN Pruned \subseteq DOMAIN log /\ DOMAIN log \subseteq IPs \X Windows
  BY DEF Pruned, LimiterInv, TypeOK
<1>3. \A w \in Windows : recent[w] = Recent(Pruned, ip, w)
  OBVIOUS
<1>4. verdict = "admitted" =>
        \A w \in Windows : ~(Len(Recent(Pruned, ip, w)) >= Limit[w])
  BY <1>3 DEF Full, Windows
<1>5. verdict \in Windows => Len(Recent(Pruned, ip, verdict)) >= Limit[verdict]
  BY <1>3 DEF Full, Windows
<1>6. \A w \in Windows : entries[w] =
        IF verdict = "admitted" THEN Append(Recent(Pruned, ip, w), now)
                                ELSE Recent(Pruned, ip, w)
  BY <1>3
<1> HIDE DEF verdict, entries, recent
<1>7. DOMAIN log' = DOMAIN Pruned \cup {<<ip, w>> : w \in Windows}
  BY <1>1 DEF Logged
<1>8. \A w \in Windows : Entries(ip, w)' = entries[w]
  BY <1>1, <1>7 DEF Entries, Logged
<1>9. ASSUME NEW q \in IPs \ {ip}, NEW w \in Windows PROVE Entries(q, w)' = KeptLog(q, w)
  BY <1>1, <1>7 DEF Entries, Logged, KeptLog
<1>10. reply'.ip = ip /\ reply'.verdict = verdict
  BY <1>1
<1>11. DOMAIN log' \subseteq IPs \X Windows
  BY <1>2, <1>7
<1>12. \A w \in Windows : Entries(ip, w)' =
         IF reply'.verdict = "admitted" THEN Append(Recent(Pruned, ip, w), now)
                                        ELSE Recent(Pruned, ip, w)
  BY <1>6, <1>8, <1>10
<1>13. \A q \in IPs \ {ip}, w \in Windows : Entries(q, w)' = KeptLog(q, w)
  BY <1>9
<1>14. admits' = IF reply'.verdict = "admitted"
                 THEN [admits EXCEPT ![ip] = Append(@, now)] ELSE admits
  BY <1>1, <1>10
<1>15. reply'.verdict = "admitted" =>
         \A w \in Windows : ~(Len(Recent(Pruned, ip, w)) >= Limit[w])
  BY <1>4, <1>10
<1>16. reply'.verdict \in Windows =>
         Len(Recent(Pruned, ip, reply'.verdict)) >= Limit[reply'.verdict]
  BY <1>5, <1>10
<1>17. reply'.ip = ip /\ UNCHANGED now
  BY <1>1, <1>10
<1> QED
  BY <1>11, <1>12, <1>13, <1>14, <1>15, <1>16, <1>17

-----------------------------------------------------------------------------
LEMMA Initially == Init => LimiterInv
<1> SUFFICES ASSUME Init PROVE LimiterInv
  OBVIOUS
<1> USE DEF Init
<1>1. TypeOK
  BY LimiterAssumption, EmptySeq DEF TypeOK
<1>2. Sorted
  BY EmptySeq DEF Sorted
<1>3. LogIsSuffix
  BY EmptySeq DEF LogIsSuffix, SuffixOf, Entries
<1>4. QED
  BY <1>1, <1>2, <1>3 DEF LimiterInv

\* Every client's history after one request.
LEMMA AdmitsAfter ==
    ASSUME LimiterInv, NEW ip \in IPs, Request(ip), NEW q \in IPs
    PROVE  /\ admits[q] \in Seq(0..now) /\ admits'[q] \in Seq(0..now)
           /\ (q = ip /\ reply'.verdict = "admitted") => admits'[q] = Append(admits[q], now)
           /\ (~(q = ip /\ reply'.verdict = "admitted")) => admits'[q] = admits[q]
<1>1. now \in 0..now /\ admits \in [IPs -> Seq(0..now)]
  BY DEF LimiterInv, TypeOK
<1>2. admits' = IF reply'.verdict = "admitted"
                THEN [admits EXCEPT ![ip] = Append(@, now)] ELSE admits
  BY RequestEntries
<1>3. Append(admits[q], now) \in Seq(0..now)
  BY <1>1, AppendProperties
<1>4. QED
  BY <1>1, <1>2, <1>3

LEMMA RequestType == ASSUME LimiterInv, NEW ip \in IPs, Request(ip) PROVE TypeOK'
<1>1. now' = now /\ now \in 0..MaxTime /\ lastPrune \in 0..now /\ now \in Nat
  BY RequestEntries, LimiterAssumption DEF LimiterInv, TypeOK
<1>2. lastPrune' \in 0..now
  BY <1>1 DEF Request, PrunedAt
<1>3. admits' \in [IPs -> Seq(0..now)]
  <2>1. DOMAIN admits' = IPs /\ admits' = [q \in DOMAIN admits' |-> admits'[q]]
    <3>1. admits \in [IPs -> Seq(0..now)]
      BY DEF LimiterInv, TypeOK
    <3>2. admits' = IF reply'.verdict = "admitted"
                    THEN [admits EXCEPT ![ip] = Append(@, now)] ELSE admits
      BY RequestEntries
    <3>3. QED
      BY <3>1, <3>2
  <2>2. \A q \in IPs : admits'[q] \in Seq(0..now)
    BY AdmitsAfter
  <2>3. QED
    BY <2>1, <2>2
<1>4. DOMAIN log' \subseteq IPs \X Windows
  BY RequestEntries
<1>5. ASSUME NEW q \in IPs, NEW w \in Windows PROVE Entries(q, w)' \in Seq(0..now)
  <2>1. CASE q = ip
    <3>1. Recent(Pruned, ip, w) \in Seq(0..now)
      BY RecentShape
    <3>2. Append(Recent(Pruned, ip, w), now) \in Seq(0..now)
      BY <1>1, <3>1, AppendProperties
    <3>3. QED
      BY <2>1, <3>1, <3>2, RequestEntries
  <2>2. CASE q # ip
    BY <2>2, KeptShape, RequestEntries
  <2>3. QED
    BY <2>1, <2>2
<1>6. \A k \in DOMAIN log' : log'[k] \in Seq(0..now)
  <2>1. SUFFICES ASSUME NEW k \in DOMAIN log' PROVE log'[k] \in Seq(0..now)
    OBVIOUS
  <2>2. PICK q \in IPs, w \in Windows : k = <<q, w>>
    BY <1>4
  <2>3. Entries(q, w)' = log'[k]
    BY <2>2 DEF Entries
  <2>4. QED
    BY <1>5, <2>3
<1>7. QED
  BY <1>1, <1>2, <1>3, <1>4, <1>6 DEF TypeOK

LEMMA RequestSorted == ASSUME LimiterInv, NEW ip \in IPs, Request(ip) PROVE Sorted'
<1>1. SUFFICES ASSUME NEW q \in IPs, NEW i \in 1..Len(admits'[q]),
                      NEW j \in 1..Len(admits'[q]), i <= j
               PROVE  admits'[q][i] <= admits'[q][j]
  BY DEF Sorted
<1>2. \A x, y \in 1..Len(admits[q]) : x <= y => admits[q][x] <= admits[q][y]
  BY DEF LimiterInv, Sorted
<1>3. now \in Nat /\ now \in 0..now /\ admits[q] \in Seq(0..now)
  BY AdmitsAfter, LimiterAssumption DEF LimiterInv, TypeOK
<1>4. CASE admits'[q] = admits[q]
  BY <1>1, <1>2, <1>4
<1>5. CASE admits'[q] = Append(admits[q], now)
  <2> DEFINE a == admits[q]
             b == admits'[q]
  <2>1. /\ Len(a) \in Nat /\ Len(b) = Len(a) + 1
        /\ \A x \in 1..Len(a) : b[x] = a[x] /\ a[x] \in 0..now
        /\ b[Len(a) + 1] = now
    BY <1>3, <1>5, AppendProperties, LenProperties
  <2> HIDE DEF a, b
  <2>2. i \in 1..Len(b) /\ j \in 1..Len(b)
    BY <1>1 DEF b
  <2>3. CASE j = Len(a) + 1
    <3>1. i \in 1..Len(a) \/ i = Len(a) + 1
      BY <2>1, <2>2
    <3>2. b[i] <= b[j]
      BY <1>3, <2>1, <2>3, <3>1
    <3>3. QED
      BY <3>2 DEF b
  <2>4. CASE j # Len(a) + 1
    <3>1. i \in 1..Len(a) /\ j \in 1..Len(a)
      BY <1>1, <2>1, <2>2, <2>4
    <3>2. a[i] <= a[j]
      BY <1>1, <1>2, <3>1 DEF a
    <3>3. QED
      BY <2>1, <3>1, <3>2 DEF b
  <2>5. QED
    BY <2>3, <2>4
<1>6. QED
  BY <1>4, <1>5, AdmitsAfter

LEMMA RequestSuffix == ASSUME LimiterInv, NEW ip \in IPs, Request(ip) PROVE LogIsSuffix'
<1>1. now' = now /\ now \in Nat /\ now \in 0..now
  BY RequestEntries, LimiterAssumption DEF LimiterInv, TypeOK
<1>2. SUFFICES ASSUME NEW q \in IPs, NEW w \in Windows
               PROVE  SuffixOf(Entries(q, w)', admits'[q], now - Width[w])
  BY <1>1 DEF LogIsSuffix
<1>3. now - Width[w] \in Int
  BY <1>1, LimiterAssumption
<1>4. CASE q = ip /\ reply'.verdict = "admitted"
  <2>1. /\ Entries(q, w)' = Append(Recent(Pruned, ip, w), now)
        /\ admits'[q] = Append(admits[q], now)
        /\ admits[q] \in Seq(0..now)
    BY <1>4, RequestEntries, AdmitsAfter
  <2>2. /\ Recent(Pruned, ip, w) \in Seq(0..now)
        /\ SuffixOf(Recent(Pruned, ip, w), admits[q], now - Width[w])
    BY <1>4, RecentShape
  <2>3. QED
    BY <1>1, <1>3, <2>1, <2>2, AppendSuffix
<1>5. CASE q = ip /\ reply'.verdict # "admitted"
  <2>1. Entries(q, w)' = Recent(Pruned, ip, w) /\ admits'[q] = admits[q]
    BY <1>5, RequestEntries, AdmitsAfter
  <2>2. QED
    BY <1>5, <2>1, RecentShape
<1>6. CASE q # ip
  <2>1. Entries(q, w)' = KeptLog(q, w) /\ admits'[q] = admits[q]
    BY <1>6, RequestEntries, AdmitsAfter
  <2>2. QED
    BY <2>1, KeptShape
<1>7. QED
  BY <1>4, <1>5, <1>6

\* The clock only moves the cutoffs.
LEMMA TickInv == ASSUME LimiterInv, Tick PROVE LimiterInv'
<1>1. now \in Nat /\ now' = now + 1 /\ now' \in 0..MaxTime /\ now' \in Nat
  BY LimiterAssumption DEF Tick, LimiterInv, TypeOK
<1>2. UNCHANGED <<log, lastPrune, admits>>
  BY DEF Tick
<1>3. \A s : s \in Seq(0..now) => s \in Seq(0..now')
  <2>1. 0..now \subseteq 0..now'
    BY <1>1
  <2>2. QED
    BY <2>1, SeqMonotonic
<1>4. TypeOK'
  <2>1. admits \in [IPs -> Seq(0..now)] /\ \A k \in DOMAIN log : log[k] \in Seq(0..now)
    BY DEF LimiterInv, TypeOK
  <2>2. admits \in [IPs -> Seq(0..now')] /\ \A k \in DOMAIN log : log[k] \in Seq(0..now')
    BY <1>3, <2>1
  <2>3. lastPrune \in 0..now'
    BY <1>1 DEF LimiterInv, TypeOK
  <2>4. DOMAIN log \subseteq IPs \X Windows
    BY DEF LimiterInv, TypeOK
  <2>5. QED
    BY <1>1, <1>2, <2>2, <2>3, <2>4 DEF TypeOK
<1>5. Sorted'
  BY <1>2 DEF LimiterInv, Sorted
<1>6. LogIsSuffix'
  <2>1. SUFFICES ASSUME NEW q \in IPs, NEW w \in Windows
                 PROVE  SuffixOf(Entries(q, w), admits[q], now' - Width[w])
    BY <1>2 DEF LogIsSuffix, Entries
  <2>2. SuffixOf(Entries(q, w), admits[q], now - Width[w])
    BY DEF LimiterInv, LogIsSuffix
  <2>3. /\ Width[w] \in Nat /\ admits[q] \in Seq(0..now)
        /\ Entries(q, w) \in Seq(0..now)
    BY LimiterAssumption, EmptySeq DEF LimiterInv, TypeOK, Entries
  <2>4. /\ Len(admits[q]) \in Nat /\ Len(Entries(q, w)) \in Nat
        /\ \A i \in 1..Len(admits[q]) : admits[q][i] \in 0..now
    BY <2>3, LenProperties
  <2>5. \A i \in 1..(Len(admits[q]) - Len(Entries(q, w))) :
           admits[q][i] \in Int /\ admits[q][i] < now - Width[w]
    BY <2>2, <2>4 DEF SuffixOf
  <2>6. now' - Width[w] > now - Width[w]
    BY <1>1, <2>3
  <2>7. \A i \in 1..(Len(admits[q]) - Len(Entries(q, w))) : admits[q][i] < now' - Width[w]
    BY <1>1, <2>3, <2>5, <2>6, SMTT(30)
  <2>8. QED
    BY <2>2, <2>7 DEF SuffixOf
<1>7. QED
  BY <1>4, <1>5, <1>6 DEF LimiterInv

LEMMA InvStep == LimiterInv /\ [Next]_vars => LimiterInv'
<1> SUFFICES ASSUME LimiterInv, [Next]_vars PROVE LimiterInv'
  OBVIOUS
<1>1. ASSUME NEW ip \in IPs, Request(ip) PROVE LimiterInv'
  BY <1>1, RequestType, RequestSorted, RequestSuffix DEF LimiterInv
<1>2. CASE Tick
  BY <1>2, TickInv
<1>3. CASE UNCHANGED vars
  BY <1>3 DEF vars, LimiterInv, TypeOK, Sorted, LogIsSuffix, Entries
<1>4. QED
  BY <1>1, <1>2, <1>3 DEF Next

\* Type correctness of the limiter's state.
THEOREM TypeCorrect == Spec => []TypeOK
<1>1. LimiterInv => TypeOK
  BY DEF LimiterInv
<1>2. QED
  BY Initially, InvStep, <1>1, PTL DEF Spec

-----------------------------------------------------------------------------
LEMMA WindowStep == ASSUME LimiterInv, WindowBound, NEW ip \in IPs, Request(ip) PROVE WindowBound'
<1>1. SUFFICES ASSUME NEW q \in IPs, NEW w \in Windows,
                      NEW i \in 1..(Len(admits'[q]) - Limit[w])
               PROVE  admits'[q][i + Limit[w]] > admits'[q][i] + Width[w]
  BY DEF WindowBound
<1> DEFINE a == admits[q]
           b == admits'[q]
           r == Recent(Pruned, ip, w)
<1>2. \A x \in 1..(Len(a) - Limit[w]) : a[x + Limit[w]] > a[x] + Width[w]
  BY DEF WindowBound
<1>3. now \in Nat /\ now \in 0..now /\ Limit[w] \in Nat /\ Width[w] \in Nat
  BY LimiterAssumption DEF LimiterInv, TypeOK
<1>4. CASE b = a
  BY <1>1, <1>2, <1>4
<1>5. CASE b # a
  <2>1. /\ q = ip /\ reply'.verdict = "admitted"
        /\ b = Append(a, now) /\ a \in Seq(0..now)
    BY <1>5, AdmitsAfter
  <2>2. /\ Len(a) \in Nat /\ Len(b) = Len(a) + 1
        /\ \A x \in 1..Len(a) : b[x] = a[x] /\ a[x] \in 0..now
        /\ b[Len(a) + 1] = now
    <3>1. Len(a) \in Nat /\ \A x \in 1..Len(a) : a[x] \in 0..now
      BY <2>1, LenProperties
    <3>2. /\ Len(Append(a, now)) = Len(a) + 1
          /\ \A x \in 1..Len(a) : Append(a, now)[x] = a[x]
          /\ Append(a, now)[Len(a) + 1] = now
      BY <1>3, <2>1, AppendProperties
    <3> HIDE DEF a, b
    <3>3. QED
      BY <2>1, <3>1, <3>2
  <2>3. /\ r \in Seq(0..now) /\ Len(r) <= Len(a)
        /\ \A x \in 1..(Len(a) - Len(r)) : a[x] < now - Width[w]
    BY <2>1, RecentShape DEF SuffixOf
  <2>4. Len(r) \in Nat /\ ~(Len(r) >= Limit[w])
    BY <2>1, <2>3, RequestEntries, LenProperties
  <2>5. i \in 1..(Len(b) - Limit[w])
    BY <1>1
  <2> HIDE DEF a, b, r
  <2>6. CASE i <= Len(a) - Limit[w]
    <3>1. i \in 1..(Len(a) - Limit[w]) /\ i \in 1..Len(a) /\ i + Limit[w] \in 1..Len(a)
      BY <1>3, <2>2, <2>4, <2>5, <2>6
    <3>2. b[i] = a[i] /\ b[i + Limit[w]] = a[i + Limit[w]]
      BY <2>2, <3>1
    <3>3. b[i + Limit[w]] > b[i] + Width[w]
      BY <1>2, <3>1, <3>2
    <3>4. QED
      BY <3>3 DEF b
  <2>7. CASE ~(i <= Len(a) - Limit[w])
    <3>1. /\ i + Limit[w] = Len(a) + 1 /\ i \in 1..Len(a)
          /\ i \in 1..(Len(a) - Len(r))
      <4>1. i \in Int /\ i >= 1 /\ i <= Len(a) + 1 - Limit[w] /\ i > Len(a) - Limit[w]
        BY <1>3, <2>2, <2>5, <2>7
      <4>2. Len(r) + 1 <= Limit[w]
        BY <1>3, <2>4
      <4>3. i + Limit[w] = Len(a) + 1
        BY <1>3, <2>2, <4>1
      <4>4. i <= Len(a) - Len(r) /\ i <= Len(a)
        BY <1>3, <2>2, <2>4, <4>1, <4>2
      <4>5. QED
        BY <2>2, <2>4, <4>1, <4>3, <4>4
    <3>2. b[i] = a[i] /\ a[i] \in 0..now /\ a[i] < now - Width[w] /\ b[i + Limit[w]] = now
      BY <2>2, <2>3, <3>1
    <3>3. b[i + Limit[w]] > b[i] + Width[w]
      BY <1>3, <3>2
    <3>4. QED
      BY <3>3 DEF b
  <2>8. QED
    BY <2>6, <2>7
<1>6. QED
  BY <1>4, <1>5

\* README.md:279 for every limit and window, and every schedule of requests,
\* trims and prunes: no client ever gets more than Limit[w] requests through in
\* any span of Width[w].
THEOREM LimitHolds == Spec => []WindowBound
<1>1. Init => WindowBound
  <2>1. SUFFICES ASSUME Init, NEW ip \in IPs, NEW w \in Windows,
                        NEW i \in 1..(Len(admits[ip]) - Limit[w])
                 PROVE  FALSE
    BY DEF WindowBound
  <2>2. Len(admits[ip]) = 0 /\ Limit[w] \in Nat
    BY <2>1, EmptySeq, LimiterAssumption DEF Init
  <2>3. QED
    BY <2>1, <2>2
<1>2. LimiterInv /\ WindowBound /\ [Next]_vars => WindowBound'
  <2>1. SUFFICES ASSUME LimiterInv, WindowBound, [Next]_vars PROVE WindowBound'
    OBVIOUS
  <2>2. ASSUME NEW ip \in IPs, Request(ip) PROVE WindowBound'
    BY <2>1, <2>2, WindowStep
  <2>3. CASE Tick
    BY <2>1, <2>3 DEF Tick, WindowBound
  <2>4. CASE UNCHANGED vars
    BY <2>1, <2>4 DEF vars, WindowBound
  <2>5. QED
    BY <2>1, <2>2, <2>3, <2>4 DEF Next
<1>3. QED
  BY <1>1, <1>2, Initially, InvStep, PTL DEF Spec

-----------------------------------------------------------------------------
\* What the trim left is in the window to its last entry.
LEMMA RecentInWindow ==
    ASSUME LimiterInv, NEW ip \in IPs, NEW w \in Windows,
           NEW i \in (Len(admits[ip]) - Len(Recent(Pruned, ip, w)) + 1)..Len(admits[ip])
    PROVE  i \in 1..Len(admits[ip]) /\ admits[ip][i] >= now - Width[w]
<1> DEFINE a == admits[ip]
           r == Recent(Pruned, ip, w)
           c == now - Width[w]
           f == Len(a) - Len(r) + 1
<1>1. /\ a \in Seq(0..now) /\ r \in Seq(0..now) /\ SuffixOf(r, a, c)
      /\ Len(r) > 0 => r[1] >= c
  BY RecentShape DEF LimiterInv, TypeOK
<1>2. /\ Len(a) \in Nat /\ Len(r) \in Nat /\ Len(r) <= Len(a)
      /\ \A x \in 1..Len(r) : r[x] = a[Len(a) - Len(r) + x]
      /\ \A x \in 1..Len(a) : a[x] \in 0..now
  BY <1>1, LenProperties DEF SuffixOf
<1>3. i \in f..Len(a) /\ now \in Nat /\ c \in Int
  BY LimiterAssumption DEF LimiterInv, TypeOK
<1>4. \A x, y \in 1..Len(a) : x <= y => a[x] <= a[y]
  BY DEF LimiterInv, Sorted
<1> HIDE DEF a, r, c
<1>5. i \in 1..Len(a) /\ f \in 1..Len(a) /\ f <= i /\ Len(r) > 0 /\ 1 \in 1..Len(r)
  BY <1>2, <1>3
<1>6. a[f] >= c
  BY <1>1, <1>2, <1>5
<1>7. a[f] <= a[i] /\ a[f] \in 0..now /\ a[i] \in 0..now
  BY <1>2, <1>4, <1>5
<1> HIDE DEF f
<1>8. a[i] >= c
  BY <1>3, <1>6, <1>7
<1>9. QED
  BY <1>5, <1>8 DEF a, c

\* A 429 is never spurious: whatever the history, the refused client has
\* Limit[w] admitted requests inside the window it is refused for.
THEOREM RefusalsJustified == Spec => []RefusedOnlyWhenFull
<1>1. Init => RefusedOnlyWhenFull
  BY DEF Init, RefusedOnlyWhenFull, Windows
<1>2. LimiterInv /\ RefusedOnlyWhenFull /\ [Next]_vars => RefusedOnlyWhenFull'
  <2>1. SUFFICES ASSUME LimiterInv, RefusedOnlyWhenFull, [Next]_vars PROVE RefusedOnlyWhenFull'
    OBVIOUS
  <2>2. ASSUME NEW ip \in IPs, Request(ip) PROVE RefusedOnlyWhenFull'
    <3>1. SUFFICES ASSUME reply'.verdict \in Windows
                   PROVE  /\ Len(admits[ip]) >= Limit[reply'.verdict]
                          /\ \A i \in (Len(admits[ip]) - Limit[reply'.verdict] + 1)
                                        ..Len(admits[ip]) :
                                admits[ip][i] >= now - Width[reply'.verdict]
      <4>1. reply'.ip = ip /\ now' = now
        BY <2>1, <2>2, RequestEntries
      <4>2. reply'.verdict \in Windows => admits'[ip] = admits[ip]
        BY <2>1, <2>2, AdmitsAfter DEF Windows
      <4>3. QED
        BY <4>1, <4>2 DEF RefusedOnlyWhenFull
    <3> DEFINE w == reply'.verdict
               r == Recent(Pruned, ip, w)
               a == admits[ip]
    <3>2. w \in Windows /\ Len(r) >= Limit[w]
      BY <2>1, <2>2, <3>1, RequestEntries
    <3>3. Limit[w] \in Nat
      BY <3>2, LimiterAssumption
    <3>4. a \in Seq(0..now) /\ r \in Seq(0..now) /\ Len(r) <= Len(a)
      BY <2>1, <3>2, RecentShape DEF SuffixOf, LimiterInv, TypeOK
    <3>5. Len(a) \in Nat /\ Len(r) \in Nat
      BY <3>4, LenProperties
    <3>6. \A i \in (Len(a) - Len(r) + 1)..Len(a) : a[i] >= now - Width[w]
      BY <2>1, <3>2, RecentInWindow
    <3> HIDE DEF w, r, a
    <3>7. Len(a) >= Limit[w]
      BY <3>2, <3>3, <3>4, <3>5
    <3>8. \A i \in (Len(a) - Limit[w] + 1)..Len(a) : i \in (Len(a) - Len(r) + 1)..Len(a)
      BY <3>2, <3>3, <3>4, <3>5
    <3>9. QED
      BY <3>6, <3>7, <3>8 DEF a, w
  <2>3. CASE Tick
    BY <2>3 DEF Tick, RefusedOnlyWhenFull, Windows
  <2>4. CASE UNCHANGED vars
    BY <2>1, <2>4 DEF vars, RefusedOnlyWhenFull
  <2>5. QED
    BY <2>1, <2>2, <2>3, <2>4 DEF Next
<1>3. QED
  BY <1>1, <1>2, Initially, InvStep, PTL DEF Spec

-----------------------------------------------------------------------------
LEMMA QuietStep ==
    ASSUME LimiterInv, QuietClientsForgotten, NEW ip \in IPs, Request(ip)
    PROVE  QuietClientsForgotten'
<1>1. SUFFICES ASSUME NEW k \in DOMAIN log', log'[k] # <<>>
               PROVE  log'[k][Len(log'[k])] >= lastPrune' - Width["hour"]
  BY DEF QuietClientsForgotten
<1>2. /\ now \in Nat /\ now \in 0..now /\ lastPrune \in 0..now
      /\ Width \in [Windows -> Nat]
      /\ \A w \in Windows : Width[w] <= Width["hour"]
  BY LimiterAssumption DEF LimiterInv, TypeOK, Windows
<1>3. lastPrune' = IF now - lastPrune < Cleanup THEN lastPrune ELSE now
  BY DEF Request, PrunedAt
<1>4. lastPrune' \in 0..now /\ Width["hour"] \in Nat
  BY <1>2, <1>3 DEF Windows
<1>5. PICK q \in IPs, w \in Windows : k = <<q, w>>
  BY RequestEntries
<1>6. Entries(q, w)' = log'[k]
  BY <1>5 DEF Entries
<1>7. CASE q = ip
  <2> DEFINE r == Recent(Pruned, ip, w)
             a == admits[ip]
  <2>1. r \in Seq(0..now) /\ SuffixOf(r, a, now - Width[w])
    BY RecentShape
  <2>2. log'[k] = r \/ log'[k] = Append(r, now)
    BY <1>6, <1>7, RequestEntries
  <2>3. CASE log'[k] = Append(r, now)
    <3>1. Len(log'[k]) = Len(r) + 1 /\ log'[k][Len(r) + 1] = now
      BY <1>2, <2>1, <2>3, AppendProperties
    <3>2. now >= lastPrune' - Width["hour"]
      BY <1>2, <1>4
    <3>3. QED
      BY <3>1, <3>2
  <2>4. CASE log'[k] = r
    <3>1. Len(r) \in Nat \ {0} /\ Len(a) \in Nat /\ Len(r) <= Len(a)
          /\ \A x \in 1..Len(r) : r[x] = a[Len(a) - Len(r) + x]
      BY <1>1, <2>1, <2>4, EmptySeq, LenProperties DEF SuffixOf, LimiterInv, TypeOK
    <3>2. Len(a) \in (Len(a) - Len(r) + 1)..Len(a)
      BY <3>1
    <3>3. a[Len(a)] >= now - Width[w] /\ Len(a) \in 1..Len(a)
      BY <3>2, RecentInWindow
    <3>4. a[Len(a)] \in 0..now
      BY <3>3, LenProperties DEF LimiterInv, TypeOK
    <3>5. r[Len(r)] = a[Len(a)]
      <4>1. Len(r) \in 1..Len(r) /\ Len(a) - Len(r) + Len(r) = Len(a)
        BY <3>1
      <4>2. QED
        BY <3>1, <4>1
    <3> HIDE DEF r, a
    <3>6. Width[w] \in Nat /\ Width[w] <= Width["hour"]
      BY <1>2
    <3>7. a[Len(a)] >= lastPrune' - Width["hour"]
      BY <1>2, <1>4, <3>3, <3>4, <3>6
    <3>8. QED
      BY <2>4, <3>5, <3>7
  <2>5. QED
    BY <2>2, <2>3, <2>4
<1>8. CASE q # ip
  <2>1. log'[k] = KeptLog(q, w)
    BY <1>6, <1>8, RequestEntries
  <2>2. k \in DOMAIN Pruned /\ log'[k] = Pruned[k]
    BY <1>1, <1>5, <2>1 DEF KeptLog
  <2>3. CASE now - lastPrune < Cleanup
    <3>1. k \in DOMAIN log /\ log'[k] = log[k] /\ lastPrune' = lastPrune
      BY <1>3, <2>2, <2>3 DEF Pruned
    <3>2. QED
      BY <1>1, <3>1 DEF QuietClientsForgotten
  <2>4. CASE ~(now - lastPrune < Cleanup)
    <3>1. log'[k] = log[k] /\ log[k][Len(log[k])] >= now - Width["hour"]
          /\ lastPrune' = now
      BY <1>3, <2>2, <2>4 DEF Pruned
    <3>2. QED
      BY <3>1
  <2>5. QED
    BY <2>3, <2>4
<1>9. QED
  BY <1>7, <1>8

\* The limiter's state stays the size of the recent clients: nothing older than
\* an hour survives a prune, and nothing is brought back.
THEOREM StateBounded == Spec => []QuietClientsForgotten
<1>1. Init => QuietClientsForgotten
  BY DEF Init, QuietClientsForgotten
<1>2. LimiterInv /\ QuietClientsForgotten /\ [Next]_vars => QuietClientsForgotten'
  <2>1. SUFFICES ASSUME LimiterInv, QuietClientsForgotten, [Next]_vars
                 PROVE  QuietClientsForgotten'
    OBVIOUS
  <2>2. ASSUME NEW ip \in IPs, Request(ip) PROVE QuietClientsForgotten'
    BY <2>1, <2>2, QuietStep
  <2>3. CASE Tick
    BY <2>1, <2>3 DEF Tick, QuietClientsForgotten
  <2>4. CASE UNCHANGED vars
    BY <2>1, <2>4 DEF vars, QuietClientsForgotten
  <2>5. QED
    BY <2>1, <2>2, <2>3, <2>4 DEF Next
<1>3. QED
  BY <1>1, <1>2, Initially, InvStep, PTL DEF Spec

-----------------------------------------------------------------------------
\* The task store.

\* What keeps the three together: the store is within its bound, so a submission
\* evicts one record at most, the oldest; a recorded task has been created; and a
\* cancellation under way is of a task that has neither a record nor a handle, so
\* it can be delivered without leaving one of them behind.
QueueInv ==
    /\ QueueTypeOK /\ RecordTellsTruth /\ HandlesAreLive /\ DeleteStopsWork
    /\ Len(tasks) <= MaxTasks
    /\ \A id \in Recorded : aio[id] # "new"
    /\ \A id \in cancelled :
         aio[id] \in {"scheduled", "running"} /\ id \notin Recorded /\ id \notin handles

-----------------------------------------------------------------------------
\* What removing a place leaves of a sequence without repetitions.
LEMMA RemoveAtShape ==
    ASSUME NEW S, NEW s \in Seq(S), IsInjective(s), NEW i \in 1..Len(s)
    PROVE  /\ RemoveAt(s, i) \in Seq(S)
           /\ Len(RemoveAt(s, i)) = Len(s) - 1
           /\ \A j \in 1..(Len(s) - 1) :
                RemoveAt(s, i)[j] = IF j < i THEN s[j] ELSE s[j + 1]
           /\ IsInjective(RemoveAt(s, i))
           /\ ToSet(RemoveAt(s, i)) = ToSet(s) \ {s[i]}
<1> DEFINE before == SubSeq(s, 1, i - 1)
           after == SubSeq(s, i + 1, Len(s))
           r == RemoveAt(s, i)
           n == Len(s)
<1>1. n \in Nat /\ i \in 1..n /\ DOMAIN s = 1..n /\ \A j \in 1..n : s[j] \in S
  BY LenProperties, ElementOfSeq
<1>2. /\ before \in Seq(S) /\ Len(before) = i - 1
      /\ \A j \in 1..(i - 1) : before[j] = s[j]
  <2>1. \A j \in 1..(i - 1) : s[j] \in S
    BY <1>1
  <2>2. /\ before \in Seq(S) /\ Len(before) = IF 1 <= i - 1 THEN i - 1 - 1 + 1 ELSE 0
        /\ \A j \in 1..(i - 1 - 1 + 1) : before[j] = s[1 + j - 1]
    BY <1>1, <2>1, SubSeqProperties
  <2>3. QED
    BY <1>1, <2>2
<1>3. /\ after \in Seq(S) /\ Len(after) = n - i
      /\ \A j \in 1..(n - i) : after[j] = s[j + i]
  <2>1. \A j \in (i + 1)..n : s[j] \in S
    BY <1>1
  <2>2. /\ after \in Seq(S) /\ Len(after) = IF i + 1 <= n THEN n - (i + 1) + 1 ELSE 0
        /\ \A j \in 1..(n - (i + 1) + 1) : after[j] = s[i + 1 + j - 1]
    BY <1>1, <2>1, SubSeqProperties
  <2> HIDE DEF after, n
  <2>3. n - (i + 1) + 1 = n - i /\ (~(i + 1 <= n) => n - i = 0)
    BY <1>1
  <2>4. ASSUME NEW j \in 1..(n - i) PROVE after[j] = s[j + i]
    <3>1. i + 1 + j - 1 = j + i
      BY <1>1
    <3>2. QED
      BY <2>2, <2>3, <3>1
  <2>5. QED
    BY <2>2, <2>3, <2>4
<1>4. /\ r \in Seq(S) /\ Len(r) = n - 1
      /\ \A j \in 1..(n - 1) : r[j] = IF j <= i - 1 THEN before[j] ELSE after[j - (i - 1)]
  <2>1. r = before \o after
    BY DEF RemoveAt
  <2> HIDE DEF before, after, r, n
  <2>2. /\ r \in Seq(S) /\ Len(r) = Len(before) + Len(after)
        /\ \A j \in 1..(Len(before) + Len(after)) :
             r[j] = IF j <= Len(before) THEN before[j] ELSE after[j - Len(before)]
    BY <1>2, <1>3, <2>1, ConcatProperties
  <2>3. Len(before) + Len(after) = n - 1
    BY <1>1, <1>2, <1>3
  <2>4. QED
    BY <1>2, <2>2, <2>3
<1> HIDE DEF before, after, r, n
<1>5. ASSUME NEW j \in 1..(n - 1) PROVE r[j] = IF j < i THEN s[j] ELSE s[j + 1]
  <2>1. CASE j < i
    BY <1>1, <1>2, <1>4, <2>1
  <2>2. CASE ~(j < i)
    <3>1. j - (i - 1) \in 1..(n - i) /\ j - (i - 1) + i = j + 1 /\ ~(j <= i - 1)
      BY <1>1, <2>2
    <3>2. QED
      BY <1>3, <1>4, <2>2, <3>1
  <2>3. QED
    BY <2>1, <2>2
<1>6. DOMAIN r = 1..(n - 1)
  BY <1>4, LenProperties
<1>7. IsInjective(r)
  <2>1. SUFFICES ASSUME NEW a \in 1..(n - 1), NEW b \in 1..(n - 1), r[a] = r[b]
                 PROVE  a = b
    BY <1>6 DEF IsInjective
  <2> DEFINE at(j) == IF j < i THEN j ELSE j + 1
  <2>2. at(a) \in 1..n /\ at(b) \in 1..n /\ s[at(a)] = s[at(b)]
    BY <1>1, <1>5, <2>1
  <2>3. at(a) = at(b)
    BY <1>1, <2>2 DEF IsInjective
  <2>4. QED
    BY <1>1, <2>3
<1>8. ToSet(r) = ToSet(s) \ {s[i]}
  <2>1. ASSUME NEW x \in ToSet(r) PROVE x \in ToSet(s) \ {s[i]}
    <3>1. PICK j \in 1..(n - 1) : x = r[j]
      BY <1>6 DEF ToSet
    <3> DEFINE k == IF j < i THEN j ELSE j + 1
    <3>2. k \in 1..n /\ k # i /\ x = s[k]
      BY <1>1, <1>5, <3>1
    <3>3. x # s[i]
      BY <1>1, <3>2 DEF IsInjective
    <3>4. QED
      BY <1>1, <3>2, <3>3 DEF ToSet
  <2>2. ASSUME NEW x \in ToSet(s) \ {s[i]} PROVE x \in ToSet(r)
    <3>1. PICK k \in 1..n : x = s[k] /\ k # i
      BY <1>1 DEF ToSet
    <3> DEFINE j == IF k < i THEN k ELSE k - 1
    <3>2. j \in 1..(n - 1) /\ (IF j < i THEN j ELSE j + 1) = k
      BY <1>1, <3>1
    <3>3. x = r[j]
      BY <1>5, <3>1, <3>2
    <3>4. QED
      BY <1>6, <3>2, <3>3 DEF ToSet
  <2>3. QED
    BY <2>1, <2>2
<1>9. QED
  BY <1>4, <1>5, <1>7, <1>8 DEF r, n

\* A submission to a store within its bound: nothing or the oldest record goes.
LEMMA SubmitShape ==
    ASSUME QueueTypeOK, Len(tasks) <= MaxTasks, NEW id \in Ids, id \notin Recorded
    PROVE  LET grown == Append(tasks, id)
           IN  \E k \in {0, 1} :
                 /\ k = 1 => Len(tasks) = MaxTasks
                 /\ k <= Len(tasks)
                 /\ Kept(grown) \in Seq(Ids)
                 /\ Len(Kept(grown)) = Len(tasks) + 1 - k /\ Len(Kept(grown)) <= MaxTasks
                 /\ \A i \in 1..(Len(tasks) + 1 - k) :
                      Kept(grown)[i] = IF i + k <= Len(tasks) THEN tasks[i + k] ELSE id
                 /\ Evicted(grown) = {tasks[i] : i \in 1..k}
                 /\ IsInjective(Kept(grown))
                 /\ ToSet(Kept(grown)) = (Recorded \cup {id}) \ Evicted(grown)
                 /\ id \notin Evicted(grown)
<1> DEFINE g == Append(tasks, id)
           k == Overflow(g)
           r == Kept(g)
           n == Len(tasks)
<1>1. /\ n \in Nat /\ n <= MaxTasks /\ MaxTasks \in Nat \ {0}
      /\ DOMAIN tasks = 1..n /\ \A i \in 1..n : tasks[i] \in Ids
      /\ \A i, j \in 1..n : tasks[i] = tasks[j] => i = j
      /\ \A i \in 1..n : tasks[i] # id
  BY LenProperties, ElementOfSeq, QueueAssumption DEF QueueTypeOK, IsInjective, Recorded, ToSet
<1>2. /\ g \in Seq(Ids) /\ Len(g) = n + 1
      /\ \A i \in 1..(n + 1) : g[i] = IF i <= n THEN tasks[i] ELSE id
  BY <1>1 DEF QueueTypeOK
<1> HIDE DEF g, n
<1>3. /\ k \in {0, 1} /\ k <= n /\ (k = 1 => n = MaxTasks) /\ n + 1 - k <= MaxTasks
  BY <1>1, <1>2 DEF Overflow
<1> HIDE DEF k, r
<1>4. /\ r \in Seq(Ids) /\ Len(r) = n + 1 - k
      /\ \A i \in 1..(n + 1 - k) : r[i] = g[i + k]
  <2>1. r = SubSeq(g, k + 1, n + 1)
    BY <1>2 DEF r, k, Kept
  <2>2. \A i \in (k + 1)..(n + 1) : g[i] \in Ids
    BY <1>1, <1>2, <1>3
  <2>3. /\ r \in Seq(Ids) /\ Len(r) = IF k + 1 <= n + 1 THEN (n + 1) - (k + 1) + 1 ELSE 0
        /\ \A i \in 1..((n + 1) - (k + 1) + 1) : r[i] = g[k + 1 + i - 1]
    BY <1>1, <1>3, <2>1, <2>2, SubSeqProperties
  <2>4. (n + 1) - (k + 1) + 1 = n + 1 - k /\ k + 1 <= n + 1
    BY <1>1, <1>3
  <2>5. \A i \in 1..(n + 1 - k) : k + 1 + i - 1 = i + k
    BY <1>1, <1>3
  <2>6. QED
    BY <2>3, <2>4, <2>5
<1>5. \A i \in 1..(n + 1 - k) : r[i] = IF i + k <= n THEN tasks[i + k] ELSE id
  BY <1>1, <1>2, <1>3, <1>4
<1>6. Evicted(g) = {tasks[i] : i \in 1..k}
  <2>1. \A i \in 1..k : g[i] = tasks[i]
    BY <1>1, <1>2, <1>3
  <2>2. QED
    BY <2>1 DEF Evicted, k
<1>7. DOMAIN r = 1..(n + 1 - k)
  BY <1>4, LenProperties
<1>8. IsInjective(r)
  BY <1>1, <1>3, <1>5, <1>7 DEF IsInjective
<1>9. id \notin Evicted(g)
  BY <1>1, <1>3, <1>6
<1>10. ToSet(r) = (Recorded \cup {id}) \ Evicted(g)
  <2>1. ASSUME NEW x \in ToSet(r) PROVE x \in (Recorded \cup {id}) \ Evicted(g)
    <3>1. PICK i \in 1..(n + 1 - k) : x = r[i]
      BY <1>7 DEF ToSet
    <3>2. CASE i + k <= n
      <4>1. x = tasks[i + k] /\ i + k \in 1..n
        BY <1>1, <1>3, <1>5, <3>1, <3>2
      <4>2. \A j \in 1..k : tasks[j] # x
        BY <1>1, <1>3, <3>1, <4>1
      <4>3. QED
        BY <1>1, <1>6, <4>1, <4>2 DEF Recorded, ToSet
    <3>3. CASE ~(i + k <= n)
      BY <1>5, <1>9, <3>1, <3>3
    <3>4. QED
      BY <3>2, <3>3
  <2>2. ASSUME NEW x \in (Recorded \cup {id}) \ Evicted(g) PROVE x \in ToSet(r)
    <3>1. CASE x = id
      <4>1. n + 1 - k \in 1..(n + 1 - k) /\ ~((n + 1 - k) + k <= n)
        BY <1>1, <1>3
      <4>2. QED
        BY <1>5, <1>7, <3>1, <4>1 DEF ToSet
    <3>2. CASE x # id
      <4>1. PICK j \in 1..n : x = tasks[j]
        BY <1>1, <3>2 DEF Recorded, ToSet
      <4>2. j \notin 1..k
        BY <1>6, <4>1
      <4>3. j - k \in 1..(n + 1 - k) /\ (j - k) + k = j /\ j <= n
        BY <1>1, <1>3, <4>2
      <4>4. x = r[j - k]
        BY <1>5, <4>1, <4>3
      <4>5. QED
        BY <1>7, <4>3, <4>4 DEF ToSet
    <3>3. QED
      BY <3>1, <3>2
  <2>3. QED
    BY <2>1, <2>2
<1>11. QED
  BY <1>3, <1>4, <1>5, <1>6, <1>8, <1>9, <1>10 DEF g, r, n

-----------------------------------------------------------------------------
\* An empty store of tasks that were never created.
LEMMA QueueInit == InitQueue => QueueInv
<1> SUFFICES ASSUME InitQueue PROVE QueueInv
  OBVIOUS
<1>1. tasks \in Seq(Ids) /\ Len(tasks) = 0 /\ Recorded = {} /\ IsInjective(tasks)
  BY DEF InitQueue, Recorded, ToSet, IsInjective
<1>2. QueueTypeOK
  BY <1>1 DEF InitQueue, QueueTypeOK
<1>3. QED
  BY <1>1, <1>2, QueueAssumption
     DEF InitQueue, QueueInv, RecordTellsTruth, HandlesAreLive, DeleteStopsWork

\* Steps that leave the records alone: the tasks that are recorded stay the same.
LEMMA SubmitStep == ASSUME QueueInv, NEW id \in Ids, Submit(id) PROVE QueueInv'
<1> DEFINE grown == Append(tasks, id)
<1>1. aio[id] = "new" /\ id \notin Recorded /\ QueueTypeOK /\ Len(tasks) <= MaxTasks
  BY DEF Submit, QueueInv
<1>2. /\ Kept(grown) \in Seq(Ids) /\ Len(Kept(grown)) <= MaxTasks
      /\ IsInjective(Kept(grown))
      /\ ToSet(Kept(grown)) = (Recorded \cup {id}) \ Evicted(grown)
      /\ id \notin Evicted(grown)
  BY <1>1, SubmitShape
<1> HIDE DEF grown
<1>3. /\ tasks' = Kept(grown) /\ Recorded' = (Recorded \cup {id}) \ Evicted(grown)
  BY <1>2 DEF Submit, Recorded, grown
<1>4. /\ status' = [i \in Ids |-> IF i \in Evicted(grown) THEN "none"
                                 ELSE IF i = id THEN "queued" ELSE status[i]]
      /\ aio' = [aio EXCEPT ![id] = "scheduled"]
      /\ handles' = handles \cup {id}
      /\ cancelled' = cancelled /\ absorbed' = absorbed
  BY DEF Submit, grown
<1>5. QueueTypeOK'
  BY <1>1, <1>2, <1>3, <1>4 DEF QueueTypeOK
<1>6. /\ aio'[id] = "scheduled" /\ status'[id] = "queued"
      /\ id \in Recorded' /\ id \in handles' /\ id \notin cancelled
  BY <1>1, <1>2, <1>3, <1>4 DEF QueueTypeOK, QueueInv
<1>7. \A i \in Ids \ {id} :
        /\ aio'[i] = aio[i]
        /\ i \in Recorded' => i \in Recorded /\ status'[i] = status[i]
        /\ i \in handles' <=> i \in handles
        /\ i \in Recorded /\ i \notin Recorded' => aio[i] # "new"
  BY <1>1, <1>3, <1>4 DEF QueueTypeOK, QueueInv
<1>8. Recorded \subseteq Ids /\ Recorded' \subseteq Ids
  BY <1>1, <1>5 DEF QueueTypeOK, Recorded, ToSet
<1>9. RecordTellsTruth'
  BY <1>4, <1>6, <1>7, <1>8 DEF RecordTellsTruth, QueueInv, Shows
<1>10. HandlesAreLive'
  BY <1>4, <1>6, <1>7, <1>8 DEF HandlesAreLive, QueueInv, QueueTypeOK
<1>11. DeleteStopsWork'
  BY <1>4, <1>6, <1>7, <1>8 DEF DeleteStopsWork, HandlesAreLive, QueueInv
<1>12. \A i \in cancelled' :
         aio'[i] \in {"scheduled", "running"} /\ i \notin Recorded' /\ i \notin handles'
  BY <1>1, <1>4, <1>6, <1>7 DEF QueueInv, QueueTypeOK
<1>13. \A i \in Recorded' : aio'[i] # "new"
  BY <1>6, <1>7, <1>8 DEF QueueInv
<1>14. QED
  BY <1>2, <1>3, <1>5, <1>9, <1>10, <1>11, <1>12, <1>13 DEF QueueInv

LEMMA DeleteStep == ASSUME QueueInv, NEW id \in Ids, Delete(id) PROVE QueueInv'
<1>1. QueueTypeOK /\ id \in Recorded
  BY DEF QueueInv, Delete
<1>2. PICK i \in DOMAIN tasks : tasks[i] = id /\ tasks' = RemoveAt(tasks, i)
  BY DEF Delete, Forget
<1>3. i \in 1..Len(tasks) /\ tasks \in Seq(Ids) /\ IsInjective(tasks) /\ Len(tasks) \in Nat
  BY <1>1, <1>2, LenProperties DEF QueueTypeOK
<1>4. /\ tasks' \in Seq(Ids) /\ IsInjective(tasks') /\ Len(tasks') = Len(tasks) - 1
      /\ Recorded' = Recorded \ {id}
  BY <1>2, <1>3, RemoveAtShape DEF Recorded
<1>5. /\ status' = [status EXCEPT ![id] = "none"] /\ handles' = handles \ {id}
      /\ aio' = aio /\ absorbed' = absorbed
      /\ cancelled' = IF id \in handles /\ aio[id] # "done" THEN cancelled \cup {id}
                      ELSE cancelled
  BY DEF Delete, Forget
<1>6. QueueTypeOK'
  BY <1>1, <1>4, <1>5 DEF QueueTypeOK
<1>7. Len(tasks') <= MaxTasks
  BY <1>3, <1>4, QueueAssumption DEF QueueInv
<1>8. Recorded \subseteq Ids
  BY <1>1 DEF QueueTypeOK, Recorded, ToSet
<1>9. RecordTellsTruth'
  BY <1>1, <1>4, <1>5, <1>8 DEF RecordTellsTruth, QueueInv, QueueTypeOK
<1>10. HandlesAreLive'
  BY <1>1, <1>4, <1>5, <1>8 DEF HandlesAreLive, QueueInv, QueueTypeOK
<1>11. DeleteStopsWork'
  BY <1>1, <1>4, <1>5, <1>8 DEF DeleteStopsWork, HandlesAreLive, QueueInv, QueueTypeOK
<1>12. \A j \in cancelled' :
         aio'[j] \in {"scheduled", "running"} /\ j \notin Recorded' /\ j \notin handles'
  BY <1>1, <1>4, <1>5 DEF HandlesAreLive, QueueInv, QueueTypeOK
<1>13. QED
  BY <1>4, <1>5, <1>6, <1>7, <1>9, <1>10, <1>11, <1>12 DEF QueueInv

\* Only a submission records anything.
LEMMA NothingNew ==
    ASSUME QueueInv, NEW id \in Ids, Delete(id) \/ Run(id) \/ CancelLost(id)
    PROVE  Recorded' \subseteq Recorded
<1>1. CASE Delete(id)
  <2>1. PICK i \in DOMAIN tasks : tasks[i] = id /\ tasks' = RemoveAt(tasks, i)
    BY <1>1 DEF Delete, Forget
  <2>2. i \in 1..Len(tasks) /\ tasks \in Seq(Ids) /\ IsInjective(tasks)
    BY <2>1, LenProperties DEF QueueInv, QueueTypeOK
  <2>3. QED
    BY <2>1, <2>2, RemoveAtShape DEF Recorded
<1>2. CASE Run(id) \/ CancelLost(id)
  BY <1>2
  DEF Run, Start, Finish, CancelUnstarted, CancelRunning, CancelLost, Ended, Recorded
<1>3. QED
  BY <1>1, <1>2

LEMMA RunStep ==
    ASSUME QueueInv, NEW id \in Ids, Run(id) \/ CancelLost(id)
    PROVE  QueueInv'
<1> USE DEF QueueInv, QueueTypeOK, RecordTellsTruth, HandlesAreLive, DeleteStopsWork, Shows
<1>0. UNCHANGED tasks /\ Recorded' = Recorded /\ Recorded \subseteq Ids
  BY DEF Run, Start, Finish, CancelUnstarted, CancelRunning, CancelLost, Ended, Recorded, ToSet
<1>1. CASE Start(id)
  BY <1>0, <1>1 DEF Start, Ended
<1>2. CASE Finish(id)
  BY <1>0, <1>2 DEF Finish, Ended
<1>3. CASE CancelUnstarted(id)
  BY <1>0, <1>3 DEF CancelUnstarted
<1>4. CASE CancelRunning(id)
  BY <1>0, <1>4 DEF CancelRunning
<1>5. CASE CancelLost(id)
  BY <1>0, <1>5 DEF CancelLost
<1>6. QED
  BY <1>1, <1>2, <1>3, <1>4, <1>5 DEF Run

LEMMA QueueStep == QueueInv /\ [NextQueue]_queueVars => QueueInv'
<1> SUFFICES ASSUME QueueInv, [NextQueue]_queueVars PROVE QueueInv'
  OBVIOUS
<1>1. CASE UNCHANGED queueVars
  BY <1>1 DEF queueVars, QueueInv, QueueTypeOK, RecordTellsTruth, HandlesAreLive, DeleteStopsWork, Recorded
<1>2. CASE NextQueue
  BY <1>2, SubmitStep, DeleteStep, RunStep DEF NextQueue, Run
<1>3. QED
  BY <1>1, <1>2

-----------------------------------------------------------------------------
THEOREM QueueInvariant == QueueSpec => []QueueInv
  BY QueueInit, QueueStep, PTL DEF QueueSpec

\* Every variable keeps its type, and what has a status has a record.
THEOREM QueueTypeCorrect == QueueSpec => []QueueTypeOK
<1>1. QueueInv => QueueTypeOK
  BY DEF QueueInv
<1>2. QED
  BY <1>1, QueueInvariant, PTL

\* GET tells what the asyncio task is doing, whatever raced.
THEOREM RecordsTellTruth == QueueSpec => []RecordTellsTruth
<1>1. QueueInv => RecordTellsTruth
  BY DEF QueueInv
<1>2. QED
  BY <1>1, QueueInvariant, PTL

\* DELETE reaches what runs, and no handle outlives its task.
THEOREM HandlesLive == QueueSpec => []HandlesAreLive
<1>1. QueueInv => HandlesAreLive
  BY DEF QueueInv
<1>2. QED
  BY <1>1, QueueInvariant, PTL

\* Nothing runs without a record but what was evicted, is being cancelled or
\* absorbed its cancellation.
THEOREM DeletionsStopWork == QueueSpec => []DeleteStopsWork
<1>1. QueueInv => DeleteStopsWork
  BY DEF QueueInv
<1>2. QED
  BY <1>1, QueueInvariant, PTL

-----------------------------------------------------------------------------
\* A record's status goes forward, and a record that is gone does not return.
THEOREM StatusGoesForward == QueueSpec => Lifecycle
<1> DEFINE Forward(id) ==
             /\ Succeeds(status[id], status'[id])
             /\ (aio[id] # "new" /\ id \notin Recorded) => id \notin Recorded'
<1>1. ASSUME QueueInv, NextQueue, NEW id \in Ids PROVE Forward(id)
  <2>1. PICK me \in Ids : \/ Submit(me) \/ Delete(me) \/ Run(me) \/ CancelLost(me)
    BY <1>1 DEF NextQueue, Run
  <2>2. CASE Submit(me)
    <3>1. aio[me] = "new" /\ me \notin Recorded /\ QueueTypeOK /\ Len(tasks) <= MaxTasks
      BY <1>1, <2>2 DEF Submit, QueueInv
    <3>2. Recorded' \subseteq Recorded \cup {me}
      BY <3>1, <2>2, SubmitShape DEF Submit, Recorded
    <3>3. status[me] = "none"
      BY <3>1 DEF QueueTypeOK
    <3>4. id # me => status'[id] \in {status[id], "none"}
      BY <2>2 DEF Submit
    <3>5. id = me => status'[id] \in {"queued", "none"}
      BY <2>2 DEF Submit
    <3>6. QED
      BY <3>1, <3>2, <3>3, <3>4, <3>5 DEF Succeeds
  <2>3. CASE Delete(me)
    <3>1. Recorded' \subseteq Recorded
      BY <1>1, <2>3, NothingNew
    <3>2. status'[id] \in {status[id], "none"}
      BY <1>1, <2>3 DEF Delete, Forget, QueueInv, QueueTypeOK
    <3>3. QED
      BY <3>1, <3>2 DEF Succeeds
  <2>4. CASE Run(me) \/ CancelLost(me)
    <3>1. Recorded' \subseteq Recorded
      BY <1>1, <2>4, NothingNew
    <3>2. id # me => status'[id] = status[id]
      BY <1>1, <2>4
         DEF Run, Start, Finish, CancelUnstarted, CancelRunning, CancelLost, QueueInv, QueueTypeOK
    <3>3. Succeeds(status[me], status'[me])
      BY <1>1, <2>4
         DEF Run, Start, Finish, CancelUnstarted, CancelRunning, CancelLost, QueueInv, QueueTypeOK,
             RecordTellsTruth, Shows, Succeeds
    <3>4. QED
      BY <3>1, <3>2, <3>3 DEF Succeeds
  <2>5. QED
    BY <2>1, <2>2, <2>3, <2>4
<1>2. ASSUME UNCHANGED queueVars, NEW id \in Ids PROVE Forward(id)
  BY <1>2 DEF queueVars, Recorded, Succeeds
<1>3. QueueInv /\ [NextQueue]_queueVars => [\A id \in Ids : Forward(id)]_queueVars
  BY <1>1, <1>2
<1>4. QED
  BY <1>3, QueueInvariant, PTL DEF QueueSpec, Lifecycle

\* The store keeps its bound, and what it forgets on its own is its oldest record,
\* when it is full of newer ones.
THEOREM EvictionOnlyWhenFull == QueueSpec => EvictsOnlyWhenFull
<1> DEFINE Bounded ==
             /\ Len(tasks') <= MaxTasks
             /\ \A id \in Recorded \ Recorded' :
                  (\E new \in Recorded' : new \notin Recorded) =>
                    /\ Len(tasks') = MaxTasks
                    /\ \A i \in 1..Len(tasks) :
                         tasks[i] \in Recorded' => \E j \in 1..i : tasks[j] = id
<1>1. ASSUME QueueInv, NextQueue PROVE Bounded
  <2>1. QueueInv'
    BY <1>1, QueueStep
  <2>2. Len(tasks') <= MaxTasks
    BY <2>1 DEF QueueInv
  <2>3. PICK me \in Ids : \/ Submit(me) \/ Delete(me) \/ Run(me) \/ CancelLost(me)
    BY <1>1 DEF NextQueue, Run
  <2>4. CASE Submit(me)
    <3>1. aio[me] = "new" /\ me \notin Recorded /\ QueueTypeOK /\ Len(tasks) <= MaxTasks
      BY <1>1, <2>4 DEF Submit, QueueInv
    <3> DEFINE grown == Append(tasks, me)
    <3>2. PICK k \in {0, 1} :
             /\ k = 1 => Len(tasks) = MaxTasks
             /\ Len(Kept(grown)) = Len(tasks) + 1 - k
             /\ Evicted(grown) = {tasks[i] : i \in 1..k}
             /\ ToSet(Kept(grown)) = (Recorded \cup {me}) \ Evicted(grown)
      BY <3>1, SubmitShape
    <3>3. tasks' = Kept(grown)
      BY <2>4 DEF Submit
    <3> HIDE DEF grown
    <3>4. ASSUME NEW id \in Recorded \ Recorded'
          PROVE  /\ Len(tasks') = MaxTasks
                 /\ \A i \in 1..Len(tasks) : \E j \in 1..i : tasks[j] = id
      <4>1. id \in Evicted(grown)
        BY <3>2, <3>3, <3>4 DEF Recorded
      <4>2. k = 1 /\ id = tasks[1]
        BY <3>2, <4>1
      <4>3. Len(tasks') = MaxTasks
        BY <3>1, <3>2, <3>3, <4>2, QueueAssumption
      <4>4. \A i \in 1..Len(tasks) : 1 \in 1..i
        OBVIOUS
      <4>5. QED
        BY <4>2, <4>3, <4>4
    <3>5. QED
      BY <2>2, <3>4
  <2>5. CASE Delete(me) \/ Run(me) \/ CancelLost(me)
    BY <1>1, <2>2, <2>5, NothingNew
  <2>6. QED
    BY <2>3, <2>4, <2>5
<1>2. QueueInv /\ [NextQueue]_queueVars => [Bounded]_queueVars
  BY <1>1
<1>3. QED
  BY <1>2, QueueInvariant, PTL DEF QueueSpec, EvictsOnlyWhenFull

=============================================================================
