------------------------------ MODULE QueryLog ------------------------------
(***************************************************************************)
(* The query log of querylog.go: a ring of the last queries, a ring of     *)
(* points, one for each second that had a query, for the panel's chart,    *)
(* and counters by domain whose number is limited.                         *)
(*                                                                         *)
(* Every operation holds the log's lock and is one action or a function of *)
(* the state.  The average response time of a point is left out, and the   *)
(* clock is taken never to be set back.                                    *)
(***************************************************************************)
EXTENDS Naturals, Sequences, FiniteSets

CONSTANTS
  Domains,
  Statuses,     \* of a query, "blocked" and "cached" among them
  MaxSize,      \* the entries kept
  Seconds,      \* the points kept (300)
  MaxTracked,   \* maxTrackedDomains
  NoEntry

Entry == [domain : Domains, status : Statuses]

ASSUME LogAssumption ==
  /\ MaxSize \in Nat \ {0} /\ Seconds \in Nat \ {0} /\ MaxTracked \in Nat
  /\ {"blocked", "cached"} \subseteq Statuses
  /\ NoEntry \notin Entry

VARIABLES
  entries, writeIdx, totalCount,
  timeSeries, tsWriteIdx,
  currentPoint,      \* its time is currentSecond
  domainCounts, blockedCounts,
  now,               \* the second it is
  seen,              \* ghost: the queries of each second
  asked              \* ghost: the queries for each domain

logVars == <<entries, writeIdx, totalCount, timeSeries, tsWriteIdx, currentPoint,
             domainCounts, blockedCounts, seen, asked>>

Slots == 0 .. MaxSize - 1
Zero == [t |-> 0, queries |-> 0, blocked |-> 0, cached |-> 0]
Points == [t : Nat, queries : Nat, blocked : Nat, cached : Nat]
One(b) == IF b THEN 1 ELSE 0

\* A map from some keys to numbers: a missing key counts as 0.
NoCounts == [x \in {} |-> 0]
Count(m, d) == IF d \in DOMAIN m THEN m[d] ELSE 0
Counted(m, d) == [x \in DOMAIN m \cup {d} |-> Count(m, x) + One(x = d)]

\* A wrong version: the ring does not close.
Onward(i, size) == i + 1

\* The slot of a ring that is written next.
Following(i, size) == (i + 1) % size

LogInit ==
  /\ entries = [i \in Slots |-> NoEntry] /\ writeIdx = 0 /\ totalCount = 0
  /\ timeSeries = [i \in 0 .. Seconds - 1 |-> Zero] /\ tsWriteIdx = 0
  /\ currentPoint = Zero
  /\ domainCounts = NoCounts /\ blockedCounts = NoCounts
  /\ now = 1
  /\ seen = NoCounts /\ asked = [d \in Domains |-> 0]

\* A wrong version: there is room for one domain less.
PrunedEarly(m) ==
  LET often == {x \in DOMAIN m : m[x] > 1}
  IN  IF Cardinality(DOMAIN m) < MaxTracked THEN m ELSE [d \in often |-> m[d]]

\* pruneCounts, and when it is called
Pruned(m) ==
  LET often == {x \in DOMAIN m : m[x] > 1}
  IN  IF Cardinality(DOMAIN m) <= MaxTracked THEN m
      ELSE IF Cardinality(often) > MaxTracked THEN NoCounts
      ELSE [d \in often |-> m[d]]

\* A wrong version: the point of an earlier second goes on.
NeverNew == currentPoint.t > 0

\* The point of this second is the current one.
SecondGoesOn == currentPoint.t = now

\* Add
Add(e) ==
  /\ entries' = [entries EXCEPT ![writeIdx] = e]
  /\ writeIdx' = Following(writeIdx, MaxSize)
  /\ totalCount' = totalCount + 1
  /\ domainCounts' = Counted(Pruned(domainCounts), e.domain)
  /\ blockedCounts' = IF e.status = "blocked" THEN Counted(Pruned(blockedCounts), e.domain)
                      ELSE Pruned(blockedCounts)
  /\ LET p == IF SecondGoesOn THEN currentPoint ELSE [Zero EXCEPT !.t = now]
     IN  currentPoint' = [p EXCEPT !.queries = @ + 1, !.blocked = @ + One(e.status = "blocked"),
                                   !.cached = @ + One(e.status = "cached")]
  /\ IF ~SecondGoesOn /\ currentPoint.t > 0
     THEN /\ timeSeries' = [timeSeries EXCEPT ![tsWriteIdx] = currentPoint]
          /\ tsWriteIdx' = Following(tsWriteIdx, Seconds)
     ELSE UNCHANGED <<timeSeries, tsWriteIdx>>
  /\ seen' = Counted(seen, now)
  /\ asked' = [asked EXCEPT ![e.domain] = @ + 1]
  /\ UNCHANGED now

\* A wrong version: from the slot that is written next.
RecentFromNext(n) ==
  LET count == IF totalCount > MaxSize THEN MaxSize ELSE totalCount
  IN  [i \in 1 .. (IF n > count THEN count ELSE n) |-> entries[(writeIdx + MaxSize - i + 1) % MaxSize]]

\* Recent: the last n entries, the newest first
Recent(n) ==
  LET count == IF totalCount > MaxSize THEN MaxSize ELSE totalCount
  IN  [i \in 1 .. (IF n > count THEN count ELSE n) |-> entries[(writeIdx + MaxSize - i) % MaxSize]]

\* TimeSeries: the points of the last Seconds seconds, the current one included
InWindow(t) == t + Seconds > now /\ t > 0
TimeSeries ==
  {p \in {timeSeries[i] : i \in DOMAIN timeSeries} \cup {currentPoint} : InWindow(p.t)}

Tick == now' = now + 1 /\ UNCHANGED logVars

-----------------------------------------------------------------------------
(* Properties *)

LogTypeOK ==
  /\ entries \in [Slots -> Entry \cup {NoEntry}]
  /\ writeIdx \in Slots /\ totalCount \in Nat
  /\ timeSeries \in [0 .. Seconds - 1 -> Points] /\ tsWriteIdx \in 0 .. Seconds - 1
  /\ currentPoint \in Points
  /\ now \in Nat
  /\ asked \in [Domains -> Nat]

\* What the panel shows as the last queries is what RecentLog promises,
\* whatever wraps around while it is read (Add, Recent).
Shown == INSTANCE RecentLog WITH Room <- MaxSize, recent <- Recent(MaxSize)
ShowsRecent == Shown!Spec

\* The chart shows every query of the last Seconds seconds, once: no point is
\* overwritten while it is in the window (Add, TimeSeries).
ChartComplete ==
  /\ \A t \in 1 .. now : InWindow(t) /\ Count(seen, t) > 0
       => \E p \in TimeSeries : p.t = t /\ p.queries = Count(seen, t)
  /\ \A p, q \in TimeSeries : p.t = q.t => p = q

\* The counters stay few, never say more than was asked, and are exact until
\* there are more domains than may be tracked (Add, pruneCounts).
CountsHonest ==
  /\ Cardinality(DOMAIN domainCounts) <= MaxTracked + 1
  /\ \A d \in Domains : Count(domainCounts, d) <= asked[d]
  /\ Cardinality({d \in Domains : asked[d] > 0}) <= MaxTracked
       => \A d \in Domains : Count(domainCounts, d) = asked[d]
=============================================================================
