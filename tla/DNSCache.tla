------------------------------ MODULE DNSCache ------------------------------
(***************************************************************************)
(* The answer cache (cache.go) and the queries that use it (resolve and    *)
(* resolveUncached of resolver.go), with the coalescing of equal queries   *)
(* (flightGroup).                                                          *)
(*                                                                         *)
(* A name stands for a cache key, a name with a query type.  What a server *)
(* says is a choice: Lookup is the one place where the network answers.    *)
(* A query works through a stack of names: an alias (CNAME) has its target *)
(* resolved, a zone without glue the name of its server.                   *)
(*                                                                         *)
(* Time is a counter.  A query takes at most MaxLag of it.                 *)
(***************************************************************************)
EXTENDS Naturals, Sequences, FiniteSets

CONSTANTS
  Clients,        \* the goroutines that call Resolve
  Nobody,
  Names,          \* the cache keys
  NoName,
  Alias,          \* the target of each name's CNAME record, or NoName
  Server,         \* the glueless name server of each name's zone, or NoName
  MaxDepth,       \* maxDepth
  MaxEntries,     \* maxEntries, 0 for no limit
  CacheEnabled,   \* cfg.CacheEnabled
  TTLs, NegTTLs,  \* the TTLs servers send, for data and (in the SOA) for its absence
  MinTTL, MaxTTL, MinNegTTL, MaxNegTTL, ServFailTTL, StaleTTL, StaleWindow,
  MaxTime,        \* when the clock stops
  MaxLag,         \* the longest a query takes
  MaxUses         \* how many queries and flushes there are

ASSUME CacheAssumption ==
  /\ Nobody \notin Clients /\ NoName \notin Names
  /\ IsFiniteSet(Names)
  /\ {Alias, Server} \subseteq [Names -> Names \cup {NoName}]
  /\ {MaxDepth, MaxEntries, MinTTL, MaxTTL, MinNegTTL, MaxNegTTL, ServFailTTL, StaleTTL,
      StaleWindow, MaxTime, MaxLag, MaxUses} \subseteq Nat
  /\ MinTTL > 0
  /\ TTLs \subseteq Nat /\ NegTTLs \subseteq Nat
  /\ CacheEnabled \in BOOLEAN

VARIABLES
  now,       \* the clock
  entries,   \* c.entries: what is cached under each name
  calls,     \* g.calls: who resolves each name for all
  query,     \* what each client is doing about its query
  uses,      \* how many queries and flushes there were
  goodUntil  \* ghost: how long the last good answer for each name has to be kept

vars == <<now, entries, calls, query, uses, goodUntil>>

-----------------------------------------------------------------------------
(* Answers.  "alias" is a CNAME chain that ends in no data: rcode Success,  *)
(* and records.  until and stale are ghosts: when the oldest part of the    *)
(* answer expires by its owner's TTL, and whether some of it is stale.      *)

Kinds == {"ok", "alias", "nodata", "nx", "fail"}
Success == {"ok", "alias", "nodata"}
WithRecords == {"ok", "alias"}

Answer == [kind : Kinds, ttl : Nat, until : Nat, stale : BOOLEAN]
Failed == [kind |-> "fail", ttl |-> 0, until |-> 0, stale |-> FALSE]

Entry == [kind : Kinds \cup {"none"}, ttl : Nat, until : Nat, stale : BOOLEAN,
          cachedAt : Nat, expiresAt : Nat]
NoEntry == [kind |-> "none", ttl |-> 0, until |-> 0, stale |-> FALSE,
            cachedAt |-> 0, expiresAt |-> 0]

\* A name being resolved: why, and the alias record that led to it.
Frame == [name : Names, why : {"query", "alias", "server"}, ttl : Nat, until : Nat,
          hasServer : BOOLEAN]

Labels == {"idle", "get", "join", "wait", "lookup", "stale", "set", "return", "wake"}

\* Where a client is, the name it was asked for and since when, the names it
\* is resolving (the innermost last), the answer it has in hand, and the
\* client whose call it waits for.
State == [at : Labels, name : Names \cup {NoName}, since : 0 .. MaxTime, stack : Seq(Frame),
          ans : Answer, waitsFor : Clients \cup {Nobody}]
Idle == [at |-> "idle", name |-> NoName, since |-> 0, stack |-> <<>>, ans |-> Failed,
         waitsFor |-> Nobody]

Smaller(i, j) == IF i < j THEN i ELSE j
Clamp(i, low, high) == Smaller(IF i < low THEN low ELSE i, high)

\* answerTTL
AnswerTTL(a) ==
  IF a.kind = "fail" THEN ServFailTTL
  ELSE IF a.kind \in WithRecords THEN Clamp(a.ttl, MinTTL, MaxTTL)
  ELSE Clamp(a.ttl, MinNegTTL, MaxNegTTL)

\* A wrong version: the TTL is handed out as it was received.
NotAged(ttl, elapsed) == ttl

\* agedRecords with the floor 1
Aged(ttl, elapsed) == IF ttl > elapsed + 1 THEN ttl - elapsed ELSE 1

\* A wrong version: the floor is forgotten.
Unfloored(e) == {e.ttl - (now - e.cachedAt)}

\* The TTL an entry is handed out with: records age, in the SOA of a negative
\* answer the record's TTL does, but the minimum it is compared with does not.
Remaining(e) ==
  LET aged == Aged(e.ttl, now - e.cachedAt)
  IN  IF e.kind \in WithRecords THEN {aged} ELSE Smaller(aged, e.ttl) .. e.ttl

\* What the alias f and the answer a for its target make together.  Records
\* have the smallest TTL of all; a negative answer has its SOA's, except that
\* no data behind an alias is an answer with records, the aliases.
Chained(f, a) ==
  [kind  |-> IF a.kind = "nodata" THEN "alias" ELSE a.kind,
   ttl   |-> IF a.kind \in WithRecords THEN Smaller(f.ttl, a.ttl)
             ELSE IF a.kind = "nodata" THEN f.ttl ELSE a.ttl,
   until |-> Smaller(f.until, a.until),
   stale |-> a.stale]

-----------------------------------------------------------------------------
(* The cache *)

Cached == {n \in Names : entries[n].kind # "none"}
Expired(n) == now > entries[n].expiresAt

\* GetStale
Servable(n) ==
  /\ entries[n].kind \in WithRecords
  /\ now <= entries[n].expiresAt + StaleWindow

\* A wrong version: a cache of expired entries is full of room.
EvictedExpired ==
  IF MaxEntries = 0 \/ Cardinality(Cached) < MaxEntries THEN {{}}
  ELSE {{n \in Cached : Expired(n)}}

\* evictLocked: the choices of what goes when there is no room.  The expired
\* ones; if that is not enough, any tenth of the limit besides.
Evicted ==
  LET old == {n \in Cached : Expired(n)}
      drop == MaxEntries \div 10 + 1
  IN  IF MaxEntries = 0 \/ Cardinality(Cached) < MaxEntries THEN {{}}
      ELSE IF Cardinality(Cached \ old) < MaxEntries THEN {old}
      ELSE {old \cup more : more \in {S \in SUBSET (Cached \ old) : Cardinality(S) = drop}}

\* Set leaves the cache alone: it is off, or a failure meets a good answer.
Refused(n, a) == ~CacheEnabled \/ (a.kind = "fail" /\ entries[n].kind \in Success)

NewEntry(a) ==
  [kind |-> a.kind, ttl |-> a.ttl, until |-> a.until, stale |-> a.stale,
   cachedAt |-> now, expiresAt |-> now + AnswerTTL(a)]

-----------------------------------------------------------------------------

Init ==
  /\ now = 0
  /\ entries = [n \in Names |-> NoEntry]
  /\ calls = [n \in Names |-> Nobody]
  /\ query = [c \in Clients |-> Idle]
  /\ uses = 0
  /\ goodUntil = [n \in Names |-> 0]

At(c, label) == query[c].at = label
Top(c) == query[c].stack[Len(query[c].stack)]
Name(c) == Top(c).name
Depth(c) == Len(query[c].stack) - 1

\* What the client does next, with which answer in hand.
Goto(c, label) == query' = [query EXCEPT ![c].at = label]
Carry(c, label, a) == query' = [query EXCEPT ![c].at = label, ![c].ans = a]

NewFrame(name, why, ttl) ==
  [name |-> name, why |-> why, ttl |-> ttl, until |-> now + ttl, hasServer |-> FALSE]

\* Resolve(name, qtype)
Query(c, n) ==
  /\ At(c, "idle")
  /\ uses < MaxUses
  /\ uses' = uses + 1
  /\ query' = [query EXCEPT ![c] =
                 [at |-> "get", name |-> n, since |-> now, stack |-> <<NewFrame(n, "query", 0)>>,
                  ans |-> Failed, waitsFor |-> Nobody]]
  /\ UNCHANGED <<now, entries, calls, goodUntil>>

Fresh(n) == CacheEnabled /\ entries[n].kind # "none" /\ ~Expired(n)

\* Get: a fresh entry is the answer, with the time it has left.
Hit(c) ==
  /\ At(c, "get")
  /\ Fresh(Name(c))
  /\ LET e == entries[Name(c)]
     IN  \/ /\ Depth(c) = 0
            /\ query' = [query EXCEPT ![c] = Idle]
         \/ /\ Depth(c) > 0
            /\ \E ttl \in Remaining(e) :
                 Carry(c, "return", [kind |-> e.kind, ttl |-> ttl, until |-> e.until,
                                     stale |-> e.stale])
  /\ UNCHANGED <<now, entries, calls, uses, goodUntil>>

\* A wrong version: inner queries are coalesced as well.
MissJoins(c) ==
  /\ At(c, "get")
  /\ ~Fresh(Name(c))
  /\ Goto(c, "join")
  /\ UNCHANGED <<now, entries, calls, uses, goodUntil>>

\* Only the outermost query is coalesced.
Miss(c) ==
  /\ At(c, "get")
  /\ ~Fresh(Name(c))
  /\ Goto(c, IF Depth(c) = 0 THEN "join" ELSE "lookup")
  /\ UNCHANGED <<now, entries, calls, uses, goodUntil>>

\* A wrong version: nobody looks whether the name is being resolved.
JoinAlone(c) ==
  /\ At(c, "join")
  /\ calls' = [calls EXCEPT ![Name(c)] = c]
  /\ Goto(c, "lookup")
  /\ UNCHANGED <<now, entries, uses, goodUntil>>

\* flightGroup.do, up to the call of fn
Join(c) ==
  /\ At(c, "join")
  /\ \/ /\ calls[Name(c)] = Nobody
        /\ calls' = [calls EXCEPT ![Name(c)] = c]
        /\ Goto(c, "lookup")
     \/ /\ calls[Name(c)] # Nobody
        /\ query' = [query EXCEPT ![c].at = "wait", ![c].waitsFor = calls[Name(c)]]
        /\ UNCHANGED calls
  /\ UNCHANGED <<now, entries, uses, goodUntil>>

\* The answer is at hand; a failure is looked up among the stale entries first.
AfterAnswer(a) == IF a.kind = "fail" THEN "stale" ELSE "set"

\* The name on top needs another one first.
Descend(c, name, why, ttl) ==
  query' = [query EXCEPT ![c].at = "get", ![c].stack = Append(@, NewFrame(name, why, ttl))]

\* resolveUncached: the zone walk fails, answers, meets an alias, or has to
\* find the address of the zone's server first, if no query has found it yet.
Lookup(c) ==
  /\ At(c, "lookup")
  /\ \/ Carry(c, "stale", Failed)
     \/ /\ Depth(c) <= MaxDepth
        /\ Alias[Name(c)] = NoName
        /\ \E kind \in {"ok", "nodata", "nx"} :
             \E ttl \in IF kind = "ok" THEN TTLs ELSE NegTTLs :
               Carry(c, "set", [kind |-> kind, ttl |-> ttl, until |-> now + ttl, stale |-> FALSE])
     \/ /\ Depth(c) <= MaxDepth
        /\ Alias[Name(c)] # NoName
        /\ \E ttl \in TTLs : Descend(c, Alias[Name(c)], "alias", ttl)
     \/ /\ Depth(c) <= MaxDepth
        /\ Server[Name(c)] # NoName /\ ~Top(c).hasServer
        /\ Descend(c, Server[Name(c)], "server", 0)
  /\ UNCHANGED <<now, entries, calls, uses, goodUntil>>

\* A wrong version: the call stays registered when the work panics.
PanicForgets(c) ==
  /\ At(c, "lookup")
  /\ query' = [query EXCEPT ![c] = Idle]
  /\ UNCHANGED <<now, entries, calls, uses, goodUntil>>

\* A panic in the work, which the handler recovers from.  The deferred
\* function of flightGroup.do runs; those who wait get SERVFAIL.
Panic(c) ==
  /\ At(c, "lookup")
  /\ query' = [query EXCEPT ![c].at = "return", ![c].ans = Failed, ![c].stack = <<Head(@)>>]
  /\ UNCHANGED <<now, entries, calls, uses, goodUntil>>

\* GetStale: what the cache had last is better than no answer.
GetStale(c) ==
  /\ At(c, "stale")
  /\ LET e == entries[Name(c)]
     IN  IF Servable(Name(c))
         THEN Carry(c, "return", [kind |-> e.kind, ttl |-> StaleTTL, until |-> e.until,
                                  stale |-> TRUE])
         ELSE Goto(c, "set")
  /\ UNCHANGED <<now, entries, calls, uses, goodUntil>>

\* Set, the eviction included
Set(c) ==
  /\ At(c, "set")
  /\ LET n == Name(c)
         a == query[c].ans
     IN  \/ /\ Refused(n, a)
            /\ UNCHANGED <<entries, goodUntil>>
         \/ /\ ~Refused(n, a)
            /\ \E gone \in Evicted :
                 /\ entries' = [m \in Names |-> IF m = n THEN NewEntry(a)
                                                ELSE IF m \in gone THEN NoEntry
                                                ELSE entries[m]]
                 /\ goodUntil' = [m \in Names |->
                      IF m = n /\ a.kind \in WithRecords THEN now + AnswerTTL(a) + StaleWindow + 1
                      ELSE IF (m = n /\ a.kind # "fail") \/ m \in gone \ {n} THEN 0
                      ELSE goodUntil[m]]
  /\ Goto(c, "return")
  /\ UNCHANGED <<now, calls, uses>>

\* An inner query returns: the alias's answer is completed, or the walk goes
\* on with the server's address.
Return(c) ==
  /\ At(c, "return")
  /\ Depth(c) > 0
  /\ LET outer == SubSeq(query[c].stack, 1, Depth(c))
         a == IF Top(c).why = "alias" THEN Chained(Top(c), query[c].ans) ELSE Failed
     IN  IF Top(c).why = "server" /\ query[c].ans.kind = "ok"
         THEN query' = [query EXCEPT ![c].at = "lookup", ![c].ans = Failed,
                                     ![c].stack = [outer EXCEPT ![Depth(c)].hasServer = TRUE]]
         ELSE query' = [query EXCEPT ![c].at = AfterAnswer(a), ![c].ans = a, ![c].stack = outer]
  /\ UNCHANGED <<now, entries, calls, uses, goodUntil>>

\* The deferred function of flightGroup.do: the call is taken off the table,
Unregister(c) ==
  /\ At(c, "return")
  /\ Depth(c) = 0
  /\ calls' = [calls EXCEPT ![query[c].name] = Nobody]
  /\ Goto(c, "wake")
  /\ UNCHANGED <<now, entries, uses, goodUntil>>

\* and c.wg.Done() wakes those who wait.
Wake(c) ==
  /\ At(c, "wake")
  /\ query' = [d \in Clients |-> IF d = c \/ query[d].waitsFor = c THEN Idle ELSE query[d]]
  /\ UNCHANGED <<now, entries, calls, uses, goodUntil>>

\* The panel's Flush
Flush ==
  /\ uses < MaxUses
  /\ uses' = uses + 1
  /\ entries' = [n \in Names |-> NoEntry]
  /\ goodUntil' = [n \in Names |-> 0]
  /\ UNCHANGED <<now, calls, query>>

\* A wrong version: expired entries are cleaned up at once.
CleanupExpired ==
  /\ entries' = [n \in Names |-> IF Expired(n) THEN NoEntry ELSE entries[n]]
  /\ UNCHANGED <<now, calls, query, uses, goodUntil>>

\* Cleanup, by the background loop
Cleanup ==
  /\ entries' = [n \in Names |-> IF now > entries[n].expiresAt + StaleWindow
                                 THEN NoEntry ELSE entries[n]]
  /\ UNCHANGED <<now, calls, query, uses, goodUntil>>

Tick ==
  /\ now < MaxTime
  /\ \A c \in Clients : ~At(c, "idle") => now < query[c].since + MaxLag
  /\ now' = now + 1
  /\ UNCHANGED <<entries, calls, query, uses, goodUntil>>

\* What a client does about its query.
Work(c) == \/ Hit(c) \/ Miss(c) \/ Join(c) \/ Lookup(c) \/ Panic(c) \/ GetStale(c) \/ Set(c)
           \/ Return(c) \/ Unregister(c) \/ Wake(c)

Next ==
  \/ \E c \in Clients : (\E n \in Names : Query(c, n)) \/ Work(c)
  \/ Flush
  \/ Cleanup
  \/ Tick

Spec == Init /\ [][Next]_vars

-----------------------------------------------------------------------------
(* Properties *)

\* Client c resolves the name it was asked for, for all who ask for it.
Leads(c) ==
  \/ query[c].at \in {"lookup", "stale", "set", "return", "wake"}
  \/ At(c, "get") /\ Depth(c) > 0

\* No variable leaves its type.
CacheTypeOK ==
  /\ now \in 0 .. MaxTime
  /\ entries \in [Names -> Entry]
  /\ calls \in [Names -> Clients \cup {Nobody}]
  /\ query \in [Clients -> State]
  /\ uses \in 0 .. MaxUses
  /\ goodUntil \in [Names -> Nat]

\* The cache never holds more than cacheMaxEntries entries, whichever clients
\* store at the same time and whatever is expired (evictLocked).
SizeBound == MaxEntries > 0 => Cardinality(Cached) <= MaxEntries

\* One client at most resolves a name on behalf of its askers, and the table
\* of calls says which (flightGroup.do): many equal queries are one.
OneFlight ==
  \A c \in Clients : Leads(c) /\ ~At(c, "wake") => calls[query[c].name] = c

\* Who waits, waits for a client that is at work on the same name, waits for
\* nobody itself and will wake it, after a panic too: names may need each
\* other in a circle, but clients never wait for each other, because only
\* outermost queries are coalesced (resolve, flightGroup.do).
Awaited ==
  \A c \in Clients : At(c, "wait") =>
    \E d \in Clients : /\ query[c].waitsFor = d
                      /\ query[c].name = query[d].name
                      /\ Leads(d)

\* What may be added to an answer's life: the lower limit of the TTL and the
\* time a query takes, for data once for each name it is cached under.
Slack(kind) ==
  IF kind = "ok" THEN Cardinality(Names) * (MinTTL + MaxLag) ELSE MinNegTTL + MaxLag

\* An answer with data, or a negative one, is not served as fresh long after
\* its owner's TTL, also when it was put together from cached parts, aged,
\* clamped and cached again under the alias's name (agedRecords, answerTTL).
DataFresh ==
  \A n \in Cached :
    entries[n].kind \in {"ok", "nodata"} /\ ~entries[n].stale
      => entries[n].expiresAt <= entries[n].until + Slack(entries[n].kind)

\* A client is given up on only if the cache has had no good answer for the
\* name within the last day that was not flushed, evicted or contradicted:
\* failures and the clean-up cost nobody an answer (GetStale, Set, Cleanup).
LastResort ==
  [][\A c \in Clients :
       At(c, "stale") /\ query'[c].at = "set" => now >= goodUntil[Name(c)]]_vars

\* "NXDOMAIN / NODATA için üst sınır" (cache.go): an answer that says there
\* is no data is kept for maxNegTTL at most.
NoDataBounded ==
  \A n \in Cached :
    entries[n].kind \in {"alias", "nodata"}
      => entries[n].expiresAt <= entries[n].cachedAt + MaxNegTTL
=============================================================================
