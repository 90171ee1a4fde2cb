------------------------------- MODULE Server -------------------------------
(***************************************************************************)
(* The DNS servers of server.go: the UDP loop and the stream (TCP, DoT)    *)
(* loop, which start a goroutine for a packet or a connection if a slot is *)
(* free, DoH requests, which need none, and handleDNSMessage, which they   *)
(* all call; the counters of metrics.go and blocklist.go and the query log *)
(* that it feeds; and what the panel reads of them.                        *)
(*                                                                         *)
(* What answerQuery finds out is a choice here: Blocklist, DNSCache and    *)
(* Lookup are about that.  The clients' addresses, buffers, TLS and HTTP   *)
(* are left out; that the listeners are closed in the end only means that  *)
(* nothing more arrives.                                                   *)
(***************************************************************************)
EXTENDS QueryLog

CONSTANTS
  Goroutines,   \* that may serve at the same time
  UdpSlots,     \* capacity of udpSlots (1024)
  TcpSlots,     \* and tcpSlots (256)
  BlockedNames, \* the domains that answerQuery finds blocked
  MaxMessages,  \* bound: how many messages come
  MaxTime       \* bound: how long the clock runs

ASSUME ServerAssumption ==
  /\ IsFiniteSet(Goroutines)
  /\ UdpSlots \in Nat /\ TcpSlots \in Nat /\ BlockedNames \subseteq Domains

VARIABLES
  task,          \* what each goroutine does
  udpSlots, tcpSlots,   \* how many slots are taken
  totalQueries, cachedQueries,  \* metrics
  blockedCount,  \* blocker.blocked
  panics,        \* ghost: queries whose goroutine panicked after they were counted
  messages

counters == <<totalQueries, cachedQueries, blockedCount, panics>>
vars == <<logVars, now, task, udpSlots, tcpSlots, counters, messages>>

Protocols == {"udp", "stream", "doh"}
NoTask == [proto |-> "none", at |-> "none", domain |-> "none", status |-> "none"]
Task(proto, at) == [NoTask EXCEPT !.proto = proto, !.at = at]
At(g, label) == task[g].at = label
\* Its query is counted and not yet logged.
Unlogged(g) == task[g].at \in {"answer", "log"}
Goto(g, label) == task' = [task EXCEPT ![g].at = label]

Init ==
  /\ LogInit
  /\ task = [g \in Goroutines |-> NoTask]
  /\ udpSlots = 0 /\ tcpSlots = 0
  /\ totalQueries = 0 /\ cachedQueries = 0 /\ blockedCount = 0 /\ panics = 0
  /\ messages = 0

-----------------------------------------------------------------------------
(* The loops *)

\* A wrong version: a slot is always to be had.
ServeUDPAlways(g) ==
  /\ task[g] = NoTask /\ messages < MaxMessages
  /\ messages' = messages + 1
  /\ udpSlots' = udpSlots + 1
  /\ task' = [task EXCEPT ![g] = Task("udp", "parse")]
  /\ UNCHANGED <<logVars, now, tcpSlots, counters>>

\* serveUDP: a packet gets a goroutine if there is a slot and is dropped else,
\* as a short one and a stranger's are.
ServeUDP(g) ==
  /\ task[g] = NoTask /\ messages < MaxMessages
  /\ udpSlots < UdpSlots
  /\ messages' = messages + 1
  /\ udpSlots' = udpSlots + 1
  /\ task' = [task EXCEPT ![g] = Task("udp", "parse")]
  /\ UNCHANGED <<logVars, now, tcpSlots, counters>>

\* serveStream: a connection is accepted, or closed at once.
ServeStream(g) ==
  /\ task[g] = NoTask /\ messages < MaxMessages
  /\ tcpSlots < TcpSlots
  /\ tcpSlots' = tcpSlots + 1
  /\ task' = [task EXCEPT ![g] = Task("stream", "read")]
  /\ UNCHANGED <<logVars, now, udpSlots, counters, messages>>

\* handleDoHRequest
ServeDoH(g) ==
  /\ task[g] = NoTask /\ messages < MaxMessages
  /\ messages' = messages + 1
  /\ task' = [task EXCEPT ![g] = Task("doh", "parse")]
  /\ UNCHANGED <<logVars, now, udpSlots, tcpSlots, counters>>

\* handleStreamConn: the next message of a connection
ReadMessage(g) ==
  /\ At(g, "read") /\ messages < MaxMessages
  /\ messages' = messages + 1
  /\ Goto(g, "parse")
  /\ UNCHANGED <<logVars, now, udpSlots, tcpSlots, counters>>

\* A wrong version: the connection has no deadline.
NoDeadline(g) == FALSE /\ UNCHANGED vars

\* The client closes, sends a message too short, or nothing for ten seconds.
EndOfStream(g) ==
  /\ At(g, "read")
  /\ Goto(g, "release")
  /\ UNCHANGED <<logVars, now, udpSlots, tcpSlots, counters, messages>>

\* The deferred functions: recover, close, give the slot back.
Release(g) ==
  /\ At(g, "release")
  /\ udpSlots' = IF task[g].proto = "udp" THEN udpSlots - 1 ELSE udpSlots
  /\ tcpSlots' = IF task[g].proto = "stream" THEN tcpSlots - 1 ELSE tcpSlots
  /\ task' = [task EXCEPT ![g] = NoTask]
  /\ UNCHANGED <<logVars, now, counters, messages>>

-----------------------------------------------------------------------------
(* handleDNSMessage *)

\* A message that is answered with an error, before it counts as a query, or
\* not at all; a stream ends with the latter.
Reject(g) ==
  /\ At(g, "parse")
  /\ \E reply \in BOOLEAN : Goto(g, IF reply THEN "reply" ELSE "release")
  /\ UNCHANGED <<logVars, now, udpSlots, tcpSlots, counters, messages>>

\* A query is counted ...
Accept(g) ==
  /\ At(g, "parse")
  /\ \E d \in Domains : task' = [task EXCEPT ![g].at = "answer", ![g].domain = d]
  /\ totalQueries' = totalQueries + 1
  /\ UNCHANGED <<logVars, now, udpSlots, tcpSlots, cachedQueries, blockedCount, panics,
                 messages>>

\* A wrong version: a blocked query is replied to at once.
AnswerBlocked(g) ==
  /\ At(g, "answer")
  /\ \E s \in IF task[g].domain \in BlockedNames THEN {"blocked"} ELSE Statuses \ {"blocked"} :
       /\ task' = [task EXCEPT ![g].at = IF s = "blocked" THEN "reply" ELSE "log", ![g].status = s]
       /\ blockedCount' = blockedCount + One(s = "blocked")
       /\ cachedQueries' = cachedQueries + One(s = "cached")
  /\ UNCHANGED <<logVars, now, udpSlots, tcpSlots, totalQueries, panics, messages>>

\* ... answered by answerQuery, and counted again by how it was answered ...
Answer(g) ==
  /\ At(g, "answer")
  /\ \E s \in IF task[g].domain \in BlockedNames THEN {"blocked"} ELSE Statuses \ {"blocked"} :
       /\ task' = [task EXCEPT ![g].at = "log", ![g].status = s]
       /\ blockedCount' = blockedCount + One(s = "blocked")
       /\ cachedQueries' = cachedQueries + One(s = "cached")
  /\ UNCHANGED <<logVars, now, udpSlots, tcpSlots, totalQueries, panics, messages>>

\* ... put into the query log ...
Log(g) ==
  /\ At(g, "log")
  /\ Add([domain |-> task[g].domain, status |-> task[g].status])
  /\ task' = [task EXCEPT ![g] = Task(@.proto, "reply")]
  /\ UNCHANGED <<udpSlots, tcpSlots, counters, messages>>

\* ... and replied to.  A stream goes on if the reply can be written.
Reply(g) ==
  /\ At(g, "reply")
  /\ \E next \in IF task[g].proto = "stream" THEN {"read", "release"} ELSE {"release"} :
       task' = [task EXCEPT ![g] = Task(@.proto, next)]
  /\ UNCHANGED <<logVars, now, udpSlots, tcpSlots, counters, messages>>

\* A wrong version: the slot is given back where the goroutine's work ends well.
PanicKeeps(g) ==
  /\ task[g].at \in {"parse", "answer", "log", "reply"}
  /\ task' = [task EXCEPT ![g] = NoTask]
  /\ panics' = panics + One(Unlogged(g))
  /\ UNCHANGED <<logVars, now, udpSlots, tcpSlots, totalQueries, cachedQueries, blockedCount, messages>>

\* Any of it may panic, which the goroutine's deferred functions catch.
Panic(g) ==
  /\ task[g].at \in {"parse", "answer", "log", "reply"}
  /\ task' = [task EXCEPT ![g] = Task(@.proto, "release")]
  /\ panics' = panics + One(Unlogged(g))
  /\ UNCHANGED <<logVars, now, udpSlots, tcpSlots, totalQueries, cachedQueries, blockedCount,
                 messages>>

-----------------------------------------------------------------------------

Clock == now < MaxTime /\ Tick /\ UNCHANGED <<task, udpSlots, tcpSlots, counters, messages>>

\* What a goroutine does by itself; a stream's deadline counts as that.
Step(g) ==
  \/ EndOfStream(g) \/ Release(g)
  \/ Reject(g) \/ Accept(g) \/ Answer(g) \/ Panic(g) \/ Log(g) \/ Reply(g)

Next ==
  \/ \E g \in Goroutines : ServeUDP(g) \/ ServeStream(g) \/ ServeDoH(g) \/ ReadMessage(g) \/ Step(g)
  \/ Clock

Spec == Init /\ [][Next]_vars

FairSpec == Spec /\ \A g \in Goroutines : WF_vars(Step(g))

-----------------------------------------------------------------------------
(* Properties *)

Busy(proto) == {g \in Goroutines : task[g].proto = proto}

ServerTypeOK ==
  /\ LogTypeOK
  /\ task \in [Goroutines -> [proto : Protocols \cup {"none"},
        at : {"none", "read", "parse", "answer", "log", "reply", "release"},
        domain : Domains \cup {"none"}, status : Statuses \cup {"none"}]]
  /\ {udpSlots, tcpSlots, totalQueries, cachedQueries, blockedCount, panics, messages} \subseteq Nat

\* The slots taken are those of goroutines at work, no more than there are:
\* every path out of a goroutine, a panic too, gives its slot back, once
\* (serveUDP, serveStream and their deferred functions).
SlotsExact ==
  /\ udpSlots = Cardinality(Busy("udp")) /\ udpSlots <= UdpSlots
  /\ tcpSlots = Cardinality(Busy("stream")) /\ tcpSlots <= TcpSlots

\* The panel's numbers fit together: every query counted is in the log, on the
\* way there or lost in a panic, and none counts twice among the cached and
\* the blocked (handleDNSMessage, answerQuery, Add).
CountsAgree ==
  /\ totalQueries = totalCount + Cardinality({g \in Goroutines : Unlogged(g)}) + panics
  /\ cachedQueries + blockedCount <= totalQueries

\* Nobody keeps a slot: a packet's goroutine ends, and a stream whose client is
\* silent does not wait for ever (handleStreamConn's deadline).
Held(g) == task[g].proto = "udp" \/ At(g, "read")
SlotsComeBack == \A g \in Goroutines : Held(g) ~> ~Held(g)
=============================================================================
