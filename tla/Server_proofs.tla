--------------------------- MODULE Server_proofs ----------------------------
(***************************************************************************)
(* Proofs about Server and QueryLog, for any goroutines, slots, domains    *)
(* and sizes of the log: types, the slots, the counters, and that the      *)
(* query log shows the last queries as RecentLog promises.                 *)
(***************************************************************************)
EXTENDS Server, FiniteSetTheorems, SequenceTheorems, TLAPS

Tasks == [proto : Protocols \cup {"none"},
          at : {"none", "read", "parse", "answer", "log", "reply", "release"},
          domain : Domains \cup {"none"}, status : Statuses \cup {"none"}]

\* A query that is counted is for a domain, and has a status once answered.
TaskInv ==
  \A g \in Goroutines :
    /\ Unlogged(g) => task[g].domain \in Domains
    /\ At(g, "log") => task[g].status \in Statuses

TypeInv == ServerTypeOK /\ TaskInv /\ SlotsExact

\* g's task changes to t, which is served in the same way.
GoesOn(g, t) ==
  /\ t \in Tasks
  /\ t.proto = task[g].proto
  /\ task' = [task EXCEPT ![g] = t]

-----------------------------------------------------------------------------
(* Rings *)

LEMMA FollowingType ==
  ASSUME NEW N \in Nat \ {0}, NEW w \in 0 .. N - 1
  PROVE  /\ Following(w, N) \in 0 .. N - 1
         /\ Following(w, N) = IF w + 1 = N THEN 0 ELSE w + 1
BY DEF Following

LEMMA InRing ==
  ASSUME NEW N \in Nat \ {0}, NEW w \in 0 .. N - 1, NEW i \in 1 .. N
  PROVE  (w + N - i) % N \in 0 .. N - 1
OBVIOUS

\* Once more is written, the slot written last is the one that was next ...
LEMMA JustWritten ==
  ASSUME NEW N \in Nat \ {0}, NEW w \in 0 .. N - 1
  PROVE  (Following(w, N) + N - 1) % N = w
<1> DEFINE f == Following(w, N)
<1>1. f = IF w + 1 = N THEN 0 ELSE w + 1
  BY FollowingType
<1> HIDE DEF f
<1>2. CASE w + 1 = N
  <2>1. f + N - 1 = w
    BY <1>1, <1>2
  <2>2. w % N = w
    OBVIOUS
  <2> QED BY <2>1, <2>2 DEF f
<1>3. CASE w + 1 # N
  <2>1. f + N - 1 = w + N
    BY <1>1, <1>3
  <2>2. (w + N) % N = w
    OBVIOUS
  <2> QED BY <2>1, <2>2 DEF f
<1> QED BY <1>2, <1>3

\* ... and another slot that is i behind was i - 1 behind.
LEMMA Behind ==
  ASSUME NEW N \in Nat \ {0}, NEW w \in 0 .. N - 1, NEW i \in 2 .. N
  PROVE  /\ (Following(w, N) + N - i) % N = (w + N - (i - 1)) % N
         /\ (Following(w, N) + N - i) % N # w
<1> DEFINE f == Following(w, N)
<1>1. f = IF w + 1 = N THEN 0 ELSE w + 1
  BY FollowingType
<1>2. ASSUME NEW x \in 0 .. N - 1
      PROVE  x % N = x /\ (x + N) % N = x
  OBVIOUS
<1> HIDE DEF f
<1>3. CASE w + 1 = N
  <2>1. f + N - i = N - i /\ w + N - (i - 1) = N - i + N
    BY <1>1, <1>3
  <2>2. N - i \in 0 .. N - 2
    OBVIOUS
  <2>3. (N - i) % N = N - i /\ (N - i + N) % N = N - i
    BY <1>2, <2>2
  <2> QED BY <1>3, <2>1, <2>2, <2>3 DEF f
<1>4. CASE w + 1 # N
  <2>1. f + N - i = w + N - (i - 1)
    BY <1>1, <1>4
  <2>2. CASE w + 1 < i
    <3>1. w + N - (i - 1) \in 0 .. N - 1
      BY <2>2
    <3>2. (w + N - (i - 1)) % N = w + N - (i - 1)
      BY <1>2, <3>1
    <3> QED BY <2>1, <3>2 DEF f
  <2>3. CASE w + 1 >= i
    <3>1. w - (i - 1) \in 0 .. N - 1
      BY <2>3
    <3>2. (w - (i - 1) + N) % N = w - (i - 1)
      BY <1>2, <3>1
    <3>3. w - (i - 1) + N = w + N - (i - 1)
      OBVIOUS
    <3> QED BY <2>1, <3>2, <3>3 DEF f
  <2> QED BY <2>2, <2>3
<1> QED BY <1>3, <1>4

-----------------------------------------------------------------------------
(* Types and slots *)

LEMMA TaskTypes ==
  ASSUME ServerTypeOK
  PROVE  task \in [Goroutines -> Tasks]
BY DEF ServerTypeOK, Tasks

LEMMA NewTask ==
  ASSUME NEW proto \in Protocols \cup {"none"},
         NEW at \in {"none", "read", "parse", "answer", "log", "reply", "release"}
  PROVE  /\ NoTask \in Tasks
         /\ Task(proto, at) \in Tasks
         /\ Task(proto, at).proto = proto
         /\ Task(proto, at).at = at
BY DEF NoTask, Task, Tasks

LEMMA PointType ==
  ASSUME NEW p \in Points, NEW b \in Nat, NEW c \in Nat
  PROVE  [p EXCEPT !.queries = p.queries + 1, !.blocked = p.blocked + b,
                   !.cached = p.cached + c] \in Points
<1>1. p.queries \in Nat /\ p.blocked \in Nat /\ p.cached \in Nat
  BY DEF Points
<1>2. p.queries + 1 \in Nat /\ p.blocked + b \in Nat /\ p.cached + c \in Nat
  BY <1>1
<1> QED BY <1>2 DEF Points

\* Adding an entry keeps the log's types.
LEMMA AddType ==
  ASSUME LogTypeOK, NEW e \in Entry, Add(e)
  PROVE  LogTypeOK'
<1> USE LogAssumption DEF LogTypeOK
<1>1. entries' \in [Slots -> Entry \cup {NoEntry}]
  BY DEF Add
<1>2. writeIdx' \in Slots
  BY FollowingType DEF Add, Slots
<1>3. totalCount' \in Nat
  BY DEF Add
<1>4. Zero \in Points /\ [Zero EXCEPT !.t = now] \in Points
  BY DEF Zero, Points
<1>5. One(e.status = "blocked") \in Nat /\ One(e.status = "cached") \in Nat
  BY DEF One
<1>6. currentPoint' \in Points
  <2> DEFINE p == IF SecondGoesOn THEN currentPoint ELSE [Zero EXCEPT !.t = now]
             b == One(e.status = "blocked")
             c == One(e.status = "cached")
  <2>1. p \in Points
    BY <1>4
  <2>2. currentPoint' = [p EXCEPT !.queries = p.queries + 1, !.blocked = p.blocked + b,
                                  !.cached = p.cached + c]
    BY DEF Add
  <2>3. b \in Nat /\ c \in Nat
    BY <1>5
  <2> HIDE DEF p, b, c
  <2> QED BY <2>1, <2>2, <2>3, PointType
<1>7. timeSeries' \in [0 .. Seconds - 1 -> Points] /\ tsWriteIdx' \in 0 .. Seconds - 1
  BY FollowingType DEF Add
<1>8. now' \in Nat /\ asked' \in [Domains -> Nat]
  BY DEF Add, Entry
<1> QED BY <1>1, <1>2, <1>3, <1>6, <1>7, <1>8

LEMMA TypeInit == Init => TypeInv
<1> SUFFICES ASSUME Init PROVE TypeInv
  OBVIOUS
<1>1. LogTypeOK
  BY LogAssumption DEF Init, LogInit, LogTypeOK, Slots, Zero, Points
<1>2. ServerTypeOK
  BY <1>1, NewTask DEF Init, ServerTypeOK, Tasks
<1>3. TaskInv
  BY DEF Init, TaskInv, Unlogged, At, NoTask
<1>4. Busy("udp") = {} /\ Busy("stream") = {}
  BY DEF Init, Busy, NoTask
<1>5. SlotsExact
  BY <1>4, FS_EmptySet, ServerAssumption DEF Init, SlotsExact
<1> QED BY <1>2, <1>3, <1>5 DEF TypeInv

LEMMA BusyFinite ==
  ASSUME NEW proto
  PROVE  IsFiniteSet(Busy(proto)) /\ Cardinality(Busy(proto)) \in Nat
<1>1. Busy(proto) \in SUBSET Goroutines
  BY DEF Busy
<1> QED BY <1>1, ServerAssumption, FS_Subset, FS_CardinalityType

\* A goroutine that goes on holds what it held.
LEMMA GoesOnBusy ==
  ASSUME TypeInv, NEW g \in Goroutines, NEW t, GoesOn(g, t), NEW proto
  PROVE  Busy(proto)' = Busy(proto)
<1>1. \A h \in Goroutines : task'[h].proto = task[h].proto
  BY TaskTypes DEF GoesOn, TypeInv
<1> QED BY <1>1 DEF Busy

\* One that starts holds one more slot of its kind.
LEMMA StartBusy ==
  ASSUME TypeInv, NEW g \in Goroutines, task[g] = NoTask,
         NEW proto \in Protocols, NEW at \in {"read", "parse"},
         task' = [task EXCEPT ![g] = Task(proto, at)]
  PROVE  /\ Cardinality(Busy(proto)') = Cardinality(Busy(proto)) + 1
         /\ \A q \in Protocols \ {proto} : Busy(q)' = Busy(q)
<1>1. task \in [Goroutines -> Tasks]
  BY TaskTypes DEF TypeInv
<1>2. Task(proto, at).proto = proto
  BY NewTask
<1>3. NoTask.proto = "none"
  BY DEF NoTask
<1>4. Busy(proto)' = Busy(proto) \cup {g} /\ g \notin Busy(proto)
  BY <1>1, <1>2, <1>3 DEF Busy, Protocols
<1>5. \A q \in Protocols \ {proto} : Busy(q)' = Busy(q)
  BY <1>1, <1>2, <1>3 DEF Busy, Protocols
<1>6. Cardinality(Busy(proto) \cup {g}) = Cardinality(Busy(proto)) + 1
  BY <1>4, BusyFinite, FS_AddElement
<1> QED BY <1>4, <1>5, <1>6

\* One that ends holds none.
LEMMA EndBusy ==
  ASSUME TypeInv, NEW g \in Goroutines, NEW proto \in Protocols,
         task' = [task EXCEPT ![g] = NoTask]
  PROVE  Cardinality(Busy(proto)') = IF task[g].proto = proto THEN Cardinality(Busy(proto)) - 1
                                     ELSE Cardinality(Busy(proto))
<1>1. task \in [Goroutines -> Tasks]
  BY TaskTypes DEF TypeInv
<1>2. NoTask.proto = "none"
  BY DEF NoTask
<1>3. Busy(proto)' = Busy(proto) \ {g}
  BY <1>1, <1>2 DEF Busy, Protocols
<1>4. g \in Busy(proto) <=> task[g].proto = proto
  BY DEF Busy
<1> QED BY <1>3, <1>4, BusyFinite, FS_RemoveElement

\* A step in which a goroutine goes on and no slot is taken.
LEMMA GoesOnType ==
  ASSUME TypeInv, LogTypeOK', NEW g \in Goroutines, NEW t, GoesOn(g, t),
         t.at \in {"answer", "log"} => t.domain \in Domains,
         t.at = "log" => t.status \in Statuses,
         UNCHANGED <<udpSlots, tcpSlots>>,
         totalQueries' \in Nat, cachedQueries' \in Nat, blockedCount' \in Nat,
         panics' \in Nat, messages' \in Nat
  PROVE  TypeInv'
<1>1. task \in [Goroutines -> Tasks]
  BY TaskTypes DEF TypeInv
<1>2. task' \in [Goroutines -> Tasks]
  BY <1>1 DEF GoesOn
<1>3. udpSlots' \in Nat /\ tcpSlots' \in Nat
  BY DEF TypeInv, ServerTypeOK
<1>4. ServerTypeOK'
  BY <1>2, <1>3 DEF ServerTypeOK, Tasks
<1>5. TaskInv'
  BY <1>1 DEF GoesOn, TypeInv, TaskInv, Unlogged, At
<1>6. Busy("udp")' = Busy("udp") /\ Busy("stream")' = Busy("stream")
  BY GoesOnBusy
<1>7. SlotsExact'
  BY <1>6 DEF TypeInv, SlotsExact
<1> QED BY <1>4, <1>5, <1>7 DEF TypeInv

\* Type correctness and the slots, one step per action.
LEMMA TypeStep ==
  ASSUME TypeInv, [Next]_vars
  PROVE  TypeInv'
<1> USE DEF GoesOn
<1>1. task \in [Goroutines -> Tasks]
  BY TaskTypes DEF TypeInv
<1>2. \A b \in BOOLEAN : One(b) \in Nat
  BY DEF One
<1>3. /\ totalQueries \in Nat /\ cachedQueries \in Nat /\ blockedCount \in Nat
      /\ panics \in Nat /\ messages \in Nat /\ udpSlots \in Nat /\ tcpSlots \in Nat
  BY DEF TypeInv, ServerTypeOK
<1>4. LogTypeOK /\ (UNCHANGED <<logVars, now>> => LogTypeOK')
  BY DEF TypeInv, ServerTypeOK, LogTypeOK, logVars
<1>5. ASSUME NEW g \in Goroutines, ServeUDP(g)
      PROVE  TypeInv'
  <2>1. task' = [task EXCEPT ![g] = Task("udp", "parse")]
    BY <1>5 DEF ServeUDP
  <2>2. /\ Task("udp", "parse") \in Tasks
        /\ Task("udp", "parse").at = "parse"
    BY NewTask DEF Protocols
  <2>3. ServerTypeOK'
    BY <1>1, <1>3, <1>4, <1>5, <2>1, <2>2 DEF ServeUDP, ServerTypeOK, Tasks, counters
  <2>4. TaskInv'
    BY <1>1, <2>1, <2>2 DEF TypeInv, TaskInv, Unlogged, At
  <2>5. /\ Cardinality(Busy("udp")') = Cardinality(Busy("udp")) + 1
        /\ Busy("stream")' = Busy("stream")
    BY <1>5, <2>1, StartBusy DEF ServeUDP, Protocols
  <2>6. SlotsExact'
    BY <1>3, <1>5, <2>5, ServerAssumption DEF ServeUDP, TypeInv, SlotsExact
  <2> QED BY <2>3, <2>4, <2>6 DEF TypeInv
<1>6. ASSUME NEW g \in Goroutines, ServeStream(g)
      PROVE  TypeInv'
  <2>1. task' = [task EXCEPT ![g] = Task("stream", "read")]
    BY <1>6 DEF ServeStream
  <2>2. /\ Task("stream", "read") \in Tasks
        /\ Task("stream", "read").at = "read"
    BY NewTask DEF Protocols
  <2>3. ServerTypeOK'
    BY <1>1, <1>3, <1>4, <1>6, <2>1, <2>2 DEF ServeStream, ServerTypeOK, Tasks, counters
  <2>4. TaskInv'
    BY <1>1, <2>1, <2>2 DEF TypeInv, TaskInv, Unlogged, At
  <2>5. /\ Cardinality(Busy("stream")') = Cardinality(Busy("stream")) + 1
        /\ Busy("udp")' = Busy("udp")
    BY <1>6, <2>1, StartBusy DEF ServeStream, Protocols
  <2>6. SlotsExact'
    BY <1>3, <1>6, <2>5, ServerAssumption DEF ServeStream, TypeInv, SlotsExact
  <2> QED BY <2>3, <2>4, <2>6 DEF TypeInv
<1>7. ASSUME NEW g \in Goroutines, ServeDoH(g)
      PROVE  TypeInv'
  <2>1. task' = [task EXCEPT ![g] = Task("doh", "parse")]
    BY <1>7 DEF ServeDoH
  <2>2. /\ Task("doh", "parse") \in Tasks
        /\ Task("doh", "parse").at = "parse"
    BY NewTask DEF Protocols
  <2>3. ServerTypeOK'
    BY <1>1, <1>3, <1>4, <1>7, <2>1, <2>2 DEF ServeDoH, ServerTypeOK, Tasks, counters
  <2>4. TaskInv'
    BY <1>1, <2>1, <2>2 DEF TypeInv, TaskInv, Unlogged, At
  <2>5. Busy("stream")' = Busy("stream") /\ Busy("udp")' = Busy("udp")
    BY <1>7, <2>1, StartBusy DEF ServeDoH, Protocols
  <2>6. SlotsExact'
    BY <1>7, <2>5 DEF ServeDoH, TypeInv, SlotsExact
  <2> QED BY <2>3, <2>4, <2>6 DEF TypeInv
<1>8. ASSUME NEW g \in Goroutines, ReadMessage(g)
      PROVE  TypeInv'
  <2>1. GoesOn(g, [task[g] EXCEPT !.at = "parse"])
    BY <1>1, <1>8 DEF ReadMessage, Goto, Tasks
  <2>2. LogTypeOK' /\ UNCHANGED <<udpSlots, tcpSlots, counters>> /\ messages' = messages + 1
    BY <1>4, <1>8 DEF ReadMessage
  <2>3. [task[g] EXCEPT !.at = "parse"].at = "parse"
    BY <1>1 DEF Tasks
  <2>4. messages' \in Nat
    BY <1>3, <2>2
  <2> QED BY <1>3, <2>1, <2>2, <2>3, <2>4, GoesOnType DEF counters
<1>9. ASSUME NEW g \in Goroutines, EndOfStream(g)
      PROVE  TypeInv'
  <2>1. GoesOn(g, [task[g] EXCEPT !.at = "release"])
    BY <1>1, <1>9 DEF EndOfStream, Goto, Tasks
  <2> QED BY <1>1, <1>3, <1>4, <1>9, <2>1, GoesOnType DEF EndOfStream, counters, Tasks
<1>10. ASSUME NEW g \in Goroutines, Release(g)
       PROVE  TypeInv'
  <2>1. task' = [task EXCEPT ![g] = NoTask] /\ NoTask \in Tasks /\ NoTask.at = "none"
    BY <1>10, NewTask DEF Release, NoTask, Tasks
  <2>2. /\ Cardinality(Busy("udp")') = IF task[g].proto = "udp" THEN Cardinality(Busy("udp")) - 1
                                       ELSE Cardinality(Busy("udp"))
        /\ Cardinality(Busy("stream")')
             = IF task[g].proto = "stream" THEN Cardinality(Busy("stream")) - 1
               ELSE Cardinality(Busy("stream"))
    BY <2>1, EndBusy DEF Protocols
  <2>3. SlotsExact'
    BY <1>3, <1>10, <2>2, ServerAssumption DEF Release, TypeInv, SlotsExact
  <2>4. udpSlots' \in Nat /\ tcpSlots' \in Nat
    <3>1. task' \in [Goroutines -> Tasks]
      BY <1>1, <2>1
    <3>2. Cardinality(Busy("udp")') \in Nat /\ Cardinality(Busy("stream")') \in Nat
      <4>1. Busy("udp")' \in SUBSET Goroutines /\ Busy("stream")' \in SUBSET Goroutines
        BY DEF Busy
      <4> QED BY <4>1, ServerAssumption, FS_Subset, FS_CardinalityType
    <3> QED BY <2>3, <3>2 DEF SlotsExact
  <2>5. ServerTypeOK'
    BY <1>1, <1>3, <1>4, <1>10, <2>1, <2>4 DEF Release, ServerTypeOK, Tasks, counters
  <2>6. TaskInv'
    BY <1>1, <2>1 DEF TypeInv, TaskInv, Unlogged, At
  <2> QED BY <2>3, <2>5, <2>6 DEF TypeInv
<1>11. ASSUME NEW g \in Goroutines, Reject(g)
       PROVE  TypeInv'
  <2>1. PICK at \in {"reply", "release"} : task' = [task EXCEPT ![g].at = at]
    BY <1>11 DEF Reject, Goto
  <2>2. GoesOn(g, [task[g] EXCEPT !.at = at])
    BY <1>1, <2>1 DEF Tasks
  <2> QED BY <1>1, <1>3, <1>4, <1>11, <2>1, <2>2, GoesOnType DEF Reject, counters, Tasks
<1>12. ASSUME NEW g \in Goroutines, Accept(g)
       PROVE  TypeInv'
  <2>1. PICK d \in Domains : task' = [task EXCEPT ![g].at = "answer", ![g].domain = d]
    BY <1>12 DEF Accept
  <2>2. GoesOn(g, [task[g] EXCEPT !.at = "answer", !.domain = d])
    BY <1>1, <2>1 DEF Tasks
  <2>3. /\ LogTypeOK' /\ totalQueries' = totalQueries + 1
        /\ UNCHANGED <<udpSlots, tcpSlots, cachedQueries, blockedCount, panics, messages>>
    BY <1>4, <1>12 DEF Accept
  <2>4. /\ [task[g] EXCEPT !.at = "answer", !.domain = d].at = "answer"
        /\ [task[g] EXCEPT !.at = "answer", !.domain = d].domain = d
    BY <1>1 DEF Tasks
  <2>5. totalQueries' \in Nat
    BY <1>3, <2>3
  <2> QED BY <1>3, <2>2, <2>3, <2>4, <2>5, GoesOnType
<1>13. ASSUME NEW g \in Goroutines, Answer(g)
       PROVE  TypeInv'
  <2>1. PICK s \in Statuses :
          /\ task' = [task EXCEPT ![g].at = "log", ![g].status = s]
          /\ blockedCount' = blockedCount + One(s = "blocked")
          /\ cachedQueries' = cachedQueries + One(s = "cached")
    BY <1>13, LogAssumption DEF Answer
  <2>2. GoesOn(g, [task[g] EXCEPT !.at = "log", !.status = s])
    BY <1>1, <2>1 DEF Tasks
  <2>3. task[g].domain \in Domains
    BY <1>13 DEF Answer, At, TypeInv, TaskInv, Unlogged
  <2>4. One(s = "blocked") \in Nat /\ One(s = "cached") \in Nat
    BY DEF One
  <2>5. blockedCount' \in Nat /\ cachedQueries' \in Nat
    BY <1>3, <2>1, <2>4
  <2> QED BY <1>1, <1>3, <1>4, <1>13, <2>2, <2>3, <2>5, GoesOnType DEF Answer, Tasks
<1>14. ASSUME NEW g \in Goroutines, Log(g)
       PROVE  TypeInv'
  <2>1. task[g] \in Tasks /\ task[g].domain \in Domains /\ task[g].status \in Statuses
    BY <1>1, <1>14 DEF Log, At, TypeInv, TaskInv, Unlogged
  <2>2. LogTypeOK'
    BY <1>4, <1>14, <2>1, AddType DEF Log, Entry
  <2>3. task[g].proto \in Protocols \cup {"none"}
    BY <2>1 DEF Tasks
  <2>4. GoesOn(g, Task(task[g].proto, "reply")) /\ Task(task[g].proto, "reply").at = "reply"
    BY <1>1, <1>14, <2>3, NewTask DEF Log
  <2> QED BY <1>3, <1>14, <2>2, <2>4, GoesOnType DEF Log, counters
<1>15. ASSUME NEW g \in Goroutines, Reply(g)
       PROVE  TypeInv'
  <2>1. PICK at \in {"read", "release"} : task' = [task EXCEPT ![g] = Task(@.proto, at)]
    BY <1>15 DEF Reply
  <2>2. task[g].proto \in Protocols \cup {"none"}
    BY <1>1 DEF Tasks
  <2>3. GoesOn(g, Task(task[g].proto, at)) /\ Task(task[g].proto, at).at = at
    BY <1>1, <2>1, <2>2, NewTask
  <2> QED BY <1>3, <1>4, <1>15, <2>1, <2>3, GoesOnType DEF Reply, counters
<1>16. ASSUME NEW g \in Goroutines, Panic(g)
       PROVE  TypeInv'
  <2>1. task[g].proto \in Protocols \cup {"none"}
    BY <1>1 DEF Tasks
  <2>2. GoesOn(g, Task(task[g].proto, "release")) /\ Task(task[g].proto, "release").at = "release"
    BY <1>1, <1>16, <2>1, NewTask DEF Panic
  <2>3. One(Unlogged(g)) \in Nat
    BY DEF One
  <2>4. panics' \in Nat
    BY <1>3, <1>16, <2>3 DEF Panic
  <2> QED BY <1>3, <1>4, <1>16, <2>2, <2>4, GoesOnType DEF Panic
<1>17. ASSUME UNCHANGED <<task, udpSlots, tcpSlots, counters, messages>>, LogTypeOK'
       PROVE  TypeInv'
  <2>1. Busy("udp")' = Busy("udp") /\ Busy("stream")' = Busy("stream")
    BY <1>17 DEF Busy
  <2> QED BY <1>17, <2>1 DEF TypeInv, ServerTypeOK, TaskInv, Unlogged, At, SlotsExact, counters
<1>18. CASE Clock
  <2>1. LogTypeOK'
    BY <1>4, <1>18 DEF Clock, Tick, logVars, LogTypeOK
  <2> QED BY <1>17, <1>18, <2>1 DEF Clock
<1>19. CASE UNCHANGED vars
  BY <1>4, <1>17, <1>19 DEF vars
<1> QED BY <1>5, <1>6, <1>7, <1>8, <1>9, <1>10, <1>11, <1>12, <1>13, <1>14, <1>15, <1>16,
           <1>18, <1>19 DEF Next, Step

\* No variable leaves its type, however many queries come and in which order.
THEOREM ServerTypesCorrect == Spec => []ServerTypeOK
<1>1. TypeInv => ServerTypeOK
  BY DEF TypeInv
<1> QED BY <1>1, TypeInit, TypeStep, PTL DEF Spec

\* Every path out of a goroutine gives its slot back, once, for any number of
\* goroutines and slots (serveUDP, serveStream, handleStreamConn).
THEOREM SlotsAlwaysExact == Spec => []SlotsExact
<1>1. TypeInv => SlotsExact
  BY DEF TypeInv
<1> QED BY <1>1, TypeInit, TypeStep, PTL DEF Spec

-----------------------------------------------------------------------------
(* The counters of queries *)

Pending == {g \in Goroutines : Unlogged(g)}
Answering == {g \in Goroutines : At(g, "answer")}

\* A query being answered is not yet among the cached or the blocked.
CountInv ==
  /\ totalQueries = totalCount + Cardinality(Pending) + panics
  /\ cachedQueries + blockedCount + Cardinality(Answering) <= totalQueries

LEMMA SomeFinite ==
  ASSUME NEW S, S \subseteq Goroutines
  PROVE  IsFiniteSet(S) /\ Cardinality(S) \in Nat
BY ServerAssumption, FS_Subset, FS_CardinalityType

\* g's task changes to t: its query is pending or being answered as t says.
LEMMA Retasked ==
  ASSUME TypeInv, NEW g \in Goroutines, NEW t \in Tasks, task' = [task EXCEPT ![g] = t]
  PROVE  /\ Pending' = IF t.at \in {"answer", "log"} THEN Pending \cup {g} ELSE Pending \ {g}
         /\ Answering' = IF t.at = "answer" THEN Answering \cup {g} ELSE Answering \ {g}
<1>1. task \in [Goroutines -> Tasks]
  BY TaskTypes DEF TypeInv
<1>2. task'[g] = t /\ \A h \in Goroutines \ {g} : task'[h] = task[h]
  BY <1>1
<1> QED BY <1>2 DEF Pending, Answering, Unlogged, At

\* What becomes of the numbers of queries pending and being answered.
Recount(g, t) ==
  /\ Cardinality(Pending') = Cardinality(Pending) + (IF t.at \in {"answer", "log"} THEN 1 ELSE 0)
                              - (IF Unlogged(g) THEN 1 ELSE 0)
  /\ Cardinality(Answering') = Cardinality(Answering) + (IF t.at = "answer" THEN 1 ELSE 0)
                                - (IF At(g, "answer") THEN 1 ELSE 0)
  /\ Cardinality(Pending) \in Nat /\ Cardinality(Answering) \in Nat

LEMMA RetaskedCards ==
  ASSUME TypeInv, NEW g \in Goroutines, NEW t \in Tasks, task' = [task EXCEPT ![g] = t]
  PROVE  Recount(g, t)
<1>1. Pending \subseteq Goroutines /\ Answering \subseteq Goroutines
  BY DEF Pending, Answering
<1>2. /\ IsFiniteSet(Pending) /\ IsFiniteSet(Answering)
      /\ Cardinality(Pending) \in Nat /\ Cardinality(Answering) \in Nat
  BY <1>1, SomeFinite
<1>3. /\ Pending' = IF t.at \in {"answer", "log"} THEN Pending \cup {g} ELSE Pending \ {g}
      /\ Answering' = IF t.at = "answer" THEN Answering \cup {g} ELSE Answering \ {g}
  BY Retasked
<1>4. (g \in Pending <=> Unlogged(g)) /\ (g \in Answering <=> At(g, "answer"))
  BY DEF Pending, Answering
<1>5. /\ Cardinality(Pending \cup {g}) = IF g \in Pending THEN Cardinality(Pending)
                                         ELSE Cardinality(Pending) + 1
      /\ Cardinality(Pending \ {g}) = IF g \in Pending THEN Cardinality(Pending) - 1
                                      ELSE Cardinality(Pending)
  BY <1>2, FS_AddElement, FS_RemoveElement
<1>6. /\ Cardinality(Answering \cup {g}) = IF g \in Answering THEN Cardinality(Answering)
                                           ELSE Cardinality(Answering) + 1
      /\ Cardinality(Answering \ {g}) = IF g \in Answering THEN Cardinality(Answering) - 1
                                        ELSE Cardinality(Answering)
  BY <1>2, FS_AddElement, FS_RemoveElement
<1>7. Cardinality(Pending') = Cardinality(Pending) + (IF t.at \in {"answer", "log"} THEN 1 ELSE 0)
                              - (IF Unlogged(g) THEN 1 ELSE 0)
  <2>1. CASE t.at \in {"answer", "log"}
    BY <1>2, <1>3, <1>4, <1>5, <2>1
  <2>2. CASE t.at \notin {"answer", "log"}
    BY <1>2, <1>3, <1>4, <1>5, <2>2
  <2> QED BY <2>1, <2>2
<1>8. Cardinality(Answering') = Cardinality(Answering) + (IF t.at = "answer" THEN 1 ELSE 0)
                                - (IF At(g, "answer") THEN 1 ELSE 0)
  <2>1. CASE t.at = "answer"
    BY <1>2, <1>3, <1>4, <1>6, <2>1
  <2>2. CASE t.at # "answer"
    BY <1>2, <1>3, <1>4, <1>6, <2>2
  <2> QED BY <2>1, <2>2
<1> QED BY <1>2, <1>7, <1>8 DEF Recount

\* A step that neither counts a query nor logs one, nor touches one in between.
LEMMA IdleCount ==
  ASSUME TypeInv, CountInv, NEW g \in Goroutines, NEW t \in Tasks,
         task' = [task EXCEPT ![g] = t],
         ~Unlogged(g), t.at \notin {"answer", "log"},
         UNCHANGED <<counters, totalCount>>
  PROVE  CountInv'
<1>1. ~At(g, "answer")
  BY DEF Unlogged, At
<1>2. Recount(g, t)
  BY RetaskedCards
<1>3. Cardinality(Pending') = Cardinality(Pending) /\ Cardinality(Answering') = Cardinality(Answering)
  BY <1>1, <1>2 DEF Recount
<1> QED BY <1>3 DEF CountInv, counters

LEMMA CountInit == Init => CountInv
<1> SUFFICES ASSUME Init PROVE CountInv
  OBVIOUS
<1>1. Pending = {} /\ Answering = {}
  BY DEF Init, Pending, Answering, Unlogged, At, NoTask
<1> QED BY <1>1, FS_EmptySet DEF Init, LogInit, CountInv

LEMMA CountStep ==
  ASSUME TypeInv, CountInv, [Next]_vars
  PROVE  CountInv'
<1>1. task \in [Goroutines -> Tasks]
  BY TaskTypes DEF TypeInv
<1>2. /\ totalQueries \in Nat /\ cachedQueries \in Nat /\ blockedCount \in Nat
      /\ panics \in Nat /\ totalCount \in Nat
  BY DEF TypeInv, ServerTypeOK, LogTypeOK
<1>3. ASSUME NEW g \in Goroutines, ServeUDP(g) \/ ServeStream(g) \/ ServeDoH(g)
      PROVE  CountInv'
  <2>1. PICK proto \in Protocols, at \in {"read", "parse"} :
          task' = [task EXCEPT ![g] = Task(proto, at)]
    BY <1>3 DEF ServeUDP, ServeStream, ServeDoH, Protocols
  <2>2. Task(proto, at) \in Tasks /\ Task(proto, at).at = at
    BY NewTask
  <2>3. ~Unlogged(g)
    BY <1>3 DEF ServeUDP, ServeStream, ServeDoH, Unlogged, NoTask
  <2>4. UNCHANGED <<counters, totalCount>>
    BY <1>3 DEF ServeUDP, ServeStream, ServeDoH, logVars
  <2> QED BY <2>1, <2>2, <2>3, <2>4, IdleCount
<1>4. ASSUME NEW g \in Goroutines, ReadMessage(g) \/ EndOfStream(g) \/ Reject(g)
      PROVE  CountInv'
  <2>1. PICK at \in {"parse", "reply", "release"} : task' = [task EXCEPT ![g].at = at]
    BY <1>4 DEF ReadMessage, EndOfStream, Reject, Goto
  <2>2. /\ [task[g] EXCEPT !.at = at] \in Tasks
        /\ [task[g] EXCEPT !.at = at].at = at
        /\ task' = [task EXCEPT ![g] = [task[g] EXCEPT !.at = at]]
    BY <1>1, <2>1 DEF Tasks
  <2>3. ~Unlogged(g)
    BY <1>4 DEF ReadMessage, EndOfStream, Reject, Unlogged, At
  <2>4. UNCHANGED <<counters, totalCount>>
    BY <1>4 DEF ReadMessage, EndOfStream, Reject, logVars
  <2> QED BY <2>2, <2>3, <2>4, IdleCount
<1>5. ASSUME NEW g \in Goroutines, Release(g)
      PROVE  CountInv'
  <2>1. task' = [task EXCEPT ![g] = NoTask] /\ ~Unlogged(g)
    BY <1>5 DEF Release, Unlogged, At
  <2>2. NoTask \in Tasks /\ NoTask.at = "none"
    BY DEF NoTask, Tasks
  <2>3. UNCHANGED <<counters, totalCount>>
    BY <1>5 DEF Release, logVars
  <2> QED BY <2>1, <2>2, <2>3, IdleCount
<1>6. ASSUME NEW g \in Goroutines, Reply(g)
      PROVE  CountInv'
  <2>1. PICK at \in {"read", "release"} : task' = [task EXCEPT ![g] = Task(@.proto, at)]
    BY <1>6 DEF Reply
  <2>2. task[g].proto \in Protocols \cup {"none"}
    BY <1>1 DEF Tasks
  <2>3. /\ task' = [task EXCEPT ![g] = Task(task[g].proto, at)]
        /\ Task(task[g].proto, at) \in Tasks /\ Task(task[g].proto, at).at = at
    BY <1>1, <2>1, <2>2, NewTask
  <2>4. ~Unlogged(g) /\ UNCHANGED <<counters, totalCount>>
    BY <1>6 DEF Reply, Unlogged, At, logVars
  <2> QED BY <2>3, <2>4, IdleCount
<1>7. ASSUME NEW g \in Goroutines, Accept(g)
      PROVE  CountInv'
  <2>1. PICK d \in Domains : task' = [task EXCEPT ![g].at = "answer", ![g].domain = d]
    BY <1>7 DEF Accept
  <2> DEFINE t == [task[g] EXCEPT !.at = "answer", !.domain = d]
  <2>2. t \in Tasks /\ t.at = "answer" /\ task' = [task EXCEPT ![g] = t]
    BY <1>1, <2>1 DEF Tasks
  <2> HIDE DEF t
  <2>3. Recount(g, t)
    BY <2>2, RetaskedCards
  <2>4. ~Unlogged(g) /\ ~At(g, "answer")
    BY <1>7 DEF Accept, Unlogged, At
  <2>5. /\ Cardinality(Pending') = Cardinality(Pending) + 1
        /\ Cardinality(Answering') = Cardinality(Answering) + 1
        /\ Cardinality(Pending) \in Nat /\ Cardinality(Answering) \in Nat
    BY <2>2, <2>3, <2>4 DEF Recount
  <2>6. /\ totalQueries' = totalQueries + 1
        /\ UNCHANGED <<totalCount, panics, cachedQueries, blockedCount>>
    BY <1>7 DEF Accept, logVars
  <2> QED BY <1>2, <2>5, <2>6 DEF CountInv
<1>8. ASSUME NEW g \in Goroutines, Answer(g)
      PROVE  CountInv'
  <2>1. PICK s \in Statuses :
          /\ task' = [task EXCEPT ![g].at = "log", ![g].status = s]
          /\ blockedCount' = blockedCount + One(s = "blocked")
          /\ cachedQueries' = cachedQueries + One(s = "cached")
    BY <1>8, LogAssumption DEF Answer
  <2> DEFINE t == [task[g] EXCEPT !.at = "log", !.status = s]
  <2>2. t \in Tasks /\ t.at = "log" /\ task' = [task EXCEPT ![g] = t]
    BY <1>1, <2>1 DEF Tasks
  <2> HIDE DEF t
  <2>3. Recount(g, t)
    BY <2>2, RetaskedCards
  <2>4. Unlogged(g) /\ At(g, "answer")
    BY <1>8 DEF Answer, Unlogged, At
  <2>5. /\ Cardinality(Pending') = Cardinality(Pending)
        /\ Cardinality(Answering') = Cardinality(Answering) - 1
        /\ Cardinality(Pending) \in Nat /\ Cardinality(Answering) \in Nat
    BY <2>2, <2>3, <2>4 DEF Recount
  <2>6. UNCHANGED <<totalQueries, totalCount, panics>>
    BY <1>8 DEF Answer, logVars
  <2>7. One(s = "blocked") \in Nat /\ One(s = "cached") \in Nat
        /\ One(s = "blocked") + One(s = "cached") <= 1
    BY DEF One
  <2> QED BY <1>2, <2>1, <2>5, <2>6, <2>7 DEF CountInv
<1>9. ASSUME NEW g \in Goroutines, NEW t \in Tasks, task' = [task EXCEPT ![g] = t],
             t.at \notin {"answer", "log"},
             UNCHANGED <<totalQueries, cachedQueries, blockedCount>>
      PROVE  /\ Cardinality(Pending) \in Nat
             /\ Unlogged(g) => Cardinality(Pending') = Cardinality(Pending) - 1
             /\ ~Unlogged(g) => Cardinality(Pending') = Cardinality(Pending)
             /\ cachedQueries' + blockedCount' + Cardinality(Answering') <= totalQueries'
  <2>1. Recount(g, t)
    BY <1>9, RetaskedCards
  <2>2. /\ Cardinality(Answering') = Cardinality(Answering) - (IF At(g, "answer") THEN 1 ELSE 0)
        /\ Cardinality(Answering) \in Nat
    BY <1>9, <2>1 DEF Recount
  <2>3. cachedQueries' + blockedCount' + Cardinality(Answering') <= totalQueries'
    BY <1>2, <1>9, <2>2 DEF CountInv
  <2> QED BY <1>9, <2>1, <2>3 DEF Recount
<1>10. ASSUME NEW g \in Goroutines, Log(g)
       PROVE  CountInv'
  <2>1. task[g].proto \in Protocols \cup {"none"}
    BY <1>1 DEF Tasks
  <2>2. /\ task' = [task EXCEPT ![g] = Task(task[g].proto, "reply")]
        /\ Task(task[g].proto, "reply") \in Tasks
        /\ Task(task[g].proto, "reply").at = "reply"
    BY <1>1, <1>10, <2>1, NewTask DEF Log
  <2>3. Unlogged(g)
    BY <1>10 DEF Log, Unlogged, At
  <2>4. /\ totalCount' = totalCount + 1 /\ panics' = panics
        /\ UNCHANGED <<totalQueries, cachedQueries, blockedCount>>
    BY <1>10 DEF Log, Add, counters
  <2>5. /\ Cardinality(Pending) \in Nat /\ Cardinality(Pending') = Cardinality(Pending) - 1
        /\ cachedQueries' + blockedCount' + Cardinality(Answering') <= totalQueries'
    BY <1>9, <2>2, <2>3, <2>4
  <2>6. totalQueries' = totalCount' + Cardinality(Pending') + panics'
    BY <1>2, <2>4, <2>5 DEF CountInv
  <2> QED BY <2>5, <2>6 DEF CountInv
<1>11. ASSUME NEW g \in Goroutines, Panic(g)
       PROVE  CountInv'
  <2>1. task[g].proto \in Protocols \cup {"none"}
    BY <1>1 DEF Tasks
  <2>2. /\ task' = [task EXCEPT ![g] = Task(task[g].proto, "release")]
        /\ Task(task[g].proto, "release") \in Tasks
        /\ Task(task[g].proto, "release").at = "release"
    BY <1>1, <1>11, <2>1, NewTask DEF Panic
  <2>3. /\ totalCount' = totalCount
        /\ UNCHANGED <<totalQueries, cachedQueries, blockedCount>>
    BY <1>11 DEF Panic, logVars
  <2>4. /\ Cardinality(Pending) \in Nat
        /\ Unlogged(g) => Cardinality(Pending') = Cardinality(Pending) - 1
        /\ ~Unlogged(g) => Cardinality(Pending') = Cardinality(Pending)
        /\ cachedQueries' + blockedCount' + Cardinality(Answering') <= totalQueries'
    BY <1>9, <2>2, <2>3
  <2>5. CASE Unlogged(g)
    <3>1. panics' = panics + 1 /\ Cardinality(Pending') = Cardinality(Pending) - 1
      BY <1>11, <2>4, <2>5 DEF Panic, One
    <3>2. totalQueries' = totalCount' + Cardinality(Pending') + panics'
      BY <1>2, <2>3, <2>4, <3>1 DEF CountInv
    <3> QED BY <2>4, <3>2 DEF CountInv
  <2>6. CASE ~Unlogged(g)
    <3>1. panics' = panics /\ Cardinality(Pending') = Cardinality(Pending)
      BY <1>2, <1>11, <2>4, <2>6 DEF Panic, One
    <3>2. totalQueries' = totalCount' + Cardinality(Pending') + panics'
      BY <1>2, <2>3, <2>4, <3>1 DEF CountInv
    <3> QED BY <2>4, <3>2 DEF CountInv
  <2> QED BY <2>5, <2>6
<1>12. ASSUME UNCHANGED <<task, counters, totalCount>>
       PROVE  CountInv'
  BY <1>12 DEF CountInv, counters, Pending, Answering, Unlogged, At
<1>13. CASE Clock
  BY <1>12, <1>13 DEF Clock, Tick, logVars
<1>14. CASE UNCHANGED vars
  BY <1>12, <1>14 DEF vars, logVars
<1> QED BY <1>3, <1>4, <1>5, <1>6, <1>7, <1>8, <1>10, <1>11, <1>13, <1>14 DEF Next, Step

\* Every query counted is in the log, on the way there or lost in a panic, and
\* none counts twice among the cached and the blocked (handleDNSMessage, Add).
THEOREM CountsAlwaysAgree == Spec => []CountsAgree
<1>1. TypeInv /\ CountInv => CountsAgree
  <2> SUFFICES ASSUME TypeInv, CountInv PROVE CountsAgree
    OBVIOUS
  <2>1. Cardinality(Answering) \in Nat
    BY SomeFinite DEF Answering
  <2>2. /\ totalQueries \in Nat /\ cachedQueries \in Nat /\ blockedCount \in Nat
    BY DEF TypeInv, ServerTypeOK
  <2> QED BY <2>1, <2>2 DEF CountInv, CountsAgree, Pending
<1> QED BY <1>1, TypeInit, TypeStep, CountInit, CountStep, PTL DEF Spec

-----------------------------------------------------------------------------
(* The last queries *)

Kept == IF totalCount > MaxSize THEN MaxSize ELSE totalCount

Rows == Entry \cup {NoEntry}

LEMMA RecentIs ==
  ASSUME LogTypeOK
  PROVE  /\ Kept \in 0 .. MaxSize
         /\ Recent(MaxSize) = [i \in 1 .. Kept |-> entries[(writeIdx + MaxSize - i) % MaxSize]]
         /\ Recent(MaxSize) \in Seq(Rows)
         /\ Len(Recent(MaxSize)) = Kept
         /\ DOMAIN Recent(MaxSize) = 1 .. Kept
<1>1. Kept \in 0 .. MaxSize
  BY LogAssumption DEF LogTypeOK, Kept
<1>2. (IF MaxSize > Kept THEN Kept ELSE MaxSize) = Kept
  BY <1>1, LogAssumption
<1>3. Recent(MaxSize) = [i \in 1 .. Kept |-> entries[(writeIdx + MaxSize - i) % MaxSize]]
  BY <1>2 DEF Recent, Kept
<1>4. ASSUME NEW i \in 1 .. Kept
      PROVE  entries[(writeIdx + MaxSize - i) % MaxSize] \in Entry \cup {NoEntry}
  <2>1. i \in 1 .. MaxSize
    BY <1>1, LogAssumption
  <2>2. (writeIdx + MaxSize - i) % MaxSize \in 0 .. MaxSize - 1
    BY <2>1, InRing, LogAssumption DEF LogTypeOK, Slots
  <2> QED BY <2>2 DEF LogTypeOK, Slots
<1>5. Recent(MaxSize) \in [1 .. Kept -> Rows]
  BY <1>3, <1>4 DEF Rows
<1>6. Kept \in Nat
  BY <1>1, LogAssumption
<1>7. Recent(MaxSize) \in Seq(Rows)
  BY <1>5, <1>6, SeqDef
<1>8. DOMAIN Recent(MaxSize) = 1 .. Kept
  BY <1>5
<1>9. Len(Recent(MaxSize)) = Kept
  BY <1>6, <1>7, <1>8, LenProperties
<1> QED BY <1>1, <1>3, <1>7, <1>8, <1>9

\* What RecentLog shows after one more entry.
LEMMA NewestIs ==
  ASSUME NEW S, NEW e \in S, NEW s \in Seq(S), Len(s) <= MaxSize,
         NEW n, n = IF Len(s) + 1 > MaxSize THEN MaxSize ELSE Len(s) + 1
  PROVE  Shown!Newest(<<e>> \o s) = [i \in 1 .. n |-> IF i = 1 THEN e ELSE s[i - 1]]
<1> DEFINE t == <<e>> \o s
<1>1. Len(s) \in Nat /\ <<e>> \in Seq(S) /\ Len(<<e>>) = 1
  OBVIOUS
<1>2. t \in Seq(S) /\ Len(t) = 1 + Len(s)
  BY <1>1
<1>3. \A i \in 1 .. Len(t) : t[i] = IF i = 1 THEN e ELSE s[i - 1]
  BY <1>1, <1>2
<1> HIDE DEF t
<1>4. (IF Len(t) < MaxSize THEN Len(t) ELSE MaxSize) = n
  BY <1>1, <1>2, LogAssumption
<1>5. Shown!Newest(t) = SubSeq(t, 1, n)
  BY <1>4 DEF Shown!Newest
<1>6. n \in 1 .. Len(t)
  BY <1>1, <1>2, LogAssumption
<1>7. SubSeq(t, 1, n) = [i \in 1 .. n |-> t[i]]
  BY <1>2, <1>6
<1>8. SubSeq(t, 1, n) = [i \in 1 .. n |-> IF i = 1 THEN e ELSE s[i - 1]]
  BY <1>1, <1>2, <1>3, <1>6, <1>7
<1> QED BY <1>5, <1>8 DEF t

\* Adding to the ring shows what RecentLog shows.
LEMMA AddShown ==
  ASSUME LogTypeOK, LogTypeOK', NEW e \in Entry, Add(e)
  PROVE  Recent(MaxSize)' = Shown!Newest(<<e>> \o Recent(MaxSize))
<1> DEFINE M == MaxSize
           r == Recent(MaxSize)
<1>1. M \in Nat \ {0} /\ writeIdx \in 0 .. M - 1 /\ totalCount \in Nat
  BY LogAssumption DEF LogTypeOK, Slots
<1>2. /\ entries' = [entries EXCEPT ![writeIdx] = e]
      /\ writeIdx' = Following(writeIdx, M)
      /\ totalCount' = totalCount + 1
  BY DEF Add
<1>3. /\ Kept \in 0 .. M /\ r \in Seq(Rows) /\ Len(r) = Kept
      /\ r = [i \in 1 .. Kept |-> entries[(writeIdx + M - i) % M]]
  BY RecentIs
<1>4. /\ Kept' \in 0 .. M
      /\ r' = [i \in 1 .. Kept' |-> entries'[(writeIdx' + M - i) % M]]
  <2>1. (LogTypeOK => /\ Kept \in 0 .. MaxSize
                      /\ Recent(MaxSize) = [i \in 1 .. Kept |-> entries[(writeIdx + MaxSize - i) % MaxSize]])'
    BY RecentIs, PTL
  <2> QED BY <2>1
<1>5. Kept' = IF Len(r) + 1 > M THEN M ELSE Len(r) + 1
  BY <1>1, <1>2, <1>3 DEF Kept
<1>6. Shown!Newest(<<e>> \o r) = [i \in 1 .. Kept' |-> IF i = 1 THEN e ELSE r[i - 1]]
  <2>1. e \in Rows /\ Len(r) <= MaxSize
    BY <1>1, <1>3 DEF Rows
  <2>2. PICK s \in Seq(Rows) : s = r
    BY <1>3
  <2>3. PICK n : n = Kept'
    OBVIOUS
  <2>4. Shown!Newest(<<e>> \o s) = [i \in 1 .. n |-> IF i = 1 THEN e ELSE s[i - 1]]
    BY <1>5, <2>1, <2>2, <2>3, NewestIs
  <2> QED BY <2>2, <2>3, <2>4
<1>7. ASSUME NEW i \in 1 .. Kept'
      PROVE  entries'[(writeIdx' + M - i) % M] = IF i = 1 THEN e ELSE r[i - 1]
  <2>1. CASE i = 1
    <3>1. (writeIdx' + M - i) % M = writeIdx
      BY <1>1, <1>2, <2>1, JustWritten
    <3> QED BY <1>1, <1>2, <2>1, <3>1 DEF LogTypeOK, Slots
  <2>2. CASE i # 1
    <3>1. i \in 2 .. M /\ i - 1 \in 1 .. Kept
      BY <1>1, <1>3, <1>4, <1>5, <2>2
    <3>2. /\ (writeIdx' + M - i) % M = (writeIdx + M - (i - 1)) % M
          /\ (writeIdx' + M - i) % M # writeIdx
      BY <1>1, <1>2, <3>1, Behind
    <3>3. i - 1 \in 1 .. M
      BY <1>1, <3>1
    <3>4. (writeIdx + M - (i - 1)) % M \in 0 .. M - 1
      BY <1>1, <3>3, InRing
    <3>5. entries'[(writeIdx' + M - i) % M] = entries[(writeIdx + M - (i - 1)) % M]
      BY <1>2, <3>2, <3>4 DEF LogTypeOK, Slots
    <3>6. r[i - 1] = entries[(writeIdx + M - (i - 1)) % M]
      BY <1>3, <3>1
    <3> QED BY <2>2, <3>5, <3>6
  <2> QED BY <2>1, <2>2
<1> QED BY <1>4, <1>6, <1>7

\* The log changes when a query is put into it and never else.
LEMMA OnlyLogAdds ==
  ASSUME [Next]_vars, ~ \E g \in Goroutines : Log(g)
  PROVE  UNCHANGED logVars
BY DEF Next, Step, vars, Clock, Tick, ServeUDP, ServeStream, ServeDoH, ReadMessage,
       EndOfStream, Release, Reject, Accept, Answer, Reply, Panic

LEMMA ShownStep ==
  ASSUME TypeInv, TypeInv', [Next]_vars
  PROVE  [Shown!Next]_(Shown!vars)
<1>1. LogTypeOK /\ LogTypeOK'
  BY DEF TypeInv, ServerTypeOK
<1>2. ASSUME NEW g \in Goroutines, Log(g)
      PROVE  Shown!Next
  <2> DEFINE d == task[g].domain
             status == task[g].status
  <2>1. d \in Domains /\ status \in Statuses
    BY <1>2 DEF TypeInv, TaskInv, Unlogged, At, Log
  <2>2. [domain |-> d, status |-> status] \in Entry /\ Add([domain |-> d, status |-> status])
    BY <1>2, <2>1 DEF Log, Entry
  <2>3. Recent(MaxSize)' = Shown!Newest(<<[domain |-> d, status |-> status]>> \o Recent(MaxSize))
    BY <1>1, <2>2, AddShown
  <2>4. asked' = [asked EXCEPT ![d] = @ + 1]
    BY <2>2 DEF Add
  <2>5. Shown!Record(d, status)
    BY <2>3, <2>4 DEF Shown!Record
  <2> QED BY <2>1, <2>5 DEF Shown!Next
<1>3. ASSUME UNCHANGED logVars
      PROVE  UNCHANGED Shown!vars
  BY <1>3 DEF logVars, Shown!vars, Recent
<1>4. CASE \E g \in Goroutines : Log(g)
  BY <1>2, <1>4
<1>5. CASE ~ \E g \in Goroutines : Log(g)
  <2>1. UNCHANGED logVars
    BY <1>5, OnlyLogAdds
  <2> QED BY <1>3, <2>1
<1> QED BY <1>4, <1>5

\* The ring, with its slots written over again and again, shows what RecentLog
\* promises: the last entries, the newest first (Add, Recent).
THEOREM LogKeepsPromise == Spec => ShowsRecent
<1>1. Init => Shown!Init
  <2> SUFFICES ASSUME Init PROVE Shown!Init
    OBVIOUS
  <2>1. totalCount = 0 /\ asked = [d \in Domains |-> 0]
    BY DEF Init, LogInit
  <2>2. Kept = 0
    BY <2>1, LogAssumption DEF Kept
  <2>3. LogTypeOK
    BY TypeInit DEF TypeInv, ServerTypeOK
  <2>4. Recent(MaxSize) \in Seq(Rows) /\ Len(Recent(MaxSize)) = 0
    BY <2>2, <2>3, RecentIs
  <2>5. Recent(MaxSize) = <<>>
    BY <2>4, EmptySeq
  <2> QED BY <2>1, <2>5 DEF Shown!Init
<1>2. TypeInv /\ TypeInv' /\ [Next]_vars => [Shown!Next]_(Shown!vars)
  BY ShownStep
<1>3. Spec => []TypeInv
  BY TypeInit, TypeStep, PTL DEF Spec
<1> QED BY <1>1, <1>2, <1>3, PTL DEF Spec, ShowsRecent, Shown!Spec

-----------------------------------------------------------------------------
(* The counters by domain *)

AskedFor == {d \in Domains : asked[d] > 0}

\* Only domains that were asked for are counted; the rest is CountsHonest.
TrackInv ==
  /\ DOMAIN domainCounts \subseteq AskedFor
  /\ domainCounts \in [DOMAIN domainCounts -> Nat]
  /\ IsFiniteSet(AskedFor) /\ IsFiniteSet(DOMAIN domainCounts)
  /\ CountsHonest

\* Pruning drops domains and changes no number, and makes room for one more;
\* it does nothing while there is room.
LEMMA PrunedIs ==
  ASSUME NEW m, IsFiniteSet(DOMAIN m), m \in [DOMAIN m -> Nat]
  PROVE  /\ DOMAIN Pruned(m) \subseteq DOMAIN m
         /\ \A d \in DOMAIN Pruned(m) : Pruned(m)[d] = m[d]
         /\ IsFiniteSet(DOMAIN Pruned(m))
         /\ Cardinality(DOMAIN Pruned(m)) <= MaxTracked
         /\ Cardinality(DOMAIN Pruned(m)) \in Nat
         /\ Cardinality(DOMAIN m) <= MaxTracked => Pruned(m) = m
         /\ Pruned(m) \in [DOMAIN Pruned(m) -> Nat]
<1> DEFINE often == {x \in DOMAIN m : m[x] > 1}
<1>1. IsFiniteSet(often) /\ Cardinality(often) \in Nat /\ Cardinality(DOMAIN m) \in Nat
  BY FS_Subset, FS_CardinalityType
<1>2. CASE Cardinality(DOMAIN m) <= MaxTracked
  <2>1. Pruned(m) = m
    BY <1>2 DEF Pruned
  <2> QED BY <1>1, <1>2, <2>1
<1>3. CASE ~(Cardinality(DOMAIN m) <= MaxTracked) /\ Cardinality(often) > MaxTracked
  <2>1. Pruned(m) = NoCounts
    BY <1>3 DEF Pruned
  <2>2. DOMAIN NoCounts = {} /\ NoCounts \in [{} -> Nat]
    BY DEF NoCounts
  <2> QED BY <1>3, <2>1, <2>2, FS_EmptySet, LogAssumption
<1>4. CASE ~(Cardinality(DOMAIN m) <= MaxTracked) /\ ~(Cardinality(often) > MaxTracked)
  <2>1. Pruned(m) = [d \in often |-> m[d]]
    BY <1>4 DEF Pruned
  <2>2. /\ DOMAIN Pruned(m) = often /\ \A d \in often : Pruned(m)[d] = m[d]
        /\ Pruned(m) \in [often -> Nat]
    BY <2>1
  <2>3. Cardinality(often) <= MaxTracked
    BY <1>1, <1>4, LogAssumption
  <2> HIDE DEF often
  <2>4. often \subseteq DOMAIN m
    BY DEF often
  <2> QED BY <1>1, <1>4, <2>2, <2>3, <2>4
<1> QED BY <1>2, <1>3, <1>4

\* Counting a domain adds one to its number and leaves the others.
OneMore(f, m, d) ==
  /\ DOMAIN f = DOMAIN m \cup {d}
  /\ f \in [DOMAIN f -> Nat]
  /\ \A x : Count(f, x) = Count(m, x) + (IF x = d THEN 1 ELSE 0)
  /\ \A x : Count(m, x) \in Nat

LEMMA CountedIs ==
  ASSUME NEW m, m \in [DOMAIN m -> Nat], NEW d
  PROVE  OneMore(Counted(m, d), m, d)
<1>1. DOMAIN Counted(m, d) = DOMAIN m \cup {d}
  BY DEF Counted
<1>2. ASSUME NEW x
      PROVE  Count(m, x) \in Nat
  BY DEF Count
<1>3. ASSUME NEW x \in DOMAIN m \cup {d}
      PROVE  /\ Counted(m, d)[x] = Count(m, x) + (IF x = d THEN 1 ELSE 0)
             /\ Counted(m, d)[x] \in Nat
  <2>1. Counted(m, d)[x] = Count(m, x) + (IF x = d THEN 1 ELSE 0)
    BY DEF Counted, One
  <2> QED BY <1>2, <2>1
<1>4. Counted(m, d) \in [DOMAIN Counted(m, d) -> Nat]
  BY <1>1, <1>3 DEF Counted
<1>5. ASSUME NEW x
      PROVE  Count(Counted(m, d), x) = Count(m, x) + (IF x = d THEN 1 ELSE 0)
  <2>1. CASE x \in DOMAIN m \cup {d}
    BY <1>1, <1>3, <2>1 DEF Count
  <2>2. CASE x \notin DOMAIN m \cup {d}
    BY <1>1, <2>2 DEF Count
  <2> QED BY <2>1, <2>2
<1> QED BY <1>1, <1>2, <1>4, <1>5 DEF OneMore

LEMMA TrackInit == Init => TrackInv
<1> SUFFICES ASSUME Init PROVE TrackInv
  OBVIOUS
<1>1. domainCounts = NoCounts /\ asked = [d \in Domains |-> 0]
  BY DEF Init, LogInit
<1>2. DOMAIN domainCounts = {} /\ AskedFor = {}
  BY <1>1 DEF NoCounts, AskedFor
<1>3. \A d \in Domains : Count(domainCounts, d) = 0 /\ asked[d] = 0
  BY <1>1, <1>2 DEF Count
<1>4. domainCounts \in [DOMAIN domainCounts -> Nat]
  BY <1>1 DEF NoCounts
<1>5. CountsHonest
  BY <1>2, <1>3, FS_EmptySet, LogAssumption DEF CountsHonest
<1> QED BY <1>2, <1>4, <1>5, FS_EmptySet DEF TrackInv

LEMMA AddTracked ==
  ASSUME LogTypeOK, TrackInv, NEW e \in Entry, Add(e)
  PROVE  TrackInv'
<1> DEFINE m == domainCounts
           q == Pruned(m)
           x == e.domain
<1>1. /\ x \in Domains
      /\ m' = Counted(q, x)
      /\ asked' = [asked EXCEPT ![x] = @ + 1]
      /\ asked \in [Domains -> Nat]
  BY DEF Add, Entry, LogTypeOK
<1>2. /\ DOMAIN m \subseteq AskedFor
      /\ m \in [DOMAIN m -> Nat]
      /\ IsFiniteSet(AskedFor) /\ IsFiniteSet(DOMAIN m)
      /\ CountsHonest
  BY DEF TrackInv
<1>3. /\ DOMAIN q \subseteq DOMAIN m
      /\ \A d \in DOMAIN q : q[d] = m[d]
      /\ IsFiniteSet(DOMAIN q)
      /\ Cardinality(DOMAIN q) <= MaxTracked
      /\ Cardinality(DOMAIN q) \in Nat
      /\ Cardinality(DOMAIN m) <= MaxTracked => q = m
      /\ q \in [DOMAIN q -> Nat]
  BY <1>2, PrunedIs
<1> HIDE DEF m, q, x
<1>4. /\ DOMAIN m' = DOMAIN q \cup {x}
      /\ m' \in [DOMAIN m' -> Nat]
      /\ \A d : Count(m', d) = Count(q, d) + (IF d = x THEN 1 ELSE 0)
      /\ \A d : Count(q, d) \in Nat
  <2>1. OneMore(Counted(q, x), q, x)
    BY <1>3, CountedIs
  <2> QED BY <1>1, <2>1 DEF OneMore
<1>5. \A d \in Domains : asked'[d] = asked[d] + (IF d = x THEN 1 ELSE 0) /\ asked[d] \in Nat
  BY <1>1
<1>6. AskedFor' = AskedFor \cup {x}
  BY <1>1, <1>5 DEF AskedFor
<1>7. /\ IsFiniteSet(AskedFor') /\ IsFiniteSet(DOMAIN m')
      /\ DOMAIN m' \subseteq AskedFor'
  <2>1. IsFiniteSet(AskedFor \cup {x}) /\ IsFiniteSet(DOMAIN q \cup {x})
    BY <1>2, <1>3, FS_AddElement
  <2>2. DOMAIN q \cup {x} \subseteq AskedFor \cup {x}
    BY <1>2, <1>3
  <2> QED BY <1>4, <1>6, <2>1, <2>2
<1>8. Cardinality(DOMAIN m') <= MaxTracked + 1
  <2>1. Cardinality(DOMAIN m') \in {Cardinality(DOMAIN q), Cardinality(DOMAIN q) + 1}
    BY <1>3, <1>4, FS_AddElement
  <2> QED BY <1>3, <2>1, LogAssumption
<1>9. ASSUME NEW d \in Domains
       PROVE  Count(m', d) <= asked'[d]
  <2>1. Count(m, d) <= asked[d] /\ Count(m, d) \in Nat
    BY <1>2 DEF CountsHonest, m, Count
  <2>2. Count(q, d) <= Count(m, d)
    BY <1>2, <1>3, <2>1 DEF Count
  <2> QED BY <1>4, <1>5, <2>1, <2>2
<1>10. ASSUME Cardinality(AskedFor') <= MaxTracked, NEW d \in Domains
       PROVE  Count(m', d) = asked'[d]
  <2>1. /\ Cardinality(AskedFor) <= Cardinality(AskedFor')
        /\ Cardinality(DOMAIN m) <= Cardinality(AskedFor)
    BY <1>2, <1>6, <1>7, FS_Subset
  <2>2. /\ Cardinality(DOMAIN m) \in Nat /\ Cardinality(AskedFor) \in Nat
        /\ Cardinality(AskedFor') \in Nat
    BY <1>2, <1>7, FS_CardinalityType
  <2>3. Cardinality(AskedFor) <= MaxTracked /\ Cardinality(DOMAIN m) <= MaxTracked
    BY <1>10, <2>1, <2>2, LogAssumption
  <2>4. q = m
    BY <1>3, <2>3
  <2>5. Count(m, d) = asked[d]
    BY <1>2, <2>3 DEF CountsHonest, AskedFor, m
  <2> QED BY <1>4, <1>5, <2>4, <2>5
<1>11. CountsHonest'
  BY <1>8, <1>9, <1>10 DEF CountsHonest, AskedFor, m
<1> QED BY <1>4, <1>7, <1>11 DEF TrackInv, m

LEMMA TrackStep ==
  ASSUME TypeInv, TrackInv, [Next]_vars
  PROVE  TrackInv'
<1>1. ASSUME NEW g \in Goroutines, Log(g)
      PROVE  TrackInv'
  <2>1. task[g].domain \in Domains /\ task[g].status \in Statuses
    BY <1>1 DEF TypeInv, TaskInv, Unlogged, At, Log
  <2>2. PICK e \in Entry : Add(e)
    BY <1>1, <2>1 DEF Log, Entry
  <2> QED BY <2>2, AddTracked DEF TypeInv, ServerTypeOK
<1>2. CASE ~ \E g \in Goroutines : Log(g)
  <2>1. UNCHANGED logVars
    BY <1>2, OnlyLogAdds
  <2> QED BY <2>1 DEF logVars, TrackInv, AskedFor, CountsHonest
<1> QED BY <1>1, <1>2

\* The counters by domain stay few, never say more than was asked, and are
\* exact while there are no more domains than may be tracked (pruneCounts).
THEOREM CountsAlwaysHonest == Spec => []CountsHonest
<1>1. TrackInv => CountsHonest
  BY DEF TrackInv
<1> QED BY <1>1, TypeInit, TypeStep, TrackInit, TrackStep, PTL DEF Spec

-----------------------------------------------------------------------------
(* The chart *)

\* The point put into the ring i points ago.
Past(i) == timeSeries[(tsWriteIdx + Seconds - i) % Seconds]

\* The point of t is in the ring, or too old for the chart.
Shows(t) == \E i \in 1 .. Seconds : Past(i).t = t /\ Past(i).queries = Count(seen, t)
Gone(t) == t + Seconds <= currentPoint.t

\* The points are of different seconds, the further back the older, and one
\* that is i points back is at least i seconds older than the current one: so
\* the point that is overwritten next has left the chart.
ChartInv ==
  /\ now > 0 /\ currentPoint.t <= now
  /\ \A i \in 1 .. Seconds : Past(i).t > 0 => Past(i).t + i <= currentPoint.t
  /\ \A i, j \in 1 .. Seconds : i < j /\ Past(j).t > 0 => Past(j).t < Past(i).t
  /\ seen \in [DOMAIN seen -> Nat]
  /\ currentPoint.t > 0 => currentPoint.queries = Count(seen, currentPoint.t)
  /\ \A t \in Nat \ {0} : Count(seen, t) > 0
       => t = currentPoint.t \/ (t < currentPoint.t /\ (Gone(t) \/ Shows(t)))

LEMMA PastType ==
  ASSUME LogTypeOK, NEW i \in 1 .. Seconds
  PROVE  Past(i) \in Points
<1>1. (tsWriteIdx + Seconds - i) % Seconds \in 0 .. Seconds - 1
  BY InRing, LogAssumption DEF LogTypeOK
<1> QED BY <1>1 DEF Past, LogTypeOK

\* Every slot is some points back.
LEMMA Reached ==
  ASSUME NEW N \in Nat \ {0}, NEW w \in 0 .. N - 1, NEW k \in 0 .. N - 1
  PROVE  \E i \in 1 .. N : (w + N - i) % N = k
<1>1. ASSUME NEW x \in 0 .. N - 1
      PROVE  x % N = x /\ (x + N) % N = x
  OBVIOUS
<1>2. CASE k < w
  <2>1. w - k \in 1 .. N /\ w + N - (w - k) = k + N
    BY <1>2
  <2>2. (w + N - (w - k)) % N = k
    BY <1>1, <2>1
  <2> QED BY <2>1, <2>2
<1>3. CASE k >= w
  <2>1. w + N - k \in 1 .. N /\ w + N - (w + N - k) = k
    BY <1>3
  <2>2. (w + N - (w + N - k)) % N = k
    BY <1>1, <2>1
  <2> QED BY <2>1, <2>2
<1> QED BY <1>2, <1>3

LEMMA ChartInit == Init => ChartInv
<1> SUFFICES ASSUME Init PROVE ChartInv
  OBVIOUS
<1>1. LogTypeOK
  BY TypeInit DEF TypeInv, ServerTypeOK
<1>2. /\ timeSeries = [i \in 0 .. Seconds - 1 |-> Zero] /\ currentPoint = Zero /\ now = 1
      /\ seen = NoCounts /\ Zero.t = 0 /\ tsWriteIdx \in 0 .. Seconds - 1
  BY <1>1 DEF Init, LogInit, Zero, LogTypeOK
<1>3. \A i \in 1 .. Seconds : Past(i).t = 0
  BY <1>2, InRing, LogAssumption DEF Past
<1>4. /\ \A t : Count(seen, t) = 0
      /\ seen \in [DOMAIN seen -> Nat]
  BY <1>2 DEF Count, NoCounts
<1> QED BY <1>2, <1>3, <1>4 DEF ChartInv

\* A second goes by.
LEMMA TickChart ==
  ASSUME LogTypeOK, ChartInv, now' = now \/ now' = now + 1, UNCHANGED logVars
  PROVE  ChartInv'
<1>1. UNCHANGED <<timeSeries, tsWriteIdx, currentPoint, seen>>
  BY DEF logVars
<1>2. /\ \A i : Past(i)' = Past(i)
      /\ \A t : (Gone(t)' <=> Gone(t)) /\ (Shows(t)' <=> Shows(t))
  BY <1>1 DEF Past, Gone, Shows
<1>3. now' > 0 /\ currentPoint.t <= now'
  BY DEF ChartInv, LogTypeOK, Points
<1> QED BY <1>1, <1>2, <1>3 DEF ChartInv

\* A query of a second that has its point.
LEMMA SameSecond ==
  ASSUME LogTypeOK, ChartInv, NEW e \in Entry, Add(e), SecondGoesOn
  PROVE  ChartInv'
<1>1. /\ currentPoint.t = now /\ now \in Nat /\ now > 0 /\ currentPoint.queries \in Nat
  BY DEF SecondGoesOn, ChartInv, LogTypeOK, Points
<1>2. /\ currentPoint'.t = now /\ currentPoint'.queries = currentPoint.queries + 1
      /\ UNCHANGED <<timeSeries, tsWriteIdx, now>>
      /\ seen' = Counted(seen, now)
  BY <1>1 DEF Add, SecondGoesOn, LogTypeOK, Points
<1>3. OneMore(Counted(seen, now), seen, now)
  BY CountedIs DEF ChartInv
<1>4. /\ seen' \in [DOMAIN seen' -> Nat]
      /\ Count(seen', now) = Count(seen, now) + 1
      /\ \A t : t # now => Count(seen', t) = Count(seen, t)
  BY <1>2, <1>3 DEF OneMore
<1>5. \A i : Past(i)' = Past(i)
  BY <1>2 DEF Past
<1>6. currentPoint'.queries = Count(seen', now)
  BY <1>1, <1>2, <1>4 DEF ChartInv
<1>7. ASSUME NEW t \in Nat \ {0}, Count(seen', t) > 0
      PROVE  t = now \/ (t < now /\ (Gone(t)' \/ Shows(t)'))
  <2>1. CASE t = now
    BY <2>1
  <2>2. CASE t # now
    <3>1. Count(seen', t) = Count(seen, t)
      BY <1>4, <2>2
    <3>2. t < now /\ (Gone(t) \/ Shows(t))
      BY <1>1, <1>7, <2>2, <3>1 DEF ChartInv
    <3>3. Gone(t) => Gone(t)'
      BY <1>1, <1>2 DEF Gone
    <3>4. Shows(t) => Shows(t)'
      BY <1>5, <3>1 DEF Shows
    <3> QED BY <3>2, <3>3, <3>4
  <2> QED BY <2>1, <2>2
<1> QED BY <1>1, <1>2, <1>4, <1>5, <1>6, <1>7 DEF ChartInv

\* What a query of a new second does: the point before goes into the ring.
LEMMA NewSecond ==
  ASSUME LogTypeOK, ChartInv, NEW e \in Entry, Add(e), ~SecondGoesOn
  PROVE  /\ currentPoint'.t = now /\ currentPoint'.queries = 1
         /\ now' = now /\ now \in Nat /\ now > 0
         /\ currentPoint.t \in Nat /\ currentPoint.t < now
         /\ seen' \in [DOMAIN seen' -> Nat]
         /\ Count(seen', now) = 1
         /\ \A t : t # now => Count(seen', t) = Count(seen, t)
<1>1. /\ now \in Nat /\ now > 0 /\ currentPoint.t \in Nat /\ currentPoint.t < now
  BY DEF SecondGoesOn, ChartInv, LogTypeOK, Points
<1>2. currentPoint'.t = now /\ currentPoint'.queries = 1
  BY DEF Add, Zero
<1>3. now' = now /\ seen' = Counted(seen, now)
  BY DEF Add
<1>4. OneMore(Counted(seen, now), seen, now)
  BY CountedIs DEF ChartInv
<1>5. Count(seen, now) = 0
  <2>1. Count(seen, now) \in Nat
    BY <1>4 DEF OneMore
  <2>2. ~(Count(seen, now) > 0)
    BY <1>1 DEF ChartInv
  <2> QED BY <2>1, <2>2
<1>6. /\ seen' \in [DOMAIN seen' -> Nat]
      /\ Count(seen', now) = 1
      /\ \A t : t # now => Count(seen', t) = Count(seen, t)
  BY <1>3, <1>4, <1>5 DEF OneMore
<1> QED BY <1>1, <1>2, <1>3, <1>6

\* The first query of all.
LEMMA FirstSecond ==
  ASSUME LogTypeOK, ChartInv, NEW e \in Entry, Add(e), ~SecondGoesOn, currentPoint.t = 0
  PROVE  ChartInv'
<1>1. /\ currentPoint'.t = now /\ currentPoint'.queries = 1
      /\ now' = now /\ now \in Nat /\ now > 0
      /\ seen' \in [DOMAIN seen' -> Nat]
      /\ Count(seen', now) = 1
      /\ \A t : t # now => Count(seen', t) = Count(seen, t)
  BY NewSecond
<1>2. UNCHANGED <<timeSeries, tsWriteIdx>>
  BY DEF Add
<1>3. \A i \in 1 .. Seconds : Past(i)' = Past(i) /\ ~(Past(i).t > 0)
  <2>1. ASSUME NEW i \in 1 .. Seconds
        PROVE  ~(Past(i).t > 0)
    BY PastType, LogAssumption DEF ChartInv, Points
  <2> QED BY <1>2, <2>1 DEF Past
<1>4. ASSUME NEW t \in Nat \ {0}, Count(seen', t) > 0
      PROVE  t = now
  BY <1>1, <1>4 DEF ChartInv
<1>5. /\ now' > 0 /\ currentPoint'.t <= now'
      /\ \A i \in 1 .. Seconds : Past(i)'.t > 0 => Past(i)'.t + i <= currentPoint'.t
      /\ \A i, j \in 1 .. Seconds : i < j /\ Past(j)'.t > 0 => Past(j)'.t < Past(i)'.t
  BY <1>1, <1>3
<1> QED BY <1>1, <1>4, <1>5 DEF ChartInv

\* A later second: the points move one back, and the last one leaves.
LEMMA LaterSecond ==
  ASSUME LogTypeOK, LogTypeOK', ChartInv, NEW e \in Entry, Add(e), ~SecondGoesOn,
         currentPoint.t > 0
  PROVE  ChartInv'
<1>1. /\ currentPoint'.t = now /\ currentPoint'.queries = 1
      /\ now' = now /\ now \in Nat /\ now > 0
      /\ currentPoint.t \in Nat /\ currentPoint.t < now
      /\ seen' \in [DOMAIN seen' -> Nat]
      /\ Count(seen', now) = 1
      /\ \A t : t # now => Count(seen', t) = Count(seen, t)
  BY NewSecond
<1>2. /\ timeSeries' = [timeSeries EXCEPT ![tsWriteIdx] = currentPoint]
      /\ tsWriteIdx' = Following(tsWriteIdx, Seconds)
      /\ tsWriteIdx \in 0 .. Seconds - 1 /\ Seconds \in Nat \ {0}
      /\ DOMAIN timeSeries = 0 .. Seconds - 1
  BY LogAssumption DEF Add, LogTypeOK
<1>3. Past(1)' = currentPoint
  <2>1. (tsWriteIdx' + Seconds - 1) % Seconds = tsWriteIdx
    BY <1>2, JustWritten
  <2> QED BY <1>2, <2>1 DEF Past
<1>4. ASSUME NEW i \in 2 .. Seconds
      PROVE  Past(i)' = Past(i - 1)
  <2>1. /\ (tsWriteIdx' + Seconds - i) % Seconds = (tsWriteIdx + Seconds - (i - 1)) % Seconds
        /\ (tsWriteIdx' + Seconds - i) % Seconds # tsWriteIdx
    BY <1>2, Behind
  <2>2. i - 1 \in 1 .. Seconds
    BY <1>2
  <2>3. (tsWriteIdx + Seconds - (i - 1)) % Seconds \in 0 .. Seconds - 1
    BY <1>2, <2>2, InRing
  <2> QED BY <1>2, <2>1, <2>3 DEF Past
<1>5. \A i \in 1 .. Seconds : Past(i).t \in Nat
  BY PastType DEF Points
<1>6. ASSUME NEW i \in 1 .. Seconds, Past(i)'.t > 0
      PROVE  Past(i)'.t + i <= now
  <2>1. CASE i = 1
    BY <1>1, <1>3, <2>1
  <2>2. CASE i # 1
    <3>1. i \in 2 .. Seconds /\ i - 1 \in 1 .. Seconds
      BY <1>2, <2>2
    <3>2. Past(i)' = Past(i - 1) /\ Past(i - 1).t \in Nat
      BY <1>4, <1>5, <3>1
    <3>3. Past(i - 1).t + (i - 1) <= currentPoint.t
      BY <1>6, <3>1, <3>2 DEF ChartInv
    <3> QED BY <1>1, <3>1, <3>2, <3>3
  <2> QED BY <2>1, <2>2
<1>7. ASSUME NEW i \in 1 .. Seconds, NEW j \in 1 .. Seconds, i < j, Past(j)'.t > 0
      PROVE  Past(j)'.t < Past(i)'.t
  <2>1. j \in 2 .. Seconds /\ j - 1 \in 1 .. Seconds
    BY <1>2, <1>7
  <2>2. Past(j)' = Past(j - 1) /\ Past(j - 1).t \in Nat
    BY <1>4, <1>5, <2>1
  <2>3. CASE i = 1
    <3>1. Past(j - 1).t + (j - 1) <= currentPoint.t
      BY <1>7, <2>1, <2>2 DEF ChartInv
    <3> QED BY <1>1, <1>3, <2>1, <2>2, <2>3, <3>1
  <2>4. CASE i # 1
    <3>1. i \in 2 .. Seconds /\ i - 1 \in 1 .. Seconds /\ i - 1 < j - 1
      BY <1>2, <1>7, <2>4
    <3>2. Past(i)' = Past(i - 1)
      BY <1>4, <3>1
    <3> QED BY <1>7, <2>1, <2>2, <3>1, <3>2 DEF ChartInv
  <2> QED BY <2>3, <2>4
<1>8. ASSUME NEW t \in Nat \ {0}, Count(seen', t) > 0
      PROVE  t = now \/ (t < now /\ (Gone(t)' \/ Shows(t)'))
  <2>1. CASE t = now
    BY <2>1
  <2>2. CASE t # now
    <3>1. Count(seen', t) = Count(seen, t)
      BY <1>1, <2>2
    <3>2. t = currentPoint.t \/ (t < currentPoint.t /\ (Gone(t) \/ Shows(t)))
      BY <1>8, <3>1 DEF ChartInv
    <3>3. t < now
      BY <1>1, <3>2
    <3>4. CASE t = currentPoint.t
      <4>1. Past(1)'.t = t /\ Past(1)'.queries = Count(seen', t)
        BY <1>3, <3>1, <3>4 DEF ChartInv
      <4>2. 1 \in 1 .. Seconds
        BY <1>2
      <4> QED BY <3>3, <4>1, <4>2 DEF Shows
    <3>5. CASE Gone(t)
      <4>1. t + Seconds <= now
        BY <1>1, <1>2, <3>5 DEF Gone
      <4> QED BY <1>1, <3>3, <4>1 DEF Gone
    <3>6. CASE Shows(t)
      <4>1. PICK i \in 1 .. Seconds : Past(i).t = t /\ Past(i).queries = Count(seen, t)
        BY <3>6 DEF Shows
      <4>2. CASE i = Seconds
        <5>1. t + Seconds <= currentPoint.t
          BY <4>1, <4>2 DEF ChartInv
        <5>2. t + Seconds <= now
          BY <1>1, <1>2, <5>1
        <5> QED BY <1>1, <3>3, <5>2 DEF Gone
      <4>3. CASE i # Seconds
        <5>1. i + 1 \in 2 .. Seconds /\ i + 1 \in 1 .. Seconds /\ i + 1 - 1 = i
          BY <1>2, <4>3
        <5>2. Past(i + 1)' = Past(i)
          BY <1>4, <5>1
        <5>3. Past(i + 1)'.t = t /\ Past(i + 1)'.queries = Count(seen', t)
          BY <3>1, <4>1, <5>2
        <5> QED BY <3>3, <5>1, <5>3 DEF Shows
      <4> QED BY <4>2, <4>3
    <3> QED BY <3>2, <3>4, <3>5, <3>6
  <2> QED BY <2>1, <2>2
<1>9. now' > 0 /\ currentPoint'.t <= now' /\ currentPoint'.queries = Count(seen', currentPoint'.t)
  BY <1>1
<1> QED BY <1>1, <1>6, <1>7, <1>8, <1>9 DEF ChartInv

LEMMA ChartStep ==
  ASSUME TypeInv, TypeInv', ChartInv, [Next]_vars
  PROVE  ChartInv'
<1>1. LogTypeOK /\ LogTypeOK'
  BY DEF TypeInv, ServerTypeOK
<1>2. ASSUME NEW g \in Goroutines, Log(g)
      PROVE  ChartInv'
  <2>1. task[g].domain \in Domains /\ task[g].status \in Statuses
    BY <1>2 DEF TypeInv, TaskInv, Unlogged, At, Log
  <2>2. PICK e \in Entry : Add(e)
    BY <1>2, <2>1 DEF Log, Entry
  <2>3. CASE SecondGoesOn
    BY <1>1, <2>2, <2>3, SameSecond
  <2>4. CASE ~SecondGoesOn /\ currentPoint.t = 0
    BY <1>1, <2>2, <2>4, FirstSecond
  <2>5. CASE ~SecondGoesOn /\ currentPoint.t # 0
    <3>1. currentPoint.t > 0
      BY <1>1, <2>5 DEF LogTypeOK, Points
    <3> QED BY <1>1, <2>2, <2>5, <3>1, LaterSecond
  <2> QED BY <2>3, <2>4, <2>5
<1>3. CASE ~ \E g \in Goroutines : Log(g)
  <2>1. UNCHANGED logVars
    BY <1>3, OnlyLogAdds
  <2>2. now' = now \/ now' = now + 1
    BY <1>3 DEF Next, Step, vars, Clock, Tick, ServeUDP, ServeStream, ServeDoH, ReadMessage,
                EndOfStream, Release, Reject, Accept, Answer, Reply, Panic
  <2> QED BY <1>1, <2>1, <2>2, TickChart
<1> QED BY <1>2, <1>3

LEMMA ChartFollows ==
  ASSUME LogTypeOK, ChartInv
  PROVE  ChartComplete
<1>1. /\ Seconds \in Nat \ {0} /\ tsWriteIdx \in 0 .. Seconds - 1
      /\ DOMAIN timeSeries = 0 .. Seconds - 1 /\ now \in Nat /\ currentPoint.t \in Nat
      /\ currentPoint.t <= now
  BY LogAssumption DEF LogTypeOK, Points, ChartInv
<1>2. \A i \in 1 .. Seconds : Past(i) \in {timeSeries[k] : k \in DOMAIN timeSeries}
  BY <1>1, InRing DEF Past
<1>3. \A i \in 1 .. Seconds : Past(i).t \in Nat
  BY PastType DEF Points
<1>4. ASSUME NEW t \in 1 .. now, InWindow(t), Count(seen, t) > 0
      PROVE  \E p \in TimeSeries : p.t = t /\ p.queries = Count(seen, t)
  <2>1. t = currentPoint.t \/ (t < currentPoint.t /\ (Gone(t) \/ Shows(t)))
    BY <1>4 DEF ChartInv
  <2>2. CASE t = currentPoint.t
    <3>1. currentPoint \in TimeSeries
      BY <1>4, <2>2 DEF TimeSeries
    <3>2. currentPoint.queries = Count(seen, t)
      BY <2>2 DEF ChartInv
    <3> QED BY <2>2, <3>1, <3>2
  <2>3. CASE Shows(t)
    <3>1. PICK i \in 1 .. Seconds : Past(i).t = t /\ Past(i).queries = Count(seen, t)
      BY <2>3 DEF Shows
    <3>2. Past(i) \in TimeSeries
      BY <1>2, <1>4, <3>1 DEF TimeSeries
    <3> QED BY <3>1, <3>2
  <2>4. ~Gone(t)
    BY <1>1, <1>4 DEF Gone, InWindow
  <2> QED BY <2>1, <2>2, <2>3, <2>4
<1>5. ASSUME NEW p \in TimeSeries
      PROVE  /\ p.t > 0
             /\ p = currentPoint \/ \E i \in 1 .. Seconds : p = Past(i)
  <2>1. p.t > 0
    BY DEF TimeSeries, InWindow
  <2>2. p = currentPoint \/ \E k \in 0 .. Seconds - 1 : p = timeSeries[k]
    BY <1>1 DEF TimeSeries
  <2>3. ASSUME NEW k \in 0 .. Seconds - 1, p = timeSeries[k]
        PROVE  \E i \in 1 .. Seconds : p = Past(i)
    <3>1. PICK i \in 1 .. Seconds : (tsWriteIdx + Seconds - i) % Seconds = k
      BY <1>1, Reached
    <3> QED BY <2>3, <3>1 DEF Past
  <2> QED BY <2>1, <2>2, <2>3
<1>6. ASSUME NEW i \in 1 .. Seconds, Past(i).t > 0
      PROVE  Past(i).t < currentPoint.t
  <2>1. Past(i).t + i <= currentPoint.t
    BY <1>6 DEF ChartInv
  <2> QED BY <1>1, <1>3, <2>1
<1>7. ASSUME NEW i \in 1 .. Seconds, NEW j \in 1 .. Seconds, Past(i).t > 0, Past(i).t = Past(j).t
      PROVE  Past(i) = Past(j)
  <2>1. ~(i < j) /\ ~(j < i)
    BY <1>3, <1>7 DEF ChartInv
  <2>2. i = j
    BY <2>1
  <2> QED BY <2>2
<1>8. ASSUME NEW p \in TimeSeries, NEW q \in TimeSeries, p.t = q.t
      PROVE  p = q
  <2>1. p.t > 0 /\ q.t > 0
    BY <1>5
  <2>2. CASE p = currentPoint /\ q = currentPoint
    BY <2>2
  <2>3. ASSUME NEW i \in 1 .. Seconds, p = Past(i), q = currentPoint
        PROVE  FALSE
    BY <1>1, <1>3, <1>6, <1>8, <2>1, <2>3
  <2>4. ASSUME NEW i \in 1 .. Seconds, q = Past(i), p = currentPoint
        PROVE  FALSE
    BY <1>1, <1>3, <1>6, <1>8, <2>1, <2>4
  <2>5. ASSUME NEW i \in 1 .. Seconds, NEW j \in 1 .. Seconds, p = Past(i), q = Past(j)
        PROVE  p = q
    BY <1>7, <1>8, <2>1, <2>5
  <2> QED BY <1>5, <2>2, <2>3, <2>4, <2>5
<1> QED BY <1>4, <1>8 DEF ChartComplete

\* No point is overwritten while it is in the chart's window, and none shows
\* twice, for rings of any size (Add, TimeSeries).
THEOREM ChartAlwaysComplete == Spec => []ChartComplete
<1>1. TypeInv /\ ChartInv => ChartComplete
  BY ChartFollows DEF TypeInv, ServerTypeOK
<1>2. Spec => []TypeInv
  BY TypeInit, TypeStep, PTL DEF Spec
<1>3. TypeInv /\ TypeInv' /\ ChartInv /\ [Next]_vars => ChartInv'
  BY ChartStep
<1> QED BY <1>1, <1>2, <1>3, ChartInit, PTL DEF Spec
=============================================================================
