-------------------------- MODULE DNSCache_proofs ---------------------------
(***************************************************************************)
(* Proofs about DNSCache: types, the size of the cache, and the coalescing *)
(* of queries, for any clients, names, aliases, servers and limits.        *)
(***************************************************************************)
EXTENDS DNSCache, FiniteSetTheorems, FunctionTheorems, SequenceTheorems, Recursion, TLAPS

\* A client at work has a stack, and its own name alone before it joins.
Stacked ==
  \A c \in Clients :
    /\ ~At(c, "idle") => Len(query[c].stack) >= 1 /\ query[c].name \in Names
    /\ query[c].at \in {"join", "wait"} => Len(query[c].stack) = 1
    /\ Len(query[c].stack) >= 1 => query[c].stack[1].name = query[c].name

TypeInv == CacheTypeOK /\ Stacked

\* The client c changes to the state q, and its query stays the same.
Moves(c, q) ==
  /\ q \in State
  /\ query' = [query EXCEPT ![c] = q]
  /\ q.at # "idle"
  /\ Len(q.stack) >= 1
  /\ q.name = query[c].name /\ q.stack[1].name = q.name

-----------------------------------------------------------------------------
(* Types *)

LEMMA TopType ==
  ASSUME TypeInv, NEW c \in Clients, ~At(c, "idle")
  PROVE  /\ query[c] \in State
         /\ query[c].stack \in Seq(Frame)
         /\ Len(query[c].stack) \in Nat \ {0}
         /\ Top(c) \in Frame
         /\ Name(c) \in Names
         /\ Depth(c) \in Nat
         /\ query[c].stack[1].name = query[c].name
<1>1. query[c] \in State /\ query[c].stack \in Seq(Frame)
  BY DEF TypeInv, CacheTypeOK, State
<1>2. Len(query[c].stack) \in Nat \ {0}
  BY <1>1 DEF TypeInv, Stacked
<1>3. Top(c) \in Frame
  BY <1>1, <1>2, ElementOfSeq DEF Top
<1>4. Name(c) \in Names
  BY <1>3 DEF Name, Frame
<1>5. query[c].stack[1].name = query[c].name
  BY <1>2 DEF TypeInv, Stacked
<1> QED BY <1>1, <1>2, <1>3, <1>4, <1>5 DEF Depth

\* A client that moves on keeps the types.
LEMMA MovesType ==
  ASSUME TypeInv, NEW c \in Clients, NEW q, Moves(c, q), ~At(c, "idle"),
         q.at \in {"join", "wait"} => Len(q.stack) = 1,
         UNCHANGED <<now, uses>>,
         entries' \in [Names -> Entry],
         calls' \in [Names -> Clients \cup {Nobody}],
         goodUntil' \in [Names -> Nat]
  PROVE  TypeInv'
<1>1. query' \in [Clients -> State]
  BY DEF TypeInv, CacheTypeOK, Moves
<1>2. Stacked'
  <2> SUFFICES ASSUME NEW d \in Clients
               PROVE  /\ ~At(d, "idle")' => Len(query'[d].stack) >= 1 /\ query'[d].name \in Names
                      /\ query'[d].at \in {"join", "wait"} => Len(query'[d].stack) = 1
                      /\ Len(query'[d].stack) >= 1 => query'[d].stack[1].name = query'[d].name
    BY DEF Stacked
  <2>1. query \in [Clients -> State]
    BY DEF TypeInv, CacheTypeOK
  <2>2. CASE d = c
    <3>1. query'[d] = q
      BY <2>1, <2>2 DEF Moves
    <3>2. query[c].name \in Names
      BY DEF TypeInv, Stacked
    <3> QED BY <3>1, <3>2 DEF Moves, At
  <2>3. CASE d # c
    <3>1. query'[d] = query[d]
      BY <2>1, <2>3 DEF Moves
    <3> QED BY <3>1 DEF TypeInv, Stacked, At
  <2> QED BY <2>2, <2>3
<1> QED BY <1>1, <1>2 DEF TypeInv, CacheTypeOK

\* Several forms of a move.
LEMMA GotoMoves ==
  ASSUME TypeInv, NEW c \in Clients, ~At(c, "idle"), NEW label \in Labels \ {"idle"},
         Goto(c, label)
  PROVE  /\ Moves(c, [query[c] EXCEPT !.at = label])
         /\ query' = [query EXCEPT ![c] = [query[c] EXCEPT !.at = label]]
<1>1. query' = [query EXCEPT ![c] = [query[c] EXCEPT !.at = label]]
  BY DEF Goto
<1>2. [query[c] EXCEPT !.at = label] \in State
  BY TopType DEF State
<1> QED BY <1>1, <1>2, TopType DEF Moves, State

LEMMA CarryMoves ==
  ASSUME TypeInv, NEW c \in Clients, ~At(c, "idle"), NEW label \in Labels \ {"idle"},
         NEW a \in Answer, Carry(c, label, a)
  PROVE  Moves(c, [query[c] EXCEPT !.at = label, !.ans = a])
<1>1. query' = [query EXCEPT ![c] = [query[c] EXCEPT !.at = label, !.ans = a]]
  BY DEF Carry
<1>2. [query[c] EXCEPT !.at = label, !.ans = a] \in State
  BY TopType DEF State
<1> QED BY <1>1, <1>2, TopType DEF Moves, State

LEMMA AnswerTypes ==
  ASSUME TypeInv
  PROVE  /\ now \in Nat
         /\ Failed \in Answer
         /\ \A a \in Answer : AnswerTTL(a) \in Nat /\ NewEntry(a) \in Entry
         /\ \A f \in Frame, a \in Answer : Chained(f, a) \in Answer
<1> USE CacheAssumption
<1>1. now \in Nat
  BY DEF TypeInv, CacheTypeOK
<1>2. Failed \in Answer
  BY DEF Failed, Answer, Kinds
<1>3. ASSUME NEW a \in Answer PROVE AnswerTTL(a) \in Nat /\ NewEntry(a) \in Entry
  <2>1. AnswerTTL(a) \in Nat
    BY DEF AnswerTTL, Answer, Clamp, Smaller
  <2> QED BY <2>1, <1>1 DEF NewEntry, Entry, Answer, Kinds
<1>4. ASSUME NEW f \in Frame, NEW a \in Answer PROVE Chained(f, a) \in Answer
  BY DEF Chained, Frame, Answer, Kinds, Smaller
<1> QED BY <1>1, <1>2, <1>3, <1>4

LEMMA NewFrameType ==
  ASSUME TypeInv, NEW name \in Names, NEW why \in {"query", "alias", "server"}, NEW ttl \in Nat
  PROVE  NewFrame(name, why, ttl) \in Frame /\ NewFrame(name, why, ttl).name = name
BY AnswerTypes DEF NewFrame, Frame

LEMMA DescendMoves ==
  ASSUME TypeInv, NEW c \in Clients, At(c, "lookup"), NEW name \in Names,
         NEW why \in {"query", "alias", "server"}, NEW ttl \in Nat,
         Descend(c, name, why, ttl)
  PROVE  \E q \in State : /\ Moves(c, q) /\ q.at = "get" /\ q.waitsFor = query[c].waitsFor
                          /\ Len(q.stack) > 1
<1> DEFINE f == NewFrame(name, why, ttl)
           q == [query[c] EXCEPT !.at = "get", !.stack = Append(query[c].stack, f)]
<1>1. f \in Frame
  BY NewFrameType
<1>2. query[c] \in State /\ query[c].stack \in Seq(Frame)
      /\ Len(query[c].stack) \in Nat \ {0} /\ query[c].stack[1].name = query[c].name
  BY TopType DEF At
<1> HIDE DEF f
<1>3. /\ Append(query[c].stack, f) \in Seq(Frame)
      /\ Len(Append(query[c].stack, f)) = Len(query[c].stack) + 1
      /\ Append(query[c].stack, f)[1] = query[c].stack[1]
  BY <1>1, <1>2, AppendProperties
<1>4. q \in State
  BY <1>2, <1>3 DEF State, Labels
<1>5. /\ q.at = "get" /\ q.waitsFor = query[c].waitsFor /\ q.name = query[c].name
      /\ q.stack = Append(query[c].stack, f)
  BY <1>2 DEF State
<1>6. query' = [query EXCEPT ![c] = q]
  BY DEF Descend, f
<1>7. Moves(c, q)
  BY <1>2, <1>3, <1>4, <1>5, <1>6 DEF Moves
<1>8. Len(q.stack) > 1
  BY <1>2, <1>3, <1>5
<1> HIDE DEF q
<1> QED BY <1>4, <1>5, <1>7, <1>8

\* What a client may be doing while it leads a call that is still registered.
Leading(q) ==
  /\ q.at \in {"get", "lookup", "stale", "set", "return"}
  /\ q.at = "get" => Len(q.stack) > 1

LEMMA CarryLeads ==
  ASSUME TypeInv, NEW c \in Clients, ~At(c, "idle"),
         NEW label \in {"lookup", "stale", "set", "return"}, NEW a \in Answer,
         Carry(c, label, a)
  PROVE  \E q : Moves(c, q) /\ Leading(q) /\ q.waitsFor = query[c].waitsFor
<1> DEFINE q == [query[c] EXCEPT !.at = label, !.ans = a]
<1>1. label \in Labels \ {"idle"}
  BY DEF Labels
<1>2. Moves(c, q)
  BY <1>1, CarryMoves
<1>3. query[c] \in State
  BY TopType
<1>4. q.at = label /\ q.waitsFor = query[c].waitsFor
  BY <1>3 DEF State
<1> HIDE DEF q
<1> QED BY <1>2, <1>4 DEF Leading

LEMMA GotoLeads ==
  ASSUME TypeInv, NEW c \in Clients, ~At(c, "idle"),
         NEW label \in {"lookup", "stale", "set", "return"}, Goto(c, label)
  PROVE  \E q : Moves(c, q) /\ Leading(q) /\ q.waitsFor = query[c].waitsFor
<1> DEFINE q == [query[c] EXCEPT !.at = label]
<1>1. label \in Labels \ {"idle"}
  BY DEF Labels
<1>2. Moves(c, q)
  BY <1>1, GotoMoves
<1>3. query[c] \in State
  BY TopType
<1>4. q.at = label /\ q.waitsFor = query[c].waitsFor
  BY <1>3 DEF State
<1> HIDE DEF q
<1> QED BY <1>2, <1>4 DEF Leading

\* The work on a name, inner queries included, is done by its leader.
LEMMA WorkLeads ==
  ASSUME TypeInv, NEW c \in Clients,
         \/ Hit(c) /\ Depth(c) > 0
         \/ Miss(c) /\ Depth(c) > 0
         \/ Lookup(c) \/ Panic(c) \/ GetStale(c) \/ Set(c) \/ Return(c)
  PROVE  \E q : Moves(c, q) /\ Leading(q) /\ q.waitsFor = query[c].waitsFor
<1>0. ~At(c, "idle")
  BY DEF Hit, Miss, Lookup, Panic, GetStale, Set, Return, At
<1>1. /\ query[c] \in State /\ query[c].stack \in Seq(Frame)
      /\ Len(query[c].stack) \in Nat \ {0} /\ Top(c) \in Frame /\ Name(c) \in Names
      /\ query[c].stack[1].name = query[c].name /\ Depth(c) \in Nat
      /\ Len(query[c].stack) = Depth(c) + 1
  BY <1>0, TopType DEF Depth
<1>2. entries \in [Names -> Entry] /\ now \in Nat
  BY AnswerTypes DEF TypeInv, CacheTypeOK
<1>3. CASE Hit(c) /\ Depth(c) > 0
  <2> DEFINE e == entries[Name(c)]
  <2>1. PICK ttl \in Remaining(e) :
          Carry(c, "return", [kind |-> e.kind, ttl |-> ttl, until |-> e.until,
                              stale |-> e.stale])
    BY <1>3, <1>1 DEF Hit
  <2>2. e \in Entry /\ e.kind # "none"
    BY <1>1, <1>2, <1>3 DEF Hit, Fresh
  <2>3. ttl \in Nat
    <3>1. Aged(e.ttl, now - e.cachedAt) \in Nat
      BY <2>2, <1>2 DEF Aged, Entry
    <3>2. e.ttl \in Nat
      BY <2>2 DEF Entry
    <3>3. \/ ttl = Aged(e.ttl, now - e.cachedAt)
          \/ ttl \in Smaller(Aged(e.ttl, now - e.cachedAt), e.ttl) .. e.ttl
      BY <2>1 DEF Remaining
    <3>4. Smaller(Aged(e.ttl, now - e.cachedAt), e.ttl) \in Nat
      BY <3>1, <3>2 DEF Smaller
    <3> QED BY <3>1, <3>2, <3>3, <3>4
  <2> DEFINE a == [kind |-> e.kind, ttl |-> ttl, until |-> e.until, stale |-> e.stale]
  <2>4. a \in Answer
    BY <2>2, <2>3 DEF Answer, Entry
  <2>5. Carry(c, "return", a)
    BY <2>1
  <2> HIDE DEF a
  <2> QED BY <2>4, <2>5, <1>0, CarryLeads
<1>4. CASE Miss(c) /\ Depth(c) > 0
  <2>1. Goto(c, "lookup")
    BY <1>4, <1>1 DEF Miss
  <2> QED BY <2>1, <1>0, GotoLeads
<1>5. CASE Lookup(c)
  <2>1. CASE Carry(c, "stale", Failed)
    BY <2>1, <1>0, CarryLeads, AnswerTypes
  <2>2. CASE \E kind \in {"ok", "nodata", "nx"} :
               \E ttl \in IF kind = "ok" THEN TTLs ELSE NegTTLs :
                 Carry(c, "set", [kind |-> kind, ttl |-> ttl, until |-> now + ttl,
                                  stale |-> FALSE])
    <3>1. PICK kind \in {"ok", "nodata", "nx"}, ttl \in Nat :
                 Carry(c, "set", [kind |-> kind, ttl |-> ttl, until |-> now + ttl,
                                  stale |-> FALSE])
      BY <2>2, CacheAssumption
    <3>2. [kind |-> kind, ttl |-> ttl, until |-> now + ttl, stale |-> FALSE] \in Answer
      BY <1>2 DEF Answer, Kinds
    <3> QED BY <3>1, <3>2, <1>0, CarryLeads
  <2>3. CASE \E name \in Names, why \in {"query", "alias", "server"}, ttl \in Nat :
               Descend(c, name, why, ttl)
    <3>1. PICK q \in State : /\ Moves(c, q) /\ q.at = "get" /\ Len(q.stack) > 1
                             /\ q.waitsFor = query[c].waitsFor
      BY <2>3, <1>5, DescendMoves DEF Lookup
    <3> QED BY <3>1 DEF Leading
  <2>4. ASSUME Alias[Name(c)] # NoName, \E ttl \in TTLs : Descend(c, Alias[Name(c)], "alias", ttl)
        PROVE \E name \in Names, why \in {"query", "alias", "server"}, ttl \in Nat :
                Descend(c, name, why, ttl)
    <3>1. Alias[Name(c)] \in Names
      BY <2>4, <1>1, CacheAssumption
    <3> QED BY <2>4, <3>1, CacheAssumption
  <2>5. ASSUME Server[Name(c)] # NoName, Descend(c, Server[Name(c)], "server", 0)
        PROVE \E name \in Names, why \in {"query", "alias", "server"}, ttl \in Nat :
                Descend(c, name, why, ttl)
    <3>1. Server[Name(c)] \in Names
      BY <2>5, <1>1, CacheAssumption
    <3> QED BY <2>5, <3>1
  <2> QED BY <1>5, <2>1, <2>2, <2>3, <2>4, <2>5 DEF Lookup
<1>6. CASE Panic(c)
  <2> DEFINE q == [query[c] EXCEPT !.at = "return", !.ans = Failed,
                                   !.stack = <<Head(query[c].stack)>>]
  <2>1. query' = [query EXCEPT ![c] = q]
    BY <1>6 DEF Panic
  <2>2. Head(query[c].stack) = query[c].stack[1] /\ query[c].stack[1] \in Frame
    BY <1>1, ElementOfSeq
  <2>3. <<Head(query[c].stack)>> \in Seq(Frame) /\ Len(<<Head(query[c].stack)>>) = 1
        /\ <<Head(query[c].stack)>>[1] = query[c].stack[1]
    BY <2>2
  <2>4. q \in State
    BY <1>1, <2>3, AnswerTypes DEF State, Labels
  <2>5. /\ q.at = "return" /\ q.waitsFor = query[c].waitsFor /\ q.name = query[c].name
        /\ q.stack = <<Head(query[c].stack)>>
    BY <1>1 DEF State
  <2> HIDE DEF q
  <2>6. Moves(c, q)
    BY <1>1, <2>1, <2>3, <2>4, <2>5 DEF Moves
  <2>7. Leading(q)
    BY <2>5 DEF Leading
  <2> QED BY <2>5, <2>6, <2>7
<1>7. CASE GetStale(c)
  <2> DEFINE e == entries[Name(c)]
             a == [kind |-> e.kind, ttl |-> StaleTTL, until |-> e.until, stale |-> TRUE]
  <2>1. ASSUME Servable(Name(c)) PROVE a \in Answer
    BY <2>1, <1>1, <1>2, CacheAssumption DEF Servable, WithRecords, Entry, Answer, Kinds
  <2>2. (Carry(c, "return", a) /\ Servable(Name(c))) \/ Goto(c, "set")
    BY <1>7 DEF GetStale
  <2> HIDE DEF a
  <2> QED BY <2>1, <2>2, <1>0, CarryLeads, GotoLeads
<1>8. CASE Set(c)
  BY <1>8, <1>0, GotoLeads DEF Set
<1>9. CASE Return(c)
  <2> DEFINE outer == SubSeq(query[c].stack, 1, Depth(c))
             resumed == [outer EXCEPT ![Depth(c)].hasServer = TRUE]
             a == IF Top(c).why = "alias" THEN Chained(Top(c), query[c].ans) ELSE Failed
             q1 == [query[c] EXCEPT !.at = "lookup", !.ans = Failed, !.stack = resumed]
             q2 == [query[c] EXCEPT !.at = AfterAnswer(a), !.ans = a, !.stack = outer]
  <2>1. Depth(c) \in Nat \ {0} /\ Depth(c) <= Len(query[c].stack)
    <3>1. Depth(c) > 0
      BY <1>9 DEF Return
    <3>2. Depth(c) \in Nat /\ Len(query[c].stack) = Depth(c) + 1
      BY <1>1
    <3> QED BY <3>1, <3>2
  <2>2. /\ outer \in Seq(Frame) /\ Len(outer) = Depth(c)
        /\ outer[1] = query[c].stack[1]
    BY <1>1, <2>1, SubSeqProperties
  <2>3. outer[Depth(c)] \in Frame
    BY <2>1, <2>2, ElementOfSeq
  <2> HIDE DEF outer
  <2>4. /\ resumed \in Seq(Frame) /\ Len(resumed) = Depth(c)
        /\ resumed[1].name = outer[1].name
    <3>1. resumed = [outer EXCEPT ![Depth(c)] = [outer[Depth(c)] EXCEPT !.hasServer = TRUE]]
      OBVIOUS
    <3>2. [outer[Depth(c)] EXCEPT !.hasServer = TRUE] \in Frame
          /\ [outer[Depth(c)] EXCEPT !.hasServer = TRUE].name = outer[Depth(c)].name
      BY <2>3 DEF Frame
    <3> QED BY <3>1, <3>2, <2>1, <2>2, ExceptSeq
  <2>5. a \in Answer
    <3>1. query[c].ans \in Answer
      BY <1>1 DEF State
    <3> QED BY <3>1, <1>1, AnswerTypes
  <2> HIDE DEF resumed, a
  <2>6. CASE query' = [query EXCEPT ![c] = q1]
    <3>1. q1 \in State
      BY <1>1, <2>4, AnswerTypes DEF State, Labels
    <3>2. /\ q1.at = "lookup" /\ q1.waitsFor = query[c].waitsFor /\ q1.name = query[c].name
          /\ q1.stack = resumed
      BY <1>1 DEF State
    <3> HIDE DEF q1
    <3>3. Moves(c, q1)
      BY <1>1, <2>1, <2>2, <2>4, <2>6, <3>1, <3>2 DEF Moves
    <3>4. Leading(q1)
      BY <3>2 DEF Leading
    <3> QED BY <3>2, <3>3, <3>4
  <2>7. CASE query' = [query EXCEPT ![c] = q2]
    <3>1. AfterAnswer(a) \in {"stale", "set"}
      BY DEF AfterAnswer
    <3>2. q2 \in State
      BY <1>1, <2>2, <2>5, <3>1 DEF State, Labels
    <3>3. /\ q2.at = AfterAnswer(a) /\ q2.waitsFor = query[c].waitsFor /\ q2.name = query[c].name
          /\ q2.stack = outer
      BY <1>1 DEF State
    <3> HIDE DEF q2
    <3>4. Moves(c, q2)
      BY <1>1, <2>1, <2>2, <2>7, <3>1, <3>2, <3>3 DEF Moves
    <3>5. Leading(q2)
      BY <3>1, <3>3 DEF Leading
    <3> QED BY <3>3, <3>4, <3>5
  <2>8. query' = [query EXCEPT ![c] = q1] \/ query' = [query EXCEPT ![c] = q2]
    BY <1>9 DEF Return, outer, resumed, a
  <2> QED BY <2>6, <2>7, <2>8
<1> QED BY <1>3, <1>4, <1>5, <1>6, <1>7, <1>8, <1>9

LEMMA SetType ==
  ASSUME TypeInv, NEW c \in Clients, Set(c)
  PROVE  entries' \in [Names -> Entry] /\ goodUntil' \in [Names -> Nat]
<1>1. query[c] \in State /\ Name(c) \in Names
  BY TopType DEF Set, At
<1>2. query[c].ans \in Answer
  BY <1>1 DEF State
<1>3. NewEntry(query[c].ans) \in Entry /\ AnswerTTL(query[c].ans) \in Nat /\ now \in Nat
  BY <1>2, AnswerTypes
<1>4. NoEntry \in Entry
  BY DEF NoEntry, Entry
<1>5. entries \in [Names -> Entry] /\ goodUntil \in [Names -> Nat]
  BY DEF TypeInv, CacheTypeOK
<1>6. now + AnswerTTL(query[c].ans) + StaleWindow + 1 \in Nat
  BY <1>3, CacheAssumption
<1> QED BY <1>1, <1>3, <1>4, <1>5, <1>6 DEF Set

\* Joining, leaving and waking: the steps of a client that is not at work.
LEMMA QueryMoves ==
  ASSUME TypeInv, NEW c \in Clients, NEW n \in Names, Query(c, n)
  PROVE  \E q \in State :
           /\ query' = [query EXCEPT ![c] = q]
           /\ q.at = "get" /\ q.name = n /\ q.waitsFor = Nobody
           /\ Len(q.stack) = 1 /\ q.stack[1].name = n
<1> DEFINE f == NewFrame(n, "query", 0)
           q == [at |-> "get", name |-> n, since |-> now, stack |-> <<f>>, ans |-> Failed,
                 waitsFor |-> Nobody]
<1>1. f \in Frame /\ f.name = n
  BY NewFrameType
<1>2. now \in 0 .. MaxTime
  BY DEF TypeInv, CacheTypeOK
<1>3. query' = [query EXCEPT ![c] = q]
  BY DEF Query
<1> HIDE DEF f
<1>4. <<f>> \in Seq(Frame) /\ Len(<<f>>) = 1 /\ <<f>>[1] = f
  BY <1>1
<1>5. Failed \in Answer
  BY AnswerTypes
<1>7. q \in State
  BY <1>2, <1>4, <1>5 DEF State, Labels
<1>8. q.at = "get" /\ q.name = n /\ q.waitsFor = Nobody /\ q.stack = <<f>>
  OBVIOUS
<1> HIDE DEF q
<1> QED BY <1>1, <1>3, <1>4, <1>7, <1>8

LEMMA IdleType == TypeInv => /\ Idle \in State /\ Idle.at = "idle" /\ Idle.waitsFor = Nobody
                             /\ Len(Idle.stack) = 0
<1> SUFFICES ASSUME TypeInv PROVE /\ Idle \in State /\ Idle.at = "idle"
                                  /\ Idle.waitsFor = Nobody /\ Len(Idle.stack) = 0
  OBVIOUS
<1>1. Failed \in Answer
  BY AnswerTypes
<1> QED BY <1>1, CacheAssumption DEF Idle, State, Labels

\* A change of nobody's state keeps the types, whatever else changes in type.
LEMMA QuietType ==
  ASSUME TypeInv, UNCHANGED query,
         now' \in 0 .. MaxTime, uses' \in 0 .. MaxUses,
         entries' \in [Names -> Entry], calls' \in [Names -> Clients \cup {Nobody}],
         goodUntil' \in [Names -> Nat]
  PROVE  TypeInv'
BY DEF TypeInv, CacheTypeOK, Stacked, At

\* A client's step keeps the types if its new state is in order.
LEMMA StepType ==
  ASSUME TypeInv, NEW c \in Clients, NEW q \in State, query' = [query EXCEPT ![c] = q],
         q.at # "idle", q.name \in Names, Len(q.stack) = 1, q.stack[1].name = q.name
  PROVE  query' \in [Clients -> State] /\ Stacked'
<1>1. query \in [Clients -> State]
  BY DEF TypeInv, CacheTypeOK
<1>2. query' \in [Clients -> State]
  BY <1>1
<1>3. ASSUME NEW d \in Clients
      PROVE  /\ query'[d].at # "idle" => Len(query'[d].stack) >= 1 /\ query'[d].name \in Names
             /\ query'[d].at \in {"join", "wait"} => Len(query'[d].stack) = 1
             /\ Len(query'[d].stack) >= 1 => query'[d].stack[1].name = query'[d].name
  <2>1. CASE d = c
    <3>1. query'[d] = q
      BY <1>1, <2>1
    <3> QED BY <3>1
  <2>2. CASE d # c
    <3>1. query'[d] = query[d]
      BY <1>1, <2>2
    <3> QED BY <3>1 DEF TypeInv, Stacked, At
  <2> QED BY <2>1, <2>2
<1> QED BY <1>2, <1>3 DEF Stacked, At

LEMMA TypeStep == TypeInv /\ [Next]_vars => TypeInv'
<1> SUFFICES ASSUME TypeInv, [Next]_vars PROVE TypeInv'
  OBVIOUS
<1>t. /\ now \in 0 .. MaxTime /\ uses \in 0 .. MaxUses /\ query \in [Clients -> State]
      /\ entries \in [Names -> Entry] /\ calls \in [Names -> Clients \cup {Nobody}]
      /\ goodUntil \in [Names -> Nat]
  BY DEF TypeInv, CacheTypeOK
<1>n. NoEntry \in Entry
  BY DEF NoEntry, Entry
<1>1. ASSUME NEW c \in Clients, NEW n \in Names, Query(c, n) PROVE TypeInv'
  <2>1. PICK q \in State : /\ query' = [query EXCEPT ![c] = q]
                           /\ q.at = "get" /\ q.name = n
                           /\ Len(q.stack) = 1 /\ q.stack[1].name = n
    BY <1>1, QueryMoves
  <2>2. query' \in [Clients -> State] /\ Stacked'
    BY <2>1, StepType
  <2>3. uses' \in 0 .. MaxUses
    BY <1>1, <1>t, CacheAssumption DEF Query
  <2> QED BY <1>1, <1>t, <2>2, <2>3 DEF Query, TypeInv, CacheTypeOK
<1>2. ASSUME NEW c \in Clients,
             \/ Hit(c) /\ Depth(c) > 0
             \/ Miss(c) /\ Depth(c) > 0
             \/ Lookup(c) \/ Panic(c) \/ GetStale(c) \/ Set(c) \/ Return(c)
      PROVE  TypeInv'
  <2>1. PICK q : Moves(c, q) /\ Leading(q)
    BY <1>2, WorkLeads
  <2>2. ~At(c, "idle") /\ UNCHANGED <<now, uses, calls>>
    BY <1>2 DEF Hit, Miss, Lookup, Panic, GetStale, Set, Return, At
  <2>3. entries' \in [Names -> Entry] /\ goodUntil' \in [Names -> Nat]
    <3>1. CASE Set(c)
      BY <3>1, SetType
    <3>2. CASE ~Set(c)
      <4>1. UNCHANGED <<entries, goodUntil>>
        BY <1>2, <3>2 DEF Hit, Miss, Lookup, Panic, GetStale, Return
      <4> QED BY <4>1, <1>t
    <3> QED BY <3>1, <3>2
  <2>4. q.at \notin {"join", "wait"}
    BY <2>1 DEF Leading
  <2> QED BY <2>1, <2>2, <2>3, <2>4, <1>t, MovesType
<1>3. ASSUME NEW c \in Clients, \/ Hit(c) /\ ~(Depth(c) > 0)
                                \/ Wake(c)
      PROVE  TypeInv'
  <2>1. UNCHANGED <<now, uses, entries, calls, goodUntil>>
    BY <1>3 DEF Hit, Wake
  <2>2. \A d \in Clients : query'[d] \in {query[d], Idle}
    <3>1. CASE Hit(c) /\ ~(Depth(c) > 0)
      <4>1. Depth(c) \in Nat
        BY <3>1, TopType DEF Hit, At
      <4>2. query' = [query EXCEPT ![c] = Idle]
        BY <3>1, <4>1 DEF Hit
      <4> QED BY <4>2, <1>t
    <3>2. CASE Wake(c)
      BY <3>2, <1>t DEF Wake
    <3> QED BY <1>3, <3>1, <3>2
  <2>3. query' \in [Clients -> State]
    <3>1. query' = [d \in Clients |-> query'[d]]
      BY <1>3, <1>t DEF Hit, Wake
    <3> QED BY <3>1, <2>2, <1>t, IdleType
  <2>4. Stacked'
    <3> SUFFICES ASSUME NEW d \in Clients
                 PROVE  /\ query'[d].at # "idle" => Len(query'[d].stack) >= 1 /\ query'[d].name \in Names
                        /\ query'[d].at \in {"join", "wait"} => Len(query'[d].stack) = 1
                        /\ Len(query'[d].stack) >= 1 => query'[d].stack[1].name = query'[d].name
      BY DEF Stacked, At
    <3>1. CASE query'[d] = query[d]
      BY <3>1 DEF TypeInv, Stacked, At
    <3>2. CASE query'[d] = Idle
      BY <3>2, IdleType
    <3> QED BY <2>2, <3>1, <3>2
  <2> QED BY <2>1, <2>3, <2>4, <1>t DEF TypeInv, CacheTypeOK
<1>4. ASSUME NEW c \in Clients, \/ Miss(c) /\ ~(Depth(c) > 0)
                                \/ Unregister(c)
      PROVE  TypeInv'
  <2>1. Depth(c) \in Nat /\ Len(query[c].stack) = Depth(c) + 1 /\ ~At(c, "idle")
        /\ query[c].name \in Names
    BY <1>4, TopType DEF Miss, Unregister, At, Depth, TypeInv, Stacked
  <2>2. PICK label \in {"join", "wake"} : Goto(c, label) /\ (label = "join" => Depth(c) = 0)
    BY <1>4, <2>1 DEF Miss, Unregister
  <2>3. Moves(c, [query[c] EXCEPT !.at = label])
    BY <2>1, <2>2, GotoMoves DEF Labels
  <2>4. query[c] \in State
    BY <1>t
  <2>5. [query[c] EXCEPT !.at = label].at = label
        /\ [query[c] EXCEPT !.at = label].stack = query[c].stack
    BY <2>4 DEF State
  <2>6. label = "join" => Len(query[c].stack) = 1
    BY <2>1, <2>2
  <2>7. calls' \in [Names -> Clients \cup {Nobody}]
    BY <1>4, <1>t DEF Miss, Unregister
  <2>8. UNCHANGED <<now, uses, entries, goodUntil>>
    BY <1>4 DEF Miss, Unregister
  <2> QED BY <2>1, <2>2, <2>3, <2>5, <2>6, <2>7, <2>8, <1>t, MovesType
<1>5. ASSUME NEW c \in Clients, Join(c) PROVE TypeInv'
  <2>1. Len(query[c].stack) = 1 /\ ~At(c, "idle") /\ Name(c) \in Names /\ query[c] \in State
    BY <1>5, TopType DEF Join, At, TypeInv, Stacked
  <2>2. UNCHANGED <<now, uses, entries, goodUntil>>
    BY <1>5 DEF Join
  <2>3. CASE calls' = [calls EXCEPT ![Name(c)] = c] /\ Goto(c, "lookup")
    <3>1. Moves(c, [query[c] EXCEPT !.at = "lookup"])
      BY <2>1, <2>3, GotoMoves DEF Labels
    <3>2. [query[c] EXCEPT !.at = "lookup"].at = "lookup"
      BY <2>1 DEF State
    <3>3. calls' \in [Names -> Clients \cup {Nobody}]
      BY <2>3, <1>t
    <3> QED BY <3>1, <3>2, <3>3, <2>1, <2>2, <1>t, MovesType
  <2>4. CASE /\ calls[Name(c)] # Nobody /\ UNCHANGED calls
             /\ query' = [query EXCEPT ![c].at = "wait", ![c].waitsFor = calls[Name(c)]]
    <3> DEFINE q == [query[c] EXCEPT !.at = "wait", !.waitsFor = calls[Name(c)]]
    <3>1. query' = [query EXCEPT ![c] = q]
      BY <2>4
    <3>2. calls[Name(c)] \in Clients
      BY <2>1, <2>4, <1>t
    <3>3. q \in State
      BY <2>1, <3>2 DEF State, Labels
    <3>4. q.at = "wait" /\ q.name = query[c].name /\ q.stack = query[c].stack
      BY <2>1 DEF State
    <3>5. query[c].name \in Names /\ query[c].stack[1].name = query[c].name
      BY <2>1 DEF TypeInv, Stacked
    <3> HIDE DEF q
    <3>6. query' \in [Clients -> State] /\ Stacked'
      BY <2>1, <3>1, <3>3, <3>4, <3>5, StepType
    <3> QED BY <2>2, <2>4, <3>6, <1>t DEF TypeInv, CacheTypeOK
  <2> QED BY <1>5, <2>3, <2>4 DEF Join
<1>6. CASE Flush
  <2>1. entries' \in [Names -> Entry] /\ goodUntil' \in [Names -> Nat]
    BY <1>6, <1>n DEF Flush
  <2>2. uses' \in 0 .. MaxUses
    BY <1>6, <1>t, CacheAssumption DEF Flush
  <2> QED BY <1>6, <2>1, <2>2, <1>t, QuietType DEF Flush
<1>7. CASE Cleanup
  <2>1. entries' \in [Names -> Entry]
    BY <1>7, <1>n, <1>t DEF Cleanup
  <2> QED BY <1>7, <2>1, <1>t, QuietType DEF Cleanup
<1>8. CASE Tick
  <2>1. now' \in 0 .. MaxTime
    BY <1>8, <1>t, CacheAssumption DEF Tick
  <2> QED BY <1>8, <2>1, <1>t, QuietType DEF Tick
<1>9. CASE UNCHANGED vars
  BY <1>9, <1>t, QuietType DEF vars
<1>10. ASSUME NEW c \in Clients, Work(c) PROVE TypeInv'
  BY <1>2, <1>3, <1>4, <1>5, <1>10 DEF Work
<1> QED BY <1>1, <1>6, <1>7, <1>8, <1>9, <1>10 DEF Next

LEMMA TypeInit == Init => TypeInv
<1> SUFFICES ASSUME Init PROVE TypeInv
  OBVIOUS
<1>1. NoEntry \in Entry /\ Failed \in Answer
  BY DEF NoEntry, Entry, Failed, Answer, Kinds
<1>2. Idle \in State /\ Idle.at = "idle" /\ Len(Idle.stack) = 0
  BY <1>1, CacheAssumption DEF Idle, State, Labels
<1>3. CacheTypeOK
  BY <1>1, <1>2, CacheAssumption DEF Init, CacheTypeOK
<1>4. Stacked
  BY <1>2 DEF Init, Stacked, At
<1> QED BY <1>3, <1>4 DEF TypeInv

\* No variable leaves its type.
THEOREM CacheTypeCorrect == Spec => []CacheTypeOK
<1>1. TypeInv => CacheTypeOK
  BY DEF TypeInv
<1> QED BY TypeInit, TypeStep, <1>1, PTL DEF Spec

-----------------------------------------------------------------------------
(* The size of the cache *)

\* What evictLocked leaves has room for one more entry.
LEMMA EvictedMakesRoom ==
  ASSUME TypeInv, SizeBound, MaxEntries > 0, NEW gone \in Evicted
  PROVE  Cardinality(Cached \ gone) < MaxEntries
<1> DEFINE old == {n \in Cached : Expired(n)}
           drop == MaxEntries \div 10 + 1
<1>1. IsFiniteSet(Cached) /\ IsFiniteSet(Cached \ old)
  BY CacheAssumption, FS_Subset DEF Cached
<1>2. Cardinality(Cached) \in Nat /\ Cardinality(Cached \ old) \in Nat
  BY <1>1, FS_CardinalityType
<1>3. MaxEntries \in Nat /\ drop \in Nat /\ drop >= 1
  BY CacheAssumption
<1>4. Cardinality(Cached) <= MaxEntries
  BY DEF SizeBound
<1>5. Cardinality(Cached \ old) <= Cardinality(Cached)
  BY <1>1, FS_Subset
<1> HIDE DEF drop
<1>6. CASE Cardinality(Cached) < MaxEntries
  <2>1. gone = {}
    BY <1>3, <1>6 DEF Evicted
  <2> QED BY <2>1, <1>6
<1>7. CASE ~(Cardinality(Cached) < MaxEntries) /\ Cardinality(Cached \ old) < MaxEntries
  <2>1. gone = old
    BY <1>3, <1>7 DEF Evicted
  <2> QED BY <2>1, <1>7
<1>8. CASE ~(Cardinality(Cached) < MaxEntries) /\ ~(Cardinality(Cached \ old) < MaxEntries)
  <2>1. PICK more \in SUBSET (Cached \ old) : Cardinality(more) = drop /\ gone = old \cup more
    BY <1>3, <1>8 DEF Evicted, drop
  <2>2. Cached \ gone = (Cached \ old) \ more
    BY <2>1
  <2>3. (Cached \ old) \cap more = more
    BY <2>1
  <2>4. Cardinality((Cached \ old) \ more)
          = Cardinality(Cached \ old) - Cardinality((Cached \ old) \cap more)
    BY <1>1, FS_Difference
  <2> HIDE DEF old
  <2>5. Cardinality(Cached \ gone) = Cardinality(Cached \ old) - drop
    BY <2>1, <2>2, <2>3, <2>4
  <2> QED BY <2>5, <1>2, <1>3, <1>4, <1>5
<1> QED BY <1>6, <1>7, <1>8

LEMMA SizeStep == TypeInv /\ SizeBound /\ [Next]_vars => SizeBound'
<1> SUFFICES ASSUME TypeInv, SizeBound, [Next]_vars, MaxEntries > 0
             PROVE  Cardinality(Cached)' <= MaxEntries
  BY DEF SizeBound
<1>1. IsFiniteSet(Cached) /\ Cardinality(Cached) \in Nat /\ MaxEntries \in Nat
  BY CacheAssumption, FS_Subset, FS_CardinalityType DEF Cached
<1>2. Cardinality(Cached) <= MaxEntries
  BY DEF SizeBound
<1>3. ASSUME Cached' \subseteq Cached PROVE Cardinality(Cached)' <= MaxEntries
  <2>1. Cardinality(Cached') <= Cardinality(Cached) /\ Cardinality(Cached') \in Nat
    BY <1>1, <1>3, FS_Subset, FS_CardinalityType
  <2> QED BY <2>1, <1>1, <1>2
<1>4. ASSUME NEW c \in Clients, Set(c) PROVE Cardinality(Cached)' <= MaxEntries
  <2>1. CASE UNCHANGED entries
    BY <2>1, <1>3 DEF Cached
  <2>2. CASE \E gone \in Evicted :
               entries' = [m \in Names |-> IF m = Name(c) THEN NewEntry(query[c].ans)
                                           ELSE IF m \in gone THEN NoEntry
                                           ELSE entries[m]]
    <3>1. PICK gone \in Evicted :
               entries' = [m \in Names |-> IF m = Name(c) THEN NewEntry(query[c].ans)
                                           ELSE IF m \in gone THEN NoEntry
                                           ELSE entries[m]]
      BY <2>2
    <3> DEFINE left == Cached \ gone
    <3>2. Cached' \subseteq left \cup {Name(c)}
      BY <3>1 DEF Cached, NoEntry
    <3>3. IsFiniteSet(left) /\ Cardinality(left) < MaxEntries
      BY <1>1, FS_Subset, EvictedMakesRoom
    <3> HIDE DEF left
    <3>4. /\ IsFiniteSet(left \cup {Name(c)})
          /\ Cardinality(left) \in Nat
          /\ \/ Cardinality(left \cup {Name(c)}) = Cardinality(left) + 1
             \/ Cardinality(left \cup {Name(c)}) = Cardinality(left)
      BY <3>3, FS_AddElement, FS_CardinalityType
    <3>5. Cardinality(Cached') <= Cardinality(left \cup {Name(c)}) /\ Cardinality(Cached') \in Nat
      BY <3>2, <3>4, FS_Subset, FS_CardinalityType
    <3> QED BY <3>3, <3>4, <3>5, <1>1
  <2> QED BY <1>4, <2>1, <2>2 DEF Set
<1>5. CASE UNCHANGED entries
  BY <1>5, <1>3 DEF Cached
<1>6. CASE Flush
  <2>1. Cached' \subseteq Cached
    BY <1>6 DEF Flush, Cached, NoEntry
  <2> QED BY <2>1, <1>3
<1>7. CASE Cleanup
  <2>1. Cached' \subseteq Cached
    BY <1>7 DEF Cleanup, Cached, NoEntry
  <2> QED BY <2>1, <1>3
<1>8. CASE \E c \in Clients : (\E n \in Names : Query(c, n)) \/ Work(c)
  <2>1. ASSUME NEW c \in Clients, Work(c) PROVE UNCHANGED entries \/ Set(c)
    BY <2>1 DEF Work, Hit, Miss, Join, Lookup, Panic, GetStale, Return, Unregister, Wake
  <2>2. ASSUME NEW c \in Clients, NEW n \in Names, Query(c, n) PROVE UNCHANGED entries
    BY <2>2 DEF Query
  <2> QED BY <1>8, <2>1, <2>2, <1>4, <1>5
<1> QED BY <1>5, <1>6, <1>7, <1>8 DEF Next, Tick, vars

\* The cache never holds more than cacheMaxEntries entries: evictLocked makes
\* room before every insertion, whatever the limit and whoever stores.
THEOREM SizeBounded == Spec => []SizeBound
<1>1. Init => SizeBound
  <2> SUFFICES ASSUME Init, MaxEntries > 0 PROVE Cardinality(Cached) <= MaxEntries
    BY DEF SizeBound
  <2>1. Cached = {}
    BY DEF Init, Cached, NoEntry
  <2> QED BY <2>1, FS_EmptySet, CacheAssumption
<1> QED BY TypeInit, TypeStep, <1>1, SizeStep, PTL DEF Spec

-----------------------------------------------------------------------------
(* Coalescing *)

\* Client d is still to wake those who wait for it.
AtWork(q) == Leading(q) \/ q.at = "wake"

\* The table of calls and the clients agree, in both directions: the leaders
\* are the clients in the table, each under its own name, and who waits, waits
\* for a client that is at work on the same name.
FlightInv ==
  /\ \A c \in Clients : Leading(query[c]) => calls[query[c].name] = c
  /\ \A n \in Names : calls[n] # Nobody => /\ Leading(query[calls[n]])
                                           /\ query[calls[n]].name = n
  /\ \A c \in Clients : query[c].waitsFor # Nobody => At(c, "wait")
  /\ \A c \in Clients : At(c, "wait") => /\ query[c].waitsFor \in Clients
                                         /\ AtWork(query[query[c].waitsFor])
                                         /\ query[query[c].waitsFor].name = query[c].name

LEMMA LeadsMeaning ==
  ASSUME TypeInv, NEW c \in Clients
  PROVE  /\ Leading(query[c]) <=> Leads(c) /\ ~At(c, "wake")
         /\ AtWork(query[c]) <=> Leads(c)
         /\ ~At(c, "idle") => (Depth(c) > 0 <=> Len(query[c].stack) > 1)
<1>1. ~At(c, "idle") => (Depth(c) > 0 <=> Len(query[c].stack) > 1)
  BY TopType DEF Depth
<1> QED BY <1>1 DEF Leading, AtWork, Leads, At

LEMMA FlightImplies == TypeInv /\ FlightInv => OneFlight /\ Awaited
BY LeadsMeaning DEF FlightInv, OneFlight, Awaited, At

LEMMA LeadingLabels ==
  ASSUME NEW q, Leading(q)
  PROVE  q.at \notin {"idle", "join", "wait", "wake"}
BY DEF Leading

\* The leader goes on with its work.
LEMMA WorkFlight ==
  ASSUME TypeInv, FlightInv, NEW c \in Clients, NEW q,
         query' = [query EXCEPT ![c] = q], UNCHANGED calls,
         Leading(query[c]), Leading(q),
         q.name = query[c].name, q.waitsFor = query[c].waitsFor
  PROVE  FlightInv'
<1>1. query \in [Clients -> State] /\ calls \in [Names -> Clients \cup {Nobody}]
  BY DEF TypeInv, CacheTypeOK
<1>2. \A d \in Clients : query'[d] = IF d = c THEN q ELSE query[d]
  BY <1>1
<1>3. q.at # "wait" /\ query[c].at # "wait"
  BY LeadingLabels
<1>4. \A d \in Clients : /\ Leading(query'[d]) <=> Leading(query[d])
                         /\ AtWork(query[d]) => AtWork(query'[d])
                         /\ query'[d].name = query[d].name
                         /\ query'[d].waitsFor = query[d].waitsFor
                         /\ query'[d].at = "wait" <=> query[d].at = "wait"
  BY <1>2, <1>3 DEF AtWork
<1> QED BY <1>1, <1>4 DEF FlightInv, At

\* A client that neither leads nor waits does something of its own.
LEMMA QuietFlight ==
  ASSUME TypeInv, FlightInv, NEW c \in Clients, NEW q,
         query' = [query EXCEPT ![c] = q], UNCHANGED calls,
         ~AtWork(query[c]), query[c].at # "wait",
         ~AtWork(q), q.at # "wait", q.waitsFor = Nobody
  PROVE  FlightInv'
<1>1. query \in [Clients -> State] /\ calls \in [Names -> Clients \cup {Nobody}]
  BY DEF TypeInv, CacheTypeOK
<1>2. \A d \in Clients : query'[d] = IF d = c THEN q ELSE query[d]
  BY <1>1
<1>3. \A d \in Clients : AtWork(query[d]) => d # c /\ query'[d] = query[d]
  BY <1>2
<1>4. \A d \in Clients : Leading(query'[d]) => d # c /\ query'[d] = query[d]
  BY <1>2 DEF AtWork
<1>5. \A n \in Names : calls[n] # Nobody => calls[n] \in Clients /\ AtWork(query[calls[n]])
  BY <1>1 DEF FlightInv, AtWork
<1>6. \A d \in Clients : query'[d].at = "wait" => d # c /\ query'[d] = query[d]
  BY <1>2
<1>7. \A d \in Clients : query'[d].waitsFor # Nobody => d # c /\ query'[d] = query[d]
  BY <1>2
<1> QED BY <1>1, <1>3, <1>4, <1>5, <1>6, <1>7 DEF FlightInv, At

LEMMA JoinFlight ==
  ASSUME TypeInv, FlightInv, NEW c \in Clients, Join(c)
  PROVE  FlightInv'
<1>1. query \in [Clients -> State] /\ calls \in [Names -> Clients \cup {Nobody}]
  BY DEF TypeInv, CacheTypeOK
<1>2. /\ query[c].at = "join" /\ Len(query[c].stack) = 1
      /\ query[c].stack[1].name = query[c].name /\ query[c].name \in Names
  BY DEF Join, At, TypeInv, Stacked
<1>3. Name(c) = query[c].name
  BY <1>2 DEF Name, Top
<1>4. ~AtWork(query[c]) /\ query[c].waitsFor = Nobody
  BY <1>2, LeadingLabels DEF AtWork, FlightInv, At
<1> DEFINE n == query[c].name
<1>5. query[c] \in State
  BY <1>1
<1>6. CASE calls[n] = Nobody /\ calls' = [calls EXCEPT ![n] = c] /\ Goto(c, "lookup")
  <2> DEFINE q == [query[c] EXCEPT !.at = "lookup"]
  <2>1. query' = [query EXCEPT ![c] = q]
    BY <1>6 DEF Goto
  <2>2. q.at = "lookup" /\ q.name = n /\ q.waitsFor = Nobody
    BY <1>4, <1>5 DEF State
  <2>3. Leading(q)
    BY <2>2 DEF Leading
  <2> HIDE DEF q
  <2>4. \A d \in Clients : query'[d] = IF d = c THEN q ELSE query[d]
    BY <1>1, <2>1
  <2>5. \A m \in Names : calls'[m] = IF m = n THEN c ELSE calls[m]
    BY <1>1, <1>6
  <2>6. \A d \in Clients : Leading(query[d]) => d # c /\ query[d].name # n
    BY <1>4, <1>6, CacheAssumption DEF FlightInv, AtWork
  <2>7. \A d \in Clients : Leading(query[d]) => query[d].name \in Names
    BY LeadingLabels DEF TypeInv, Stacked, At
  <2>8. \A d \in Clients : query'[d].name = query[d].name
    BY <2>2, <2>4
  <2>9. \A d \in Clients : AtWork(query[d]) => AtWork(query'[d])
    BY <2>3, <2>4 DEF AtWork
  <2>10. \A d \in Clients : Leading(query'[d]) => calls'[query'[d].name] = d
    BY <2>2, <2>4, <2>5, <2>6, <2>7, <1>2 DEF FlightInv
  <2>11. \A m \in Names : calls'[m] # Nobody => /\ Leading(query'[calls'[m]])
                                                /\ query'[calls'[m]].name = m
    <3> SUFFICES ASSUME NEW m \in Names, calls'[m] # Nobody
                 PROVE  Leading(query'[calls'[m]]) /\ query'[calls'[m]].name = m
      OBVIOUS
    <3>1. CASE m = n
      BY <3>1, <2>2, <2>3, <2>4, <2>5
    <3>2. CASE m # n
      <4>1. calls'[m] = calls[m] /\ calls[m] \in Clients
        BY <3>2, <2>5, <1>1
      <4>2. Leading(query[calls[m]]) /\ query[calls[m]].name = m
        BY <4>1 DEF FlightInv
      <4>3. query'[calls[m]] = query[calls[m]]
        BY <4>1, <4>2, <2>4, <2>6
      <4> QED BY <4>1, <4>2, <4>3
    <3> QED BY <3>1, <3>2
  <2>12. \A d \in Clients : /\ query'[d].waitsFor = query[d].waitsFor
                            /\ query'[d].at = "wait" <=> query[d].at = "wait"
    BY <1>2, <1>4, <2>2, <2>4
  <2> QED BY <2>8, <2>9, <2>10, <2>11, <2>12 DEF FlightInv, At
<1>7. CASE /\ calls[n] # Nobody /\ UNCHANGED calls
           /\ query' = [query EXCEPT ![c].at = "wait", ![c].waitsFor = calls[n]]
  <2> DEFINE q == [query[c] EXCEPT !.at = "wait", !.waitsFor = calls[n]]
  <2>1. query' = [query EXCEPT ![c] = q]
    BY <1>7
  <2>2. q.at = "wait" /\ q.name = n /\ q.waitsFor = calls[n]
    BY <1>5 DEF State
  <2>3. ~AtWork(q)
    BY <2>2, LeadingLabels DEF AtWork
  <2> HIDE DEF q
  <2>4. \A d \in Clients : query'[d] = IF d = c THEN q ELSE query[d]
    BY <1>1, <2>1
  <2>5. calls[n] \in Clients /\ Leading(query[calls[n]]) /\ query[calls[n]].name = n
    BY <1>1, <1>2, <1>7 DEF FlightInv
  <2>6. \A d \in Clients : /\ query'[d].name = query[d].name
                           /\ AtWork(query[d]) => AtWork(query'[d])
                           /\ Leading(query'[d]) <=> Leading(query[d])
    BY <1>4, <2>2, <2>3, <2>4 DEF AtWork
  <2>7. \A d \in Clients : d # c => query'[d] = query[d]
    BY <2>4
  <2>8. query'[c] = q
    BY <2>4
  <2>9. \A d \in Clients : query'[d].at = "wait" =>
                             /\ query'[d].waitsFor \in Clients
                             /\ AtWork(query'[query'[d].waitsFor])
                             /\ query'[query'[d].waitsFor].name = query'[d].name
    <3> SUFFICES ASSUME NEW d \in Clients, query'[d].at = "wait"
                 PROVE  /\ query'[d].waitsFor \in Clients
                        /\ AtWork(query'[query'[d].waitsFor])
                        /\ query'[query'[d].waitsFor].name = query'[d].name
      OBVIOUS
    <3>1. CASE d = c
      BY <3>1, <2>2, <2>5, <2>6, <2>8 DEF AtWork
    <3>2. CASE d # c
      BY <3>2, <2>6, <2>7 DEF FlightInv, At
    <3> QED BY <3>1, <3>2
  <2>10. \A d \in Clients : query'[d].waitsFor # Nobody => query'[d].at = "wait"
    BY <2>2, <2>4 DEF FlightInv, At
  <2>11. \A m \in Names : calls[m] # Nobody => calls[m] \in Clients
    BY <1>1
  <2>12. \A d \in Clients : Leading(query'[d]) => calls'[query'[d].name] = d
    BY <1>7, <2>6 DEF FlightInv
  <2>13. \A m \in Names : calls'[m] # Nobody => /\ Leading(query'[calls'[m]])
                                                /\ query'[calls'[m]].name = m
    BY <1>7, <2>6, <2>11 DEF FlightInv
  <2> QED BY <2>9, <2>10, <2>12, <2>13 DEF FlightInv, At
<1> QED BY <1>3, <1>6, <1>7 DEF Join

LEMMA UnregisterFlight ==
  ASSUME TypeInv, FlightInv, NEW c \in Clients, Unregister(c)
  PROVE  FlightInv'
<1> DEFINE n == query[c].name
           q == [query[c] EXCEPT !.at = "wake"]
<1>1. query \in [Clients -> State] /\ calls \in [Names -> Clients \cup {Nobody}]
  BY DEF TypeInv, CacheTypeOK
<1>2. query[c] \in State /\ query[c].at = "return" /\ n \in Names
  BY <1>1 DEF Unregister, At, TypeInv, Stacked
<1>3. Leading(query[c]) /\ calls[n] = c
  BY <1>2 DEF Leading, FlightInv
<1>4. query' = [query EXCEPT ![c] = q] /\ calls' = [calls EXCEPT ![n] = Nobody]
  BY DEF Unregister, Goto
<1>5. q.at = "wake" /\ q.name = n /\ q.waitsFor = query[c].waitsFor
  BY <1>2 DEF State
<1>6. ~Leading(q) /\ AtWork(q)
  BY <1>5, LeadingLabels DEF AtWork
<1> HIDE DEF q
<1>7. \A d \in Clients : query'[d] = IF d = c THEN q ELSE query[d]
  BY <1>1, <1>4
<1>8. \A m \in Names : calls'[m] = IF m = n THEN Nobody ELSE calls[m]
  BY <1>1, <1>4
<1>9. \A d \in Clients : Leading(query[d]) /\ d # c => query[d].name \in Names \ {n}
  BY <1>3, LeadingLabels DEF FlightInv, TypeInv, Stacked, At
<1>10. \A d \in Clients : Leading(query'[d]) => calls'[query'[d].name] = d
  BY <1>6, <1>7, <1>8, <1>9 DEF FlightInv
<1>11. \A m \in Names : calls'[m] # Nobody => /\ Leading(query'[calls'[m]])
                                              /\ query'[calls'[m]].name = m
  <2> SUFFICES ASSUME NEW m \in Names, calls'[m] # Nobody
               PROVE  Leading(query'[calls'[m]]) /\ query'[calls'[m]].name = m
    OBVIOUS
  <2>1. m # n /\ calls'[m] = calls[m] /\ calls[m] \in Clients
    BY <1>1, <1>8
  <2>2. Leading(query[calls[m]]) /\ query[calls[m]].name = m
    BY <2>1 DEF FlightInv
  <2>3. query'[calls[m]] = query[calls[m]]
    BY <2>1, <2>2, <1>7
  <2> QED BY <2>1, <2>2, <2>3
<1>12. \A d \in Clients : /\ query'[d].waitsFor = query[d].waitsFor
                          /\ query'[d].at = "wait" <=> query[d].at = "wait"
                          /\ query'[d].name = query[d].name
                          /\ AtWork(query[d]) => AtWork(query'[d])
  BY <1>2, <1>5, <1>6, <1>7
<1> QED BY <1>10, <1>11, <1>12 DEF FlightInv, At

LEMMA WakeFlight ==
  ASSUME TypeInv, FlightInv, NEW c \in Clients, Wake(c)
  PROVE  FlightInv'
<1>1. query \in [Clients -> State] /\ calls \in [Names -> Clients \cup {Nobody}]
  BY DEF TypeInv, CacheTypeOK
<1>2. /\ \A d \in Clients : query'[d] = IF d = c \/ query[d].waitsFor = c THEN Idle ELSE query[d]
      /\ UNCHANGED calls /\ query[c].at = "wake"
  BY DEF Wake, At
<1>3. Idle.at = "idle" /\ Idle.waitsFor = Nobody
  BY IdleType
<1>4. ~Leading(Idle)
  BY <1>3, LeadingLabels
<1>5. \A d \in Clients : query[d].waitsFor = c => query[d].at = "wait"
  BY CacheAssumption DEF FlightInv, At
<1>6. \A d \in Clients : Leading(query[d]) => query'[d] = query[d]
  BY <1>2, <1>5, LeadingLabels
<1>7. \A d \in Clients : Leading(query'[d]) => query'[d] = query[d]
  BY <1>2, <1>4
<1>8. \A d \in Clients : d # c /\ AtWork(query[d]) => query'[d] = query[d]
  BY <1>2, <1>5, LeadingLabels DEF AtWork
<1>9. \A d \in Clients : query'[d].at = "wait" \/ query'[d].waitsFor # Nobody
                           => query'[d] = query[d] /\ query[d].waitsFor # c
  BY <1>2, <1>3
<1>10. \A n \in Names : calls[n] # Nobody => calls[n] \in Clients
  BY <1>1
<1> QED BY <1>2, <1>6, <1>7, <1>8, <1>9, <1>10 DEF FlightInv, At

LEMMA FlightStep == TypeInv /\ FlightInv /\ [Next]_vars => FlightInv'
<1> SUFFICES ASSUME TypeInv, FlightInv, [Next]_vars PROVE FlightInv'
  OBVIOUS
<1>q. query \in [Clients -> State]
  BY DEF TypeInv, CacheTypeOK
<1>1. ASSUME NEW c \in Clients,
             \/ Hit(c) /\ Depth(c) > 0
             \/ Miss(c) /\ Depth(c) > 0
             \/ Lookup(c) \/ Panic(c) \/ GetStale(c) \/ Set(c) \/ Return(c)
      PROVE  FlightInv'
  <2>1. PICK q : Moves(c, q) /\ Leading(q) /\ q.waitsFor = query[c].waitsFor
    BY <1>1, WorkLeads
  <2>2. ~At(c, "idle") /\ UNCHANGED calls
    BY <1>1 DEF Hit, Miss, Lookup, Panic, GetStale, Set, Return, At
  <2>3. Leading(query[c])
    BY <1>1, <2>2, LeadsMeaning
       DEF Hit, Miss, Lookup, Panic, GetStale, Set, Return, At, Leading
  <2> QED BY <2>1, <2>2, <2>3, WorkFlight DEF Moves
<1>2. ASSUME NEW c \in Clients, NEW n \in Names, Query(c, n) PROVE FlightInv'
  <2>1. PICK q \in State : /\ query' = [query EXCEPT ![c] = q]
                           /\ q.at = "get" /\ q.waitsFor = Nobody /\ Len(q.stack) = 1
    BY <1>2, QueryMoves
  <2>2. ~AtWork(q)
    BY <2>1 DEF AtWork, Leading
  <2>3. query[c].at = "idle" /\ UNCHANGED calls
    BY <1>2 DEF Query, At
  <2>4. ~AtWork(query[c])
    BY <2>3, LeadingLabels DEF AtWork
  <2> QED BY <2>1, <2>2, <2>3, <2>4, QuietFlight
<1>3. ASSUME NEW c \in Clients, \/ Hit(c) /\ ~(Depth(c) > 0)
                                \/ Miss(c) /\ ~(Depth(c) > 0)
      PROVE  FlightInv'
  <2>1. query[c].at = "get" /\ UNCHANGED calls /\ Depth(c) \in Nat /\ ~(Len(query[c].stack) > 1)
    BY <1>3, TopType, LeadsMeaning DEF Hit, Miss, At
  <2>2. ~AtWork(query[c])
    BY <2>1 DEF AtWork, Leading
  <2>3. query[c].waitsFor = Nobody
    BY <2>1 DEF FlightInv, At
  <2>4. CASE query' = [query EXCEPT ![c] = Idle]
    <3>1. Idle.at = "idle" /\ Idle.waitsFor = Nobody
      BY IdleType
    <3>2. ~AtWork(Idle)
      BY <3>1, LeadingLabels DEF AtWork
    <3> QED BY <2>1, <2>2, <2>4, <3>1, <3>2, QuietFlight
  <2>5. CASE Goto(c, "join")
    <3> DEFINE q == [query[c] EXCEPT !.at = "join"]
    <3>1. query' = [query EXCEPT ![c] = q]
      BY <2>5 DEF Goto
    <3>2. query[c] \in State
      BY <1>q
    <3>3. q.at = "join" /\ q.waitsFor = query[c].waitsFor
      BY <3>2 DEF State
    <3> HIDE DEF q
    <3>4. ~AtWork(q)
      BY <3>3, LeadingLabels DEF AtWork
    <3> QED BY <2>1, <2>2, <2>3, <3>1, <3>3, <3>4, QuietFlight
  <2> QED BY <1>3, <2>1, <2>4, <2>5 DEF Hit, Miss
<1>4. ASSUME NEW c \in Clients, Work(c) PROVE FlightInv'
  BY <1>1, <1>3, <1>4, JoinFlight, UnregisterFlight, WakeFlight DEF Work
<1>5. CASE UNCHANGED <<query, calls>>
  BY <1>5 DEF FlightInv, At
<1> QED BY <1>2, <1>4, <1>5 DEF Next, Flush, Cleanup, Tick, vars

LEMMA FlightInit == Init => FlightInv
<1> SUFFICES ASSUME Init PROVE FlightInv
  OBVIOUS
<1>1. Idle.at = "idle" /\ Idle.waitsFor = Nobody
  BY TypeInit, IdleType
<1>2. ~Leading(Idle)
  BY <1>1, LeadingLabels
<1> QED BY <1>1, <1>2 DEF Init, FlightInv, At

\* One client at most resolves a name for all who ask for it, and it is the
\* one the table of calls names (flightGroup.do).
THEOREM Coalesced == Spec => []OneFlight
BY TypeInit, TypeStep, FlightInit, FlightStep, FlightImplies, PTL DEF Spec

\* Nobody waits for a client that has forgotten it, that waits itself, or that
\* works on another name, whatever fails or panics (flightGroup.do).
THEOREM NobodyWaitsInVain == Spec => []Awaited
BY TypeInit, TypeStep, FlightInit, FlightStep, FlightImplies, PTL DEF Spec

-----------------------------------------------------------------------------
(* The last good answer *)

\* As long as the last good answer is owed, the cache has it.
GoodInv ==
  \A n \in Names :
    now < goodUntil[n] => /\ entries[n].kind \in WithRecords
                          /\ goodUntil[n] <= entries[n].expiresAt + StaleWindow + 1

LEMMA GoodSet ==
  ASSUME TypeInv, GoodInv, NEW c \in Clients, Set(c)
  PROVE  GoodInv'
<1> DEFINE n == Name(c)
           a == query[c].ans
<1>1. n \in Names /\ query[c] \in State
  BY TopType DEF Set, At
<1>2. a \in Answer
  BY <1>1 DEF State
<1>3. now \in Nat /\ AnswerTTL(a) \in Nat /\ StaleWindow \in Nat /\ now' = now
  BY <1>2, AnswerTypes, CacheAssumption DEF Set
<1> HIDE DEF n, a
<1>4. CASE UNCHANGED <<entries, goodUntil>>
  BY <1>3, <1>4 DEF GoodInv
<1>5. ASSUME ~Refused(n, a), NEW gone \in Evicted,
             entries' = [m \in Names |-> IF m = n THEN NewEntry(a)
                                         ELSE IF m \in gone THEN NoEntry
                                         ELSE entries[m]],
             goodUntil' = [m \in Names |->
               IF m = n /\ a.kind \in WithRecords THEN now + AnswerTTL(a) + StaleWindow + 1
               ELSE IF (m = n /\ a.kind # "fail") \/ m \in gone \ {n} THEN 0
               ELSE goodUntil[m]]
      PROVE  GoodInv'
  <2> SUFFICES ASSUME NEW m \in Names, now' < goodUntil'[m]
               PROVE  /\ entries'[m].kind \in WithRecords
                      /\ goodUntil'[m] <= entries'[m].expiresAt + StaleWindow + 1
    BY DEF GoodInv
  <2>1. CASE m = n /\ a.kind \in WithRecords
    <3>1. goodUntil'[m] = now + AnswerTTL(a) + StaleWindow + 1
      BY <1>5, <2>1
    <3>2. entries'[m] = NewEntry(a)
      BY <1>5, <2>1
    <3>3. NewEntry(a).kind = a.kind /\ NewEntry(a).expiresAt = now + AnswerTTL(a)
      BY DEF NewEntry
    <3> QED BY <1>3, <2>1, <3>1, <3>2, <3>3
  <2>2. CASE m = n /\ a.kind \notin WithRecords /\ a.kind # "fail"
    BY <1>3, <1>5, <2>2
  <2>3. CASE m = n /\ a.kind = "fail"
    <3>1. goodUntil'[m] = goodUntil[m]
      BY <1>5, <2>3 DEF WithRecords
    <3>2. entries[m].kind \notin WithRecords
      BY <1>5, <2>3 DEF Refused, Success, WithRecords
    <3> QED BY <1>3, <3>1, <3>2 DEF GoodInv
  <2>4. CASE m # n /\ m \in gone
    BY <1>3, <1>5, <2>4
  <2>5. CASE m # n /\ m \notin gone
    <3>1. goodUntil'[m] = goodUntil[m] /\ entries'[m] = entries[m]
      BY <1>5, <2>5
    <3> QED BY <1>3, <3>1 DEF GoodInv
  <2> QED BY <2>1, <2>2, <2>3, <2>4, <2>5
<1> QED BY <1>4, <1>5 DEF Set, n, a

LEMMA GoodStep == TypeInv /\ GoodInv /\ [Next]_vars => GoodInv'
<1> SUFFICES ASSUME TypeInv, GoodInv, [Next]_vars PROVE GoodInv'
  OBVIOUS
<1>1. now \in Nat /\ StaleWindow \in Nat
  BY AnswerTypes, CacheAssumption
<1>2. \A n \in Names : /\ goodUntil[n] \in Nat
                       /\ entries[n] \in Entry /\ entries[n].expiresAt \in Nat
  BY DEF TypeInv, CacheTypeOK, Entry
<1>3. CASE UNCHANGED <<now, entries, goodUntil>>
  BY <1>3 DEF GoodInv
<1>4. ASSUME NEW c \in Clients, (\E n \in Names : Query(c, n)) \/ Work(c) PROVE GoodInv'
  BY <1>3, <1>4, GoodSet
  DEF Query, Work, Hit, Miss, Join, Lookup, Panic, GetStale, Return, Unregister, Wake
<1>5. CASE Flush
  BY <1>1, <1>5 DEF Flush, GoodInv
<1>6. CASE Cleanup
  <2> SUFFICES ASSUME NEW n \in Names, now < goodUntil[n]
               PROVE  entries'[n] = entries[n]
    BY <1>6 DEF Cleanup, GoodInv
  <2>1. ~(now > entries[n].expiresAt + StaleWindow)
    BY <1>1, <1>2 DEF GoodInv
  <2> QED BY <1>6, <2>1 DEF Cleanup
<1>7. CASE Tick
  BY <1>1, <1>2, <1>7 DEF Tick, GoodInv
<1> QED BY <1>3, <1>4, <1>5, <1>6, <1>7 DEF Next, vars

\* Only GetStale gives up on a name, and only if it finds nothing to serve.
LEMMA GivesUp ==
  ASSUME TypeInv, [Next]_vars, NEW c \in Clients, At(c, "stale"), query'[c].at = "set"
  PROVE  ~Servable(Name(c))
<1>1. query \in [Clients -> State] /\ query[c] \in State
  BY DEF TypeInv, CacheTypeOK
<1>2. query' # query
  BY DEF At
<1>3. PICK d \in Clients : (\E n \in Names : Query(d, n)) \/ Work(d)
  BY <1>2 DEF Next, Flush, Cleanup, Tick, vars
<1>4. ~Wake(d)
  <2>1. Idle.at = "idle"
    BY IdleType
  <2> QED BY <2>1 DEF Wake, At
<1>5. d = c
  BY <1>1, <1>3, <1>4
  DEF Query, Work, Hit, Miss, Join, Lookup, Panic, GetStale, Set, Return, Unregister,
      Goto, Carry, Descend, At
<1>6. GetStale(c)
  BY <1>3, <1>4, <1>5
  DEF Query, Work, Hit, Miss, Join, Lookup, Panic, Set, Return, Unregister, At
<1>7. ASSUME NEW a, Carry(c, "return", a) PROVE FALSE
  BY <1>1, <1>7 DEF Carry, State
<1> QED BY <1>6, <1>7 DEF GetStale

LEMMA LastResortStep ==
  TypeInv /\ GoodInv /\ [Next]_vars =>
    [\A c \in Clients : At(c, "stale") /\ query'[c].at = "set" => now >= goodUntil[Name(c)]]_vars
<1> SUFFICES ASSUME TypeInv, GoodInv, [Next]_vars,
                    NEW c \in Clients, At(c, "stale"), query'[c].at = "set"
             PROVE  now >= goodUntil[Name(c)]
  OBVIOUS
<1>1. Name(c) \in Names
  BY TopType DEF At
<1>2. /\ now \in Nat /\ StaleWindow \in Nat /\ goodUntil[Name(c)] \in Nat
      /\ entries[Name(c)].expiresAt \in Nat
  BY <1>1, AnswerTypes, CacheAssumption DEF TypeInv, CacheTypeOK, Entry
<1>3. ~Servable(Name(c))
  BY GivesUp
<1> QED BY <1>1, <1>2, <1>3 DEF Servable, GoodInv

\* A failure is given out only if the cache owes no good answer any more:
\* neither failures nor the clean-up cost anybody one (GetStale, Set, Cleanup).
THEOREM NoAnswerLost == Spec => LastResort
<1>1. Init => GoodInv
  BY DEF Init, GoodInv
<1> QED BY <1>1, TypeInit, TypeStep, GoodStep, LastResortStep, PTL DEF Spec, LastResort

-----------------------------------------------------------------------------
(* Freshness.  An answer with data that is cached under k names in turn,    *)
(* each the alias of the next, may have gained k times what one level may   *)
(* add; no chain of aliases that ends has more links than there are names.  *)

Bigger(i, j) == IF i < j THEN j ELSE i

\* What k levels may add to an answer's life.
Grace(k) == k * (MinTTL + MaxLag)

\* n is the first of k names of which each is an alias of the next.
Path(n, k) ==
  \E p \in [1 .. k -> Names] : /\ p[1] = n /\ Alias[p[k]] = NoName
                              /\ \A i \in 1 .. k - 1 : p[i + 1] = Alias[p[i]]

Levels == 1 .. Cardinality(Names)

Data(a) == a.kind = "ok" /\ ~a.stale
Absence(a) == a.kind = "nodata" /\ ~a.stale

\* The answer a for n, if it is stored by t at the latest, gains what the names
\* that n leads to explain, and that many levels more.
DataLasts(n, t, a, more) ==
  Data(a) => \E k \in Levels : /\ Path(n, k)
                               /\ t + Bigger(a.ttl, MinTTL) <= a.until + Grace(k + more)

AbsenceLasts(t, a) ==
  Absence(a) => t + Bigger(a.ttl, MinNegTTL) <= a.until + MinNegTTL + MaxLag

\* The aliases a client has followed: each led to the next name, and was fresh.
FreshFrames(frames, t) ==
  \A i \in 2 .. Len(frames) :
    frames[i].why = "alias" => /\ frames[i].name = Alias[frames[i - 1].name]
                               /\ t + Bigger(frames[i].ttl, MinTTL) <= frames[i].until + Grace(1)

\* When a client's query is over.
Deadline(q) == q.since + MaxLag
Asked(q) == q.stack[Len(q.stack)].name

FreshClient(q) ==
  /\ q.at = "stale" => q.ans.kind = "fail"
  /\ q.at = "set" => DataLasts(Asked(q), Deadline(q), q.ans, 0) /\ AbsenceLasts(Deadline(q), q.ans)
  /\ q.at = "return" => DataLasts(Asked(q), Deadline(q), q.ans, 1)
  /\ FreshFrames(q.stack, Deadline(q))

FreshEntry(n, e) ==
  /\ Data(e) => \E k \in Levels : /\ Path(n, k)
                                  /\ e.cachedAt + e.ttl <= e.until + Grace(k)
                                  /\ e.expiresAt <= e.until + Grace(k)
  /\ Absence(e) => e.expiresAt <= e.until + MinNegTTL + MaxLag

\* Clients are in time, and nothing is cached in the future.
Timely ==
  /\ \A c \in Clients : ~At(c, "idle") => query[c].since <= now /\ now <= Deadline(query[c])
  /\ \A n \in Names : entries[n].cachedAt <= now

FreshInv ==
  /\ Timely
  /\ \A c \in Clients : FreshClient(query[c])
  /\ \A n \in Names : FreshEntry(n, entries[n])

LEMMA GraceFacts ==
  /\ Grace(1) = MinTTL + MaxLag
  /\ \A k \in Nat : Grace(k) \in Nat /\ Grace(k + 1) = Grace(k) + Grace(1)
  /\ \A j, k \in Nat : j <= k => Grace(j) <= Grace(k)
<1> DEFINE step == MinTTL + MaxLag
<1>1. step \in Nat
  BY CacheAssumption
<1> HIDE DEF step
<1>2. ASSUME NEW k \in Nat PROVE k * step \in Nat /\ (k + 1) * step = k * step + step
  BY <1>1
<1>3. ASSUME NEW j \in Nat, NEW k \in Nat, j <= k PROVE j * step <= k * step
  <2>1. k - j \in Nat /\ k = j + (k - j)
    BY <1>3
  <2>2. (k - j) * step \in Nat /\ j * step \in Nat
    BY <2>1, <1>1
  <2>3. (j + (k - j)) * step = j * step + (k - j) * step
    BY <2>1, <1>1
  <2> QED BY <2>1, <2>2, <2>3
<1>4. 1 * step = step
  BY <1>1
<1> QED BY <1>2, <1>3, <1>4 DEF Grace, step

\* An alias chain that ends meets no name twice.
LEMMA PathShort ==
  ASSUME NEW n, NEW k \in Nat \ {0}, Path(n, k)
  PROVE  k \in Levels
<1>1. PICK p \in [1 .. k -> Names] : /\ p[1] = n /\ Alias[p[k]] = NoName
                                    /\ \A i \in 1 .. k - 1 : p[i + 1] = Alias[p[i]]
  BY DEF Path
<1>2. ASSUME NEW i \in 1 .. k, NEW j \in 1 .. k, i < j
      PROVE  p[i] # p[j]
  <2> SUFFICES ASSUME p[i] = p[j] PROVE FALSE
    OBVIOUS
  <2> DEFINE S == {d \in Nat : d <= k - j => p[i + d] = p[j + d]}
  <2>1. 0 \in S
    OBVIOUS
  <2>2. ASSUME NEW d \in S PROVE d + 1 \in S
    <3> SUFFICES ASSUME d + 1 <= k - j PROVE p[i + (d + 1)] = p[j + (d + 1)]
      OBVIOUS
    <3>1. i + d \in 1 .. k - 1 /\ j + d \in 1 .. k - 1 /\ p[i + d] = p[j + d]
      BY <1>2
    <3>2. p[(i + d) + 1] = Alias[p[i + d]] /\ p[(j + d) + 1] = Alias[p[j + d]]
      BY <3>1, <1>1
    <3>3. (i + d) + 1 = i + (d + 1) /\ (j + d) + 1 = j + (d + 1)
      OBVIOUS
    <3> QED BY <3>1, <3>2, <3>3
  <2>3. S \in SUBSET Nat
    OBVIOUS
  <2> HIDE DEF S
  <2>4. k - j \in Nat
    BY <1>2
  <2>5. k - j \in S
    BY <2>1, <2>2, <2>3, <2>4, Induction
  <2>6. p[i + (k - j)] = p[j + (k - j)] /\ j + (k - j) = k
    BY <2>4, <2>5 DEF S
  <2>7. i + (k - j) \in 1 .. k - 1
    BY <1>2
  <2>8. p[(i + (k - j)) + 1] = Alias[p[k]] /\ p[(i + (k - j)) + 1] \in Names
    BY <2>6, <2>7, <1>1
  <2> QED BY <2>8, <1>1, CacheAssumption
<1>3. p \in Injection(1 .. k, Names)
  <2>1. \A i, j \in 1 .. k : p[i] = p[j] => i = j
    BY <1>2
  <2> QED BY <2>1 DEF Injection, IsInjective
<1>4. Cardinality(1 .. k) <= Cardinality(Names)
  BY <1>3, FS_Injection, CacheAssumption
<1>5. Cardinality(1 .. k) = k
  BY FS_Interval
<1>6. Cardinality(Names) \in Nat
  BY FS_CardinalityType, CacheAssumption
<1> QED BY <1>4, <1>5, <1>6 DEF Levels

LEMMA PathAlone ==
  ASSUME NEW n \in Names, Alias[n] = NoName
  PROVE  1 \in Levels /\ Path(n, 1)
<1> DEFINE p == [i \in 1 .. 1 |-> n]
<1>1. p \in [1 .. 1 -> Names] /\ p[1] = n
  OBVIOUS
<1> HIDE DEF p
<1>2. Path(n, 1)
  BY <1>1 DEF Path
<1> QED BY <1>2, PathShort

LEMMA PathExtends ==
  ASSUME NEW n \in Names, Alias[n] \in Names, NEW k \in Levels, Path(Alias[n], k)
  PROVE  k + 1 \in Levels /\ Path(n, k + 1)
<1>1. k \in Nat \ {0}
  BY FS_CardinalityType, CacheAssumption DEF Levels
<1>2. PICK p \in [1 .. k -> Names] : /\ p[1] = Alias[n] /\ Alias[p[k]] = NoName
                                    /\ \A i \in 1 .. k - 1 : p[i + 1] = Alias[p[i]]
  BY DEF Path
<1> DEFINE r == [i \in 1 .. k + 1 |-> IF i = 1 THEN n ELSE p[i - 1]]
<1>3. r \in [1 .. k + 1 -> Names]
  BY <1>1
<1>4. r[1] = n /\ r[k + 1] = p[k]
  BY <1>1
<1>5. ASSUME NEW i \in 1 .. (k + 1) - 1 PROVE r[i + 1] = Alias[r[i]]
  <2>1. r[i + 1] = p[i]
    BY <1>1
  <2>2. CASE i = 1
    BY <2>1, <2>2, <1>2, <1>4
  <2>3. CASE i # 1
    <3>1. i - 1 \in 1 .. k - 1 /\ (i - 1) + 1 = i /\ r[i] = p[i - 1]
      BY <2>3, <1>1
    <3> QED BY <2>1, <3>1, <1>2
  <2> QED BY <2>2, <2>3
<1> HIDE DEF r
<1>6. Path(n, k + 1)
  BY <1>2, <1>3, <1>4, <1>5 DEF Path
<1>7. k + 1 \in Nat \ {0}
  BY <1>1
<1> QED BY <1>6, <1>7, PathShort

LEMMA LevelsType == \A k \in Levels : k \in Nat \ {0} /\ k <= Cardinality(Names)
                                      /\ Cardinality(Names) \in Nat
BY FS_CardinalityType, CacheAssumption DEF Levels

LEMMA FreshImplies == TypeInv /\ FreshInv => DataFresh
<1> SUFFICES ASSUME TypeInv, FreshInv, NEW n \in Names,
                    entries[n].kind \in {"ok", "nodata"}, ~entries[n].stale
             PROVE  entries[n].expiresAt <= entries[n].until + Slack(entries[n].kind)
  BY DEF DataFresh, Cached
<1> DEFINE e == entries[n]
<1>1. e.expiresAt \in Nat /\ e.until \in Nat /\ FreshEntry(n, e)
  BY DEF FreshInv, TypeInv, CacheTypeOK, Entry
<1> HIDE DEF e
<1>2. CASE e.kind = "ok" /\ ~e.stale
  <2>1. PICK k \in Levels : e.expiresAt <= e.until + Grace(k)
    BY <1>1, <1>2 DEF FreshEntry, Data
  <2>2. Grace(k) <= Grace(Cardinality(Names)) /\ {Grace(k), Grace(Cardinality(Names))} \subseteq Nat
    BY LevelsType, GraceFacts
  <2> QED BY <1>1, <1>2, <2>1, <2>2 DEF Slack, Grace, e
<1>3. CASE e.kind = "nodata" /\ ~e.stale
  <2>1. MinNegTTL \in Nat /\ MaxLag \in Nat
    BY CacheAssumption
  <2>2. e.expiresAt <= e.until + (MinNegTTL + MaxLag)
    BY <1>1, <1>3, <2>1 DEF FreshEntry, Absence
  <2> QED BY <1>3, <2>2 DEF Slack, e
<1> QED BY <1>2, <1>3 DEF e

LEMMA FreshMoves ==
  ASSUME TypeInv, FreshInv, NEW c \in Clients, NEW q, query' = [query EXCEPT ![c] = q],
         FreshClient(q)
  PROVE  \A d \in Clients : FreshClient(query'[d])
<1>1. query \in [Clients -> State]
  BY DEF TypeInv, CacheTypeOK
<1>2. \A d \in Clients : query'[d] = IF d = c THEN q ELSE query[d]
  BY <1>1
<1> QED BY <1>2 DEF FreshInv

\* A client at work: what the proofs need of it.
LEMMA AtWorkFacts ==
  ASSUME TypeInv, FreshInv, NEW c \in Clients, ~At(c, "idle")
  PROVE  /\ query[c] \in State /\ query[c].ans \in Answer /\ query[c].since \in Nat
         /\ Deadline(query[c]) \in Nat /\ Deadline(query[c]) <= now + MaxLag
         /\ now <= Deadline(query[c]) /\ now \in Nat
         /\ Asked(query[c]) = Name(c) /\ Name(c) \in Names
         /\ FreshClient(query[c])
<1>1. query[c] \in State /\ Name(c) \in Names /\ now \in Nat
  BY TopType, AnswerTypes
<1>2. query[c].ans \in Answer /\ query[c].since \in 0 .. MaxTime
  BY <1>1 DEF State
<1>3. query[c].since <= now /\ now <= Deadline(query[c]) /\ FreshClient(query[c])
  BY DEF FreshInv, Timely
<1>4. query[c].since \in Nat
  BY <1>2, CacheAssumption
<1>5. /\ Deadline(query[c]) \in Nat /\ Deadline(query[c]) <= now + MaxLag
  BY <1>1, <1>3, <1>4, CacheAssumption DEF Deadline
<1>6. Asked(query[c]) = Name(c)
  BY DEF Asked, Name, Top
<1> QED BY <1>1, <1>2, <1>3, <1>4, <1>5, <1>6

\* A client that goes to a label with nothing in hand, on the same names.
LEMMA GotoFresh ==
  ASSUME TypeInv, FreshInv, NEW c \in Clients, ~At(c, "idle"),
         NEW label \in Labels \ {"stale", "set", "return"}, Goto(c, label)
  PROVE  \A d \in Clients : FreshClient(query'[d])
<1> DEFINE q == [query[c] EXCEPT !.at = label]
<1>1. query' = [query EXCEPT ![c] = q]
  BY DEF Goto
<1>2. query[c] \in State /\ FreshClient(query[c])
  BY AtWorkFacts
<1>3. q.at = label /\ q.stack = query[c].stack /\ q.since = query[c].since
  BY <1>2 DEF State
<1> HIDE DEF q
<1>4. FreshClient(q)
  BY <1>2, <1>3 DEF FreshClient, Deadline
<1> QED BY <1>1, <1>4, FreshMoves

\* A client that has got an answer for the name on top.
LEMMA CarryFresh ==
  ASSUME TypeInv, FreshInv, NEW c \in Clients, ~At(c, "idle"), NEW label, NEW a,
         Carry(c, label, a),
         label = "stale" => a.kind = "fail",
         label = "set" => /\ DataLasts(Name(c), Deadline(query[c]), a, 0)
                          /\ AbsenceLasts(Deadline(query[c]), a),
         label = "return" => DataLasts(Name(c), Deadline(query[c]), a, 1)
  PROVE  \A d \in Clients : FreshClient(query'[d])
<1> DEFINE q == [query[c] EXCEPT !.at = label, !.ans = a]
<1>1. query' = [query EXCEPT ![c] = q]
  BY DEF Carry
<1>2. query[c] \in State /\ FreshClient(query[c]) /\ Asked(query[c]) = Name(c)
  BY AtWorkFacts
<1>3. /\ q.at = label /\ q.ans = a /\ q.stack = query[c].stack
      /\ q.since = query[c].since
  BY <1>2 DEF State
<1> HIDE DEF q
<1>4. Asked(q) = Name(c) /\ Deadline(q) = Deadline(query[c])
  BY <1>2, <1>3 DEF Asked, Deadline
<1>5. FreshFrames(q.stack, Deadline(q))
  BY <1>2, <1>3, <1>4 DEF FreshClient
<1>6. FreshClient(q)
  BY <1>3, <1>4, <1>5 DEF FreshClient
<1> QED BY <1>1, <1>6, FreshMoves

\* Handing out an entry costs one level: the floor of the aged TTL, the lower
\* limit, and the time the query may still take.
LEMMA HandedOut ==
  ASSUME NEW clock \in Nat, NEW ttl \in Nat, NEW cachedAt \in Nat, NEW expiresAt \in Nat,
         NEW until \in Nat, NEW gain \in Nat, NEW t \in Nat,
         cachedAt <= clock, clock <= expiresAt, t <= clock + MaxLag,
         cachedAt + ttl <= until + gain, expiresAt <= until + gain
  PROVE  t + Bigger(Aged(ttl, clock - cachedAt), MinTTL) <= until + (gain + (MinTTL + MaxLag))
BY CacheAssumption DEF Aged, Bigger

LEMMA HitFresh ==
  ASSUME TypeInv, FreshInv, NEW c \in Clients, Hit(c), Depth(c) > 0
  PROVE  \A d \in Clients : FreshClient(query'[d])
<1> DEFINE n == Name(c)
           e == entries[n]
<1>0. ~At(c, "idle")
  BY DEF Hit, At
<1>1. /\ n \in Names /\ now \in Nat
      /\ Deadline(query[c]) \in Nat /\ Deadline(query[c]) <= now + MaxLag
  BY <1>0, AtWorkFacts
<1>2. e \in Entry /\ FreshEntry(n, e) /\ e.cachedAt <= now
  BY <1>1 DEF TypeInv, CacheTypeOK, FreshInv, Timely
<1>3. now <= e.expiresAt
  BY <1>1, <1>2 DEF Hit, Fresh, Expired, Entry
<1>4. PICK ttl \in Remaining(e) :
        Carry(c, "return", [kind |-> e.kind, ttl |-> ttl, until |-> e.until, stale |-> e.stale])
  <2>1. Depth(c) # 0
    OBVIOUS
  <2> QED BY <2>1 DEF Hit
<1> DEFINE a == [kind |-> e.kind, ttl |-> ttl, until |-> e.until, stale |-> e.stale]
<1>5. /\ a.kind = e.kind /\ a.ttl = ttl /\ a.until = e.until /\ a.stale = e.stale
      /\ Carry(c, "return", a)
  BY <1>4
<1> HIDE DEF a, n, e
<1>6. DataLasts(n, Deadline(query[c]), a, 1)
  <2> SUFFICES ASSUME Data(a)
               PROVE  \E k \in Levels :
                        /\ Path(n, k)
                        /\ Deadline(query[c]) + Bigger(a.ttl, MinTTL) <= a.until + Grace(k + 1)
    BY DEF DataLasts
  <2>1. Data(e) /\ ttl = Aged(e.ttl, now - e.cachedAt)
    BY <1>4, <1>5 DEF Data, Remaining, WithRecords
  <2>2. PICK k \in Levels : /\ Path(n, k) /\ e.cachedAt + e.ttl <= e.until + Grace(k)
                            /\ e.expiresAt <= e.until + Grace(k)
    BY <1>2, <2>1 DEF FreshEntry
  <2>3. Grace(k) \in Nat /\ Grace(k + 1) = Grace(k) + (MinTTL + MaxLag)
    BY GraceFacts, LevelsType
  <2>4. e.ttl \in Nat /\ e.cachedAt \in Nat /\ e.expiresAt \in Nat /\ e.until \in Nat
    BY <1>2 DEF Entry
  <2>5. Deadline(query[c]) + Bigger(ttl, MinTTL) <= e.until + (Grace(k) + (MinTTL + MaxLag))
    BY <1>1, <1>2, <1>3, <2>1, <2>2, <2>3, <2>4, HandedOut
  <2> QED BY <1>5, <2>2, <2>3, <2>5
<1> QED BY <1>0, <1>5, <1>6, CarryFresh DEF n

\* What a server has just said, and an alias it has just told of, is fresh.
LEMMA JustSaid ==
  ASSUME NEW t \in Nat, NEW clock \in Nat, t <= clock + MaxLag, NEW ttl \in Nat
  PROVE  /\ t + Bigger(ttl, MinTTL) <= (clock + ttl) + Grace(1)
         /\ t + Bigger(ttl, MinNegTTL) <= (clock + ttl) + MinNegTTL + MaxLag
<1>1. Grace(1) = MinTTL + MaxLag /\ {MinTTL, MinNegTTL, MaxLag} \subseteq Nat
  BY GraceFacts, CacheAssumption
<1> QED BY <1>1 DEF Bigger

LEMMA DescendFresh ==
  ASSUME TypeInv, FreshInv, NEW c \in Clients, ~At(c, "idle"), NEW name, NEW why,
         NEW ttl \in Nat, Descend(c, name, why, ttl), why = "alias" => name = Alias[Name(c)]
  PROVE  \A d \in Clients : FreshClient(query'[d])
<1> DEFINE f == NewFrame(name, why, ttl)
           st == query[c].stack
           q == [query[c] EXCEPT !.at = "get", !.stack = Append(st, f)]
           t == Deadline(query[c])
<1>1. query' = [query EXCEPT ![c] = q]
  BY DEF Descend
<1>2. /\ query[c] \in State /\ FreshClient(query[c]) /\ now \in Nat
      /\ t \in Nat /\ t <= now + MaxLag
  BY AtWorkFacts
<1>3. st \in Seq(Frame) /\ Len(st) \in Nat \ {0} /\ Name(c) = st[Len(st)].name
  BY TopType DEF Name, Top
<1>4. f.name = name /\ f.why = why /\ f.ttl = ttl /\ f.until = now + ttl
  BY DEF NewFrame
<1> HIDE DEF f
<1>5. /\ Len(Append(st, f)) = Len(st) + 1 /\ Append(st, f)[Len(st) + 1] = f
      /\ \A i \in 1 .. Len(st) : Append(st, f)[i] = st[i]
  BY <1>3
<1>6. q.at = "get" /\ q.stack = Append(st, f) /\ q.since = query[c].since
  BY <1>2 DEF State
<1> HIDE DEF q, st, t
<1>7. t + Bigger(ttl, MinTTL) <= (now + ttl) + Grace(1)
  BY <1>2, JustSaid
<1>8. FreshFrames(st, t)
  BY <1>2 DEF FreshClient, st, t
<1>9. FreshFrames(Append(st, f), t)
  <2> SUFFICES ASSUME NEW i \in 2 .. Len(Append(st, f)), Append(st, f)[i].why = "alias"
               PROVE  /\ Append(st, f)[i].name = Alias[Append(st, f)[i - 1].name]
                      /\ t + Bigger(Append(st, f)[i].ttl, MinTTL)
                           <= Append(st, f)[i].until + Grace(1)
    BY DEF FreshFrames
  <2>1. CASE i = Len(st) + 1
    <3>1. Append(st, f)[i] = f /\ Append(st, f)[i - 1] = st[Len(st)]
      <4>1. i - 1 = Len(st) /\ Len(st) \in 1 .. Len(st)
        BY <1>3, <2>1
      <4> QED BY <4>1, <1>5, <2>1
    <3> QED BY <3>1, <1>3, <1>4, <1>7
  <2>2. CASE i # Len(st) + 1
    <3>1. i \in 2 .. Len(st) /\ i - 1 \in 1 .. Len(st) /\ i \in 1 .. Len(st)
      BY <1>3, <1>5, <2>2
    <3>2. Append(st, f)[i] = st[i] /\ Append(st, f)[i - 1] = st[i - 1]
      BY <3>1, <1>5
    <3> QED BY <3>1, <3>2, <1>8 DEF FreshFrames
  <2> QED BY <2>1, <2>2
<1>10. FreshClient(q)
  BY <1>6, <1>9 DEF FreshClient, Deadline, t
<1> QED BY <1>1, <1>10, FreshMoves

LEMMA LookupFresh ==
  ASSUME TypeInv, FreshInv, NEW c \in Clients, Lookup(c)
  PROVE  \A d \in Clients : FreshClient(query'[d])
<1> DEFINE n == Name(c)
           t == Deadline(query[c])
<1>1. ~At(c, "idle")
  BY DEF Lookup, At
<1>2. n \in Names /\ now \in Nat /\ t \in Nat /\ t <= now + MaxLag
  BY <1>1, AtWorkFacts
<1> HIDE DEF n, t
<1>3. CASE Carry(c, "stale", Failed)
  <2>1. Failed.kind = "fail"
    BY DEF Failed
  <2> QED BY <1>1, <1>3, <2>1, CarryFresh
<1>4. ASSUME Alias[n] = NoName, NEW kind \in {"ok", "nodata", "nx"}, NEW ttl \in Nat,
             Carry(c, "set", [kind |-> kind, ttl |-> ttl, until |-> now + ttl, stale |-> FALSE])
      PROVE  \A d \in Clients : FreshClient(query'[d])
  <2> DEFINE a == [kind |-> kind, ttl |-> ttl, until |-> now + ttl, stale |-> FALSE]
  <2>1. a.ttl = ttl /\ a.until = now + ttl /\ Carry(c, "set", a)
    BY <1>4
  <2> HIDE DEF a
  <2>2. Path(n, 1) /\ 1 \in Levels
    BY <1>2, <1>4, PathAlone
  <2>3. /\ t + Bigger(ttl, MinTTL) <= (now + ttl) + Grace(1)
        /\ t + Bigger(ttl, MinNegTTL) <= (now + ttl) + MinNegTTL + MaxLag
    BY <1>2, JustSaid
  <2>4. DataLasts(n, t, a, 0) /\ AbsenceLasts(t, a)
    BY <2>1, <2>2, <2>3 DEF DataLasts, AbsenceLasts
  <2> QED BY <1>1, <2>1, <2>4, CarryFresh DEF n, t
<1>5. ASSUME NEW ttl \in TTLs, Descend(c, Alias[n], "alias", ttl)
      PROVE  \A d \in Clients : FreshClient(query'[d])
  BY <1>1, <1>5, DescendFresh, CacheAssumption DEF n
<1>6. CASE Descend(c, Server[n], "server", 0)
  BY <1>1, <1>6, DescendFresh
<1> QED BY <1>3, <1>4, <1>5, <1>6, CacheAssumption DEF Lookup, n

LEMMA PanicFresh ==
  ASSUME TypeInv, FreshInv, NEW c \in Clients, Panic(c)
  PROVE  \A d \in Clients : FreshClient(query'[d])
<1> DEFINE q == [query[c] EXCEPT !.at = "return", !.ans = Failed, !.stack = <<Head(query[c].stack)>>]
<1>1. query' = [query EXCEPT ![c] = q]
  BY DEF Panic
<1>2. query[c] \in State
  BY TopType DEF Panic, At
<1>3. q.at = "return" /\ q.ans = Failed /\ q.stack = <<Head(query[c].stack)>>
  BY <1>2 DEF State
<1> HIDE DEF q
<1>4. Failed.kind = "fail"
  BY DEF Failed
<1>5. FreshFrames(q.stack, Deadline(q))
  BY <1>3 DEF FreshFrames
<1>6. FreshClient(q)
  BY <1>3, <1>4, <1>5 DEF FreshClient, DataLasts, Data
<1> QED BY <1>1, <1>6, FreshMoves

LEMMA GetStaleFresh ==
  ASSUME TypeInv, FreshInv, NEW c \in Clients, GetStale(c)
  PROVE  \A d \in Clients : FreshClient(query'[d])
<1>1. ~At(c, "idle") /\ query[c].at = "stale"
  BY DEF GetStale, At
<1>2. query[c] \in State /\ query[c].ans.kind = "fail"
  BY <1>1, AtWorkFacts DEF FreshClient
<1>3. ASSUME NEW kind, NEW until,
             Carry(c, "return", [kind |-> kind, ttl |-> StaleTTL, until |-> until, stale |-> TRUE])
      PROVE  \A d \in Clients : FreshClient(query'[d])
  <2> DEFINE a == [kind |-> kind, ttl |-> StaleTTL, until |-> until, stale |-> TRUE]
  <2>1. a.stale = TRUE /\ Carry(c, "return", a)
    BY <1>3
  <2> HIDE DEF a
  <2>2. DataLasts(Name(c), Deadline(query[c]), a, 1)
    BY <2>1 DEF DataLasts, Data
  <2> QED BY <1>1, <2>1, <2>2, CarryFresh
<1>4. CASE Goto(c, "set")
  <2>1. Carry(c, "set", query[c].ans)
    <3>1. [query[c] EXCEPT !.at = "set", !.ans = query[c].ans] = [query[c] EXCEPT !.at = "set"]
      BY <1>2 DEF State
    <3> QED BY <3>1, <1>4 DEF Goto, Carry
  <2>2. /\ DataLasts(Name(c), Deadline(query[c]), query[c].ans, 0)
        /\ AbsenceLasts(Deadline(query[c]), query[c].ans)
    BY <1>2 DEF DataLasts, AbsenceLasts, Data, Absence
  <2> QED BY <1>1, <2>1, <2>2, CarryFresh
<1> QED BY <1>3, <1>4 DEF GetStale

\* An answer may be worth one level more than it was.
LEMMA MoreLasts ==
  ASSUME NEW n, NEW t \in Nat, NEW a \in Answer, DataLasts(n, t, a, 0)
  PROVE  DataLasts(n, t, a, 1)
<1> SUFFICES ASSUME Data(a)
             PROVE  \E k \in Levels : Path(n, k) /\ t + Bigger(a.ttl, MinTTL) <= a.until + Grace(k + 1)
  BY DEF DataLasts
<1>1. PICK k \in Levels : Path(n, k) /\ t + Bigger(a.ttl, MinTTL) <= a.until + Grace(k + 0)
  BY DEF DataLasts
<1>2. k \in Nat /\ k + 1 \in Nat /\ k <= k + 1 /\ k + 0 = k
  BY LevelsType
<1>4. {Grace(k), Grace(k + 1)} \subseteq Nat /\ Grace(k) <= Grace(k + 1)
  BY <1>2, GraceFacts
<1>3. a.ttl \in Nat /\ a.until \in Nat /\ Bigger(a.ttl, MinTTL) \in Nat
  BY CacheAssumption DEF Answer, Bigger
<1> QED BY <1>1, <1>2, <1>3, <1>4

LEMMA SetFresh ==
  ASSUME TypeInv, FreshInv, NEW c \in Clients, Set(c)
  PROVE  /\ \A d \in Clients : FreshClient(query'[d])
         /\ \A n \in Names : FreshEntry(n, entries'[n]) /\ entries'[n].cachedAt <= now
<1> DEFINE n == Name(c)
           a == query[c].ans
           t == Deadline(query[c])
<1>1. ~At(c, "idle") /\ query[c].at = "set"
  BY DEF Set, At
<1>2. /\ query[c] \in State /\ a \in Answer /\ n \in Names /\ now \in Nat /\ t \in Nat
      /\ now <= t /\ DataLasts(n, t, a, 0) /\ AbsenceLasts(t, a)
  BY <1>1, AtWorkFacts DEF FreshClient
<1>3. \A d \in Clients : FreshClient(query'[d])
  <2>1. Carry(c, "return", a)
    <3>1. [query[c] EXCEPT !.at = "return", !.ans = query[c].ans]
            = [query[c] EXCEPT !.at = "return"]
      BY <1>2 DEF State
    <3> QED BY <3>1 DEF Set, Goto, Carry
  <2>2. DataLasts(n, t, a, 1)
    BY <1>2, MoreLasts
  <2> QED BY <1>1, <2>1, <2>2, CarryFresh
<1> HIDE DEF n, a, t
<1>4. FreshEntry(n, NewEntry(a)) /\ NewEntry(a).cachedAt <= now
  <2> DEFINE e == NewEntry(a)
  <2>1. /\ e.kind = a.kind /\ e.ttl = a.ttl /\ e.until = a.until /\ e.stale = a.stale
        /\ e.cachedAt = now /\ e.expiresAt = now + AnswerTTL(a)
    BY DEF NewEntry
  <2> HIDE DEF e
  <2>2. a.ttl \in Nat /\ a.until \in Nat
    BY <1>2 DEF Answer
  <2>3. ASSUME Data(e)
        PROVE  \E k \in Levels : /\ Path(n, k) /\ e.cachedAt + e.ttl <= e.until + Grace(k)
                                 /\ e.expiresAt <= e.until + Grace(k)
    <3>1. PICK k \in Levels : Path(n, k) /\ t + Bigger(a.ttl, MinTTL) <= a.until + Grace(k + 0)
      BY <1>2, <2>1, <2>3 DEF DataLasts, Data
    <3>2. k + 0 = k /\ Grace(k) \in Nat
      BY LevelsType, GraceFacts
    <3>3. AnswerTTL(a) \in Nat /\ AnswerTTL(a) <= Bigger(a.ttl, MinTTL)
          /\ a.ttl <= Bigger(a.ttl, MinTTL) /\ Bigger(a.ttl, MinTTL) \in Nat
      <4>1. AnswerTTL(a) = Clamp(a.ttl, MinTTL, MaxTTL)
        BY <2>1, <2>3 DEF Data, AnswerTTL, WithRecords
      <4> QED BY <4>1, <2>2, CacheAssumption DEF Clamp, Smaller, Bigger
    <3> QED BY <1>2, <2>1, <2>2, <3>1, <3>2, <3>3
  <2>4. ASSUME Absence(e)
        PROVE  e.expiresAt <= e.until + MinNegTTL + MaxLag
    <3>1. t + Bigger(a.ttl, MinNegTTL) <= a.until + MinNegTTL + MaxLag
      BY <1>2, <2>1, <2>4 DEF AbsenceLasts, Absence
    <3>2. AnswerTTL(a) \in Nat /\ AnswerTTL(a) <= Bigger(a.ttl, MinNegTTL)
          /\ Bigger(a.ttl, MinNegTTL) \in Nat
      <4>1. AnswerTTL(a) = Clamp(a.ttl, MinNegTTL, MaxNegTTL)
        BY <2>1, <2>4 DEF Absence, AnswerTTL, WithRecords
      <4> QED BY <4>1, <2>2, CacheAssumption DEF Clamp, Smaller, Bigger
    <3> QED BY <1>2, <2>1, <2>2, <3>1, <3>2, CacheAssumption
  <2> QED BY <1>2, <2>1, <2>3, <2>4 DEF FreshEntry, e
<1>5. \A m \in Names : FreshEntry(m, NoEntry) /\ NoEntry.cachedAt <= now
  BY <1>2 DEF NoEntry, FreshEntry, Data, Absence
<1>6. \A m \in Names : FreshEntry(m, entries[m]) /\ entries[m].cachedAt <= now
  BY DEF FreshInv, Timely
<1>7. \A m \in Names : \/ m = n /\ entries'[m] = NewEntry(a)
                       \/ entries'[m] \in {NoEntry, entries[m]}
  BY DEF Set, n, a
<1> QED BY <1>3, <1>4, <1>5, <1>6, <1>7

LEMMA ReturnFresh ==
  ASSUME TypeInv, FreshInv, NEW c \in Clients, Return(c)
  PROVE  \A d \in Clients : FreshClient(query'[d])
<1> DEFINE st == query[c].stack
           j == Depth(c)
           outer == SubSeq(st, 1, j)
           b == query[c].ans
           f == Top(c)
           a == IF f.why = "alias" THEN Chained(f, b) ELSE Failed
           resumed == [outer EXCEPT ![j].hasServer = TRUE]
           t == Deadline(query[c])
           q1 == [query[c] EXCEPT !.at = "lookup", !.ans = Failed, !.stack = resumed]
           q2 == [query[c] EXCEPT !.at = AfterAnswer(a), !.ans = a, !.stack = outer]
<1>1. ~At(c, "idle") /\ query[c].at = "return" /\ Depth(c) > 0
  BY DEF Return, At
<1>2. /\ query[c] \in State /\ b \in Answer /\ now \in Nat /\ t \in Nat
      /\ DataLasts(Name(c), t, b, 1) /\ FreshFrames(st, t)
  BY <1>1, AtWorkFacts DEF FreshClient
<1>3. /\ st \in Seq(Frame) /\ Len(st) = j + 1 /\ j \in Nat \ {0}
      /\ f = st[j + 1] /\ f \in Frame /\ Name(c) = f.name
  <2>1. st \in Seq(Frame) /\ Len(st) \in Nat \ {0} /\ f \in Frame /\ f = st[Len(st)]
        /\ Name(c) = f.name /\ j = Len(st) - 1
    BY <1>1, TopType DEF Name, Top, Depth
  <2> QED BY <1>1, <2>1
<1>4. query' = [query EXCEPT ![c] = q1] \/ query' = [query EXCEPT ![c] = q2]
  BY DEF Return
<1> HIDE DEF b, f, t, j
<1>5. /\ outer \in Seq(Frame) /\ Len(outer) = j
      /\ \A i \in 1 .. j : outer[i] = st[i] /\ outer[i] \in Frame
  <2>1. outer \in Seq(Frame) /\ Len(outer) = j /\ \A i \in 1 .. j : outer[i] = st[i]
    BY <1>3, SubSeqProperties
  <2> QED BY <2>1, ElementOfSeq
<1> HIDE DEF st, outer
<1>6. FreshFrames(outer, t)
  <2> SUFFICES ASSUME NEW i \in 2 .. j, outer[i].why = "alias"
               PROVE  /\ outer[i].name = Alias[outer[i - 1].name]
                      /\ t + Bigger(outer[i].ttl, MinTTL) <= outer[i].until + Grace(1)
    BY <1>5 DEF FreshFrames
  <2>1. i \in 2 .. Len(st) /\ i \in 1 .. j /\ i - 1 \in 1 .. j
    BY <1>3
  <2>2. outer[i] = st[i] /\ outer[i - 1] = st[i - 1]
    BY <2>1, <1>5
  <2> QED BY <2>1, <2>2, <1>2 DEF FreshFrames
<1>7. CASE query' = [query EXCEPT ![c] = q1]
  <2>1. q1.at = "lookup" /\ q1.stack = resumed /\ q1.since = query[c].since
    BY <1>2 DEF State
  <2> HIDE DEF q1
  <2>2. Len(resumed) = j
    BY <1>3, <1>5
  <2>3. \A i \in 1 .. j : /\ resumed[i].name = outer[i].name /\ resumed[i].why = outer[i].why
                          /\ resumed[i].ttl = outer[i].ttl /\ resumed[i].until = outer[i].until
    <3> SUFFICES ASSUME NEW i \in 1 .. j
                 PROVE  /\ resumed[i].name = outer[i].name /\ resumed[i].why = outer[i].why
                        /\ resumed[i].ttl = outer[i].ttl /\ resumed[i].until = outer[i].until
      OBVIOUS
    <3>1. resumed[i] = IF i = j THEN [outer[j] EXCEPT !.hasServer = TRUE] ELSE outer[i]
      BY <1>3, <1>5
    <3>2. outer[i] \in Frame
      BY <1>5
    <3> HIDE DEF resumed
    <3> QED BY <3>1, <3>2 DEF Frame
  <2> HIDE DEF resumed
  <2>4. FreshFrames(resumed, t)
    <3> SUFFICES ASSUME NEW i \in 2 .. j, resumed[i].why = "alias"
                 PROVE  /\ resumed[i].name = Alias[resumed[i - 1].name]
                        /\ t + Bigger(resumed[i].ttl, MinTTL) <= resumed[i].until + Grace(1)
      BY <2>2 DEF FreshFrames
    <3>1. i \in 1 .. j /\ i - 1 \in 1 .. j /\ i \in 2 .. Len(outer)
      BY <1>3, <1>5
    <3> QED BY <3>1, <2>3, <1>6 DEF FreshFrames
  <2>5. FreshClient(q1)
    BY <2>1, <2>4 DEF FreshClient, Deadline, t
  <2> QED BY <1>7, <2>5, FreshMoves
<1>8. CASE query' = [query EXCEPT ![c] = q2]
  <2>1. q2.at = AfterAnswer(a) /\ q2.ans = a /\ q2.stack = outer /\ q2.since = query[c].since
    BY <1>2 DEF State
  <2>2. Asked(q2) = outer[j].name /\ Deadline(q2) = t
    BY <1>5, <2>1 DEF Asked, Deadline, t
  <2>3. AfterAnswer(a) = "stale" => a.kind = "fail"
    BY DEF AfterAnswer
  <2>4. AfterAnswer(a) # "return"
    BY DEF AfterAnswer
  <2>5. DataLasts(outer[j].name, t, a, 0)
    <3> SUFFICES ASSUME Data(a)
                 PROVE  \E k \in Levels :
                          /\ Path(outer[j].name, k)
                          /\ t + Bigger(a.ttl, MinTTL) <= a.until + Grace(k + 0)
      BY DEF DataLasts
    <3>1. f.why = "alias" /\ a = Chained(f, b)
      BY DEF Data, Failed
    <3>2. Data(b) /\ a.ttl = Smaller(f.ttl, b.ttl) /\ a.until = Smaller(f.until, b.until)
      BY <3>1 DEF Data, Chained, WithRecords
    <3>3. PICK k \in Levels : /\ Path(f.name, k)
                              /\ t + Bigger(b.ttl, MinTTL) <= b.until + Grace(k + 1)
      BY <1>2, <1>3, <3>2 DEF DataLasts
    <3>4. /\ f.name = Alias[outer[j].name]
          /\ t + Bigger(f.ttl, MinTTL) <= f.until + Grace(1)
      <4>1. j + 1 \in 2 .. Len(st) /\ (j + 1) - 1 = j /\ j \in 1 .. j
        BY <1>3
      <4> QED BY <4>1, <1>2, <1>3, <1>5, <3>1 DEF FreshFrames
    <3>5. outer[j].name \in Names /\ f.name \in Names
      <4>1. outer[j] \in Frame
        BY <1>3, <1>5
      <4> QED BY <4>1, <1>3 DEF Frame
    <3>6. k + 1 \in Levels /\ Path(outer[j].name, k + 1)
      BY <3>3, <3>4, <3>5, PathExtends
    <3>7. k + 1 \in Nat /\ 1 <= k + 1 /\ (k + 1) + 0 = k + 1
      BY LevelsType
    <3>8. Grace(1) <= Grace(k + 1) /\ Grace(1) \in Nat /\ Grace(k + 1) \in Nat
      BY <3>7, GraceFacts
    <3>9. f.ttl \in Nat /\ f.until \in Nat /\ b.ttl \in Nat /\ b.until \in Nat
      BY <1>2, <1>3 DEF Frame, Answer
    <3>10. t + Bigger(a.ttl, MinTTL) <= a.until + Grace(k + 1)
      <4> HIDE DEF a
      <4>1. MinTTL \in Nat
        BY CacheAssumption
      <4> QED BY <1>2, <3>2, <3>3, <3>4, <3>8, <3>9, <4>1 DEF Smaller, Bigger
    <3> QED BY <3>6, <3>7, <3>10
  <2>6. AbsenceLasts(t, a)
    <3>1. a.kind # "nodata"
      BY DEF Chained, Failed
    <3> QED BY <3>1 DEF AbsenceLasts, Absence
  <2> HIDE DEF q2, a
  <2>7. FreshClient(q2)
    BY <2>1, <2>2, <2>3, <2>4, <2>5, <2>6, <1>6 DEF FreshClient
  <2> QED BY <1>8, <2>7, FreshMoves
<1> QED BY <1>4, <1>7, <1>8

LEMMA IdleFresh == FreshClient(Idle)
BY DEF Idle, FreshClient, FreshFrames

\* Who is at work after a step was before, since when it was, or starts now.
LEMMA TimelyStep ==
  ASSUME TypeInv, FreshInv, [Next]_vars
  PROVE  \A c \in Clients : ~At(c, "idle")' => /\ query'[c].since <= now'
                                               /\ now' <= Deadline(query'[c])
<1> SUFFICES ASSUME NEW c \in Clients, query'[c].at # "idle"
             PROVE  query'[c].since <= now' /\ now' <= query'[c].since + MaxLag
  BY DEF At, Deadline
<1>1. /\ now \in Nat /\ MaxLag \in Nat /\ query \in [Clients -> State]
      /\ query[c].since \in Nat /\ query[c] \in State
      /\ query[c].at # "idle" => query[c].since <= now /\ now <= query[c].since + MaxLag
  <2>1. now \in Nat /\ MaxLag \in Nat /\ query \in [Clients -> State] /\ query[c] \in State
    BY AnswerTypes, CacheAssumption DEF TypeInv, CacheTypeOK
  <2>2. query[c].since \in Nat
    BY <2>1, CacheAssumption DEF State
  <2>3. query[c].at # "idle" => query[c].since <= now /\ now <= query[c].since + MaxLag
    BY DEF FreshInv, Timely, At, Deadline
  <2> QED BY <2>1, <2>2, <2>3
<1>2. CASE now' = now /\ query'[c].since = query[c].since /\ query[c].at # "idle"
  BY <1>1, <1>2
<1>3. ASSUME NEW d \in Clients, NEW n \in Names, Query(d, n)
      PROVE  query'[c].since <= now' /\ now' <= query'[c].since + MaxLag
  <2>1. CASE d = c
    <3>1. query'[c].since = now /\ now' = now
      BY <1>1, <1>3, <2>1 DEF Query
    <3> QED BY <3>1, <1>1
  <2>2. CASE d # c
    <3>1. query'[c] = query[c] /\ now' = now
      BY <1>1, <1>3, <2>2 DEF Query
    <3> QED BY <3>1, <1>1
  <2> QED BY <2>1, <2>2
<1>4. ASSUME NEW d \in Clients, Work(d)
      PROVE  now' = now /\ query'[c].since = query[c].since /\ query[c].at # "idle"
  <2>1. Idle.at = "idle"
    BY DEF Idle
  <2>2. query'[c] = query[c] \/ (c = d /\ ~At(c, "idle") /\ query'[c] # Idle)
    BY <1>1, <1>4, <2>1
    DEF Work, Hit, Miss, Join, Lookup, Panic, GetStale, Set, Return, Unregister, Wake,
        Goto, Carry, Descend, At
  <2>3. query'[c].since = query[c].since
    <3>1. CASE query'[c] = query[c]
      BY <3>1
    <3>2. CASE c = d /\ query'[c] # Idle
      BY <1>1, <1>4, <3>2
      DEF Work, Hit, Miss, Join, Lookup, Panic, GetStale, Set, Return, Unregister, Wake,
          Goto, Carry, Descend, State
    <3> QED BY <2>2, <3>1, <3>2
  <2>4. now' = now
    BY <1>4 DEF Work, Hit, Miss, Join, Lookup, Panic, GetStale, Set, Return, Unregister, Wake
  <2> QED BY <2>2, <2>3, <2>4 DEF At
<1>5. CASE Tick
  <2>1. query'[c] = query[c] /\ now' = now + 1 /\ now < query[c].since + MaxLag
    BY <1>5 DEF Tick, At
  <2> QED BY <2>1, <1>1
<1>6. CASE UNCHANGED <<now, query>>
  BY <1>6, <1>1
<1> QED BY <1>2, <1>3, <1>4, <1>5, <1>6 DEF Next, Flush, Cleanup, vars

LEMMA FreshStep == TypeInv /\ FreshInv /\ [Next]_vars => FreshInv'
<1> SUFFICES ASSUME TypeInv, FreshInv, [Next]_vars PROVE FreshInv'
  OBVIOUS
<1>1. /\ now \in Nat
      /\ \A n \in Names : /\ FreshEntry(n, entries[n]) /\ entries[n].cachedAt <= now
                          /\ entries[n].cachedAt \in Nat
  BY AnswerTypes DEF FreshInv, Timely, TypeInv, CacheTypeOK, Entry
<1>2. \A n \in Names : FreshEntry(n, NoEntry) /\ NoEntry.cachedAt <= now
  BY <1>1 DEF NoEntry, FreshEntry, Data, Absence
<1>3. \A c \in Clients : FreshClient(query[c])
  BY DEF FreshInv
<1>4. \A n \in Names : FreshEntry(n, entries'[n]) /\ entries'[n].cachedAt <= now'
  <2>1. CASE Flush \/ Cleanup
    <3>1. now' = now /\ \A n \in Names : entries'[n] \in {NoEntry, entries[n]}
      BY <2>1 DEF Flush, Cleanup
    <3> QED BY <3>1, <1>1, <1>2
  <2>2. ASSUME NEW c \in Clients, Set(c)
        PROVE  \A n \in Names : FreshEntry(n, entries'[n]) /\ entries'[n].cachedAt <= now'
    <3>1. now' = now
      BY <2>2 DEF Set
    <3> QED BY <2>2, <3>1, SetFresh
  <2>3. CASE entries' = entries /\ now' \in {now, now + 1}
    BY <2>3, <1>1
  <2> QED BY <2>1, <2>2, <2>3
      DEF Next, Query, Work, Hit, Miss, Join, Lookup, Panic, GetStale, Return, Unregister,
          Wake, Tick, vars
<1>5. \A d \in Clients : FreshClient(query'[d])
  <2>1. query \in [Clients -> State]
    BY DEF TypeInv, CacheTypeOK
  <2>2. ASSUME NEW c \in Clients, NEW n \in Names, Query(c, n)
        PROVE  \A d \in Clients : FreshClient(query'[d])
    <3>1. PICK q \in State : /\ query' = [query EXCEPT ![c] = q] /\ q.at = "get"
                             /\ Len(q.stack) = 1
      BY <2>2, QueryMoves
    <3>2. FreshClient(q)
      BY <3>1 DEF FreshClient, FreshFrames
    <3> QED BY <3>1, <3>2, FreshMoves
  <2>3. ASSUME NEW c \in Clients, Hit(c) PROVE \A d \in Clients : FreshClient(query'[d])
    <3>1. Depth(c) \in Nat
      BY <2>3, TopType DEF Hit, At
    <3>2. CASE Depth(c) = 0
      <4>1. query' = [query EXCEPT ![c] = Idle]
        BY <2>3, <3>2 DEF Hit
      <4> QED BY <4>1, IdleFresh, FreshMoves
    <3>3. CASE Depth(c) > 0
      BY <2>3, <3>3, HitFresh
    <3> QED BY <3>1, <3>2, <3>3
  <2>4. ASSUME NEW c \in Clients, Miss(c) \/ Unregister(c)
        PROVE  \A d \in Clients : FreshClient(query'[d])
    <3>1. ~At(c, "idle") /\ \E label \in {"join", "lookup", "wake"} : Goto(c, label)
      BY <2>4 DEF Miss, Unregister, At
    <3> QED BY <3>1, GotoFresh DEF Labels
  <2>5. ASSUME NEW c \in Clients, Join(c) PROVE \A d \in Clients : FreshClient(query'[d])
    <3>1. ~At(c, "idle")
      BY <2>5 DEF Join, At
    <3>2. CASE Goto(c, "lookup")
      BY <3>1, <3>2, GotoFresh DEF Labels
    <3>3. CASE query' = [query EXCEPT ![c].at = "wait", ![c].waitsFor = calls[Name(c)]]
      <4> DEFINE q == [query[c] EXCEPT !.at = "wait", !.waitsFor = calls[Name(c)]]
      <4>1. query' = [query EXCEPT ![c] = q]
        BY <3>3
      <4>2. q.at = "wait" /\ q.stack = query[c].stack /\ q.since = query[c].since
        BY <2>1 DEF State
      <4> HIDE DEF q
      <4>3. FreshClient(q)
        BY <4>2, <1>3 DEF FreshClient, Deadline
      <4> QED BY <4>1, <4>3, FreshMoves
    <3> QED BY <2>5, <3>2, <3>3 DEF Join
  <2>6. ASSUME NEW c \in Clients, Wake(c) PROVE \A d \in Clients : FreshClient(query'[d])
    BY <2>6, <1>3, IdleFresh DEF Wake
  <2>7. CASE UNCHANGED query
    BY <2>7, <1>3
  <2>8. ASSUME NEW c \in Clients, Set(c) PROVE \A d \in Clients : FreshClient(query'[d])
    BY <2>8, SetFresh
  <2> QED BY <2>2, <2>3, <2>4, <2>5, <2>6, <2>7, <2>8, LookupFresh, PanicFresh, GetStaleFresh,
             ReturnFresh
      DEF Next, Work, Flush, Cleanup, Tick, vars
<1> QED BY <1>4, <1>5, TimelyStep DEF FreshInv, Timely

LEMMA FreshInit == Init => FreshInv
<1> SUFFICES ASSUME Init PROVE FreshInv
  OBVIOUS
<1>1. \A c \in Clients : query[c] = Idle
  BY DEF Init
<1>2. Idle.at = "idle"
  BY DEF Idle
<1>3. \A n \in Names : FreshEntry(n, NoEntry) /\ NoEntry.cachedAt <= 0
  BY DEF NoEntry, FreshEntry, Data, Absence
<1> QED BY <1>1, <1>2, <1>3, IdleFresh DEF Init, FreshInv, Timely, At

\* No answer is served as fresh for long after its owner's TTL, however it was
\* put together from aged, clamped and cached parts, for any aliases and TTLs
\* (agedRecords, answerTTL).
THEOREM AnswersStayFresh == Spec => []DataFresh
BY TypeInit, TypeStep, FreshInit, FreshStep, FreshImplies, PTL DEF Spec
=============================================================================
